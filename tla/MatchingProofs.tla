---------------------------- MODULE MatchingProofs ---------------------------
(***************************************************************************)
(* What holds of one rule on its way from the kernel to a decision,        *)
(* whatever its author wrote, whichever build stored it and whoever edited *)
(* the document since.                                                     *)
(***************************************************************************)
EXTENDS Matching, StatementProofs

(***************************************************************************)
(* What the compilers produce                                              *)
(***************************************************************************)
\* Only these expressions have nothing beside their kind, and the name of an
\* extension says whether its payload is empty.
Whole(e) ==
    /\ "k" \in DOMAIN e
    /\ DOMAIN e = {"k"} => e.k \in {"limit", "log", "quota", "last", "reject"}
    /\ IsXt(e) => (e.info = NoPayload <=> e.name = "socket") /\ e.info.type # "garbled"
AllWhole(s) == s \in Seq(Range(s)) /\ \A i \in DOMAIN s : Whole(s[i])

LEMMA WholeLists ==
    /\ AllWhole(<<>>)
    /\ \A a : Whole(a) => AllWhole(<<a>>)
    /\ \A a, b : Whole(a) /\ Whole(b) => AllWhole(<<a, b>>)
    /\ \A a, b, c : Whole(a) /\ Whole(b) /\ Whole(c) => AllWhole(<<a, b, c>>)
<1>1. ASSUME NEW S, NEW s \in Seq(S) PROVE s \in Seq(Range(s))
  BY SeqOfItsElements, RangeIsToSet
<1> QED
  BY DEF AllWhole, Range

LEMMA ShapesAreWhole ==
    /\ Whole(LoadPort)
    /\ \A op, data : Whole(Cmp(op, data))
    /\ \A name, rev, info :
          (info = NoPayload <=> name = "socket") /\ info.type # "garbled"
          => Whole(Match(name, rev, info)) /\ Whole(Target(name, rev, info))
    /\ \A field, off, len : Whole(AddrAt(field, off, len))
    /\ \A mask, xor : Whole([k |-> "bitwise", src |-> 1, reg |-> 1, mask |-> mask, xor |-> xor])
    /\ \A data, r : Whole([k |-> "immediate", reg |-> r, data |-> data])
    /\ \A key : Whole([k |-> "meta", key |-> key, reg |-> 1])
    /\ \A key, source : Whole([k |-> "ct", key |-> key, reg |-> 1, source |-> source])
    /\ \A flags : Whole([k |-> "fib", flags |-> flags, reg |-> 1])
    /\ \A from, to : Whole([k |-> "range", op |-> "neq", reg |-> 1, from |-> from, to |-> to])
    /\ \A set, invert : Whole([k |-> "lookup", reg |-> 1, set |-> set, setID |-> 0,
                               invert |-> invert, dest |-> FALSE])
BY DEF Whole, IsXt, LoadPort, Cmp, Match, Target, AddrAt

\* A rule's action.
LEMMA ActionShapesAreWhole ==
    /\ \A kind, chain : Whole([k |-> "verdict", kind |-> kind, chain |-> chain])
    /\ \A type, proto : Whole([k |-> "nat", type |-> type, addr |-> 1, proto |-> proto])
    /\ \A k \in {"limit", "log", "quota", "last", "reject"} : Whole([k |-> k])
BY DEF Whole, IsXt

LEMMA XtShapesAreWhole ==
    /\ \A name, rev, info :
          name # "socket" /\ info.type \notin {"bytes", "garbled"}
          => Whole(Match(name, rev, info)) /\ Whole(Target(name, rev, info))
    /\ \A name, rev, info :
          name # "socket" /\ info.type = "bytes" /\ info.len # 0
          => Whole(Match(name, rev, info)) /\ Whole(Target(name, rev, info))
    /\ \A rev : Whole(Match("socket", rev, NoPayload))
<1>1. NoPayload.type = "bytes" /\ NoPayload.len = 0
  BY DEF NoPayload
<1>2. ASSUME NEW name, NEW rev, NEW info, name # "socket", info # NoPayload, info.type # "garbled"
      PROVE  Whole(Match(name, rev, info)) /\ Whole(Target(name, rev, info))
  BY <1>2, ShapesAreWhole
<1>3. ASSUME NEW name, NEW rev, NEW info, name # "socket", info.type \notin {"bytes", "garbled"}
      PROVE  Whole(Match(name, rev, info)) /\ Whole(Target(name, rev, info))
  <2>1. info # NoPayload
    BY <1>1, <1>3
  <2> QED
    BY <1>2, <1>3, <2>1
<1>4. ASSUME NEW name, NEW rev, NEW info, name # "socket", info.type = "bytes", info.len # 0
      PROVE  Whole(Match(name, rev, info)) /\ Whole(Target(name, rev, info))
  <2>1. info # NoPayload
    BY <1>1, <1>4
  <2> QED
    BY <1>2, <1>4, <2>1
<1>5. ASSUME NEW rev
      PROVE  Whole(Match("socket", rev, NoPayload))
  <2>1. NoPayload.type # "garbled"
    BY <1>1
  <2> QED
    BY <2>1, ShapesAreWhole
<1> QED
  BY <1>3, <1>4, <1>5

LEMMA CompileIsWhole == \A st : st.s \in StatementKinds => AllWhole(Compile(st))
<1> SUFFICES ASSUME NEW st, st.s \in StatementKinds
             PROVE  AllWhole(Compile(st))
  OBVIOUS
<1>1. CASE st.s \in {"port", "between"}
  BY <1>1, WholeLists, ShapesAreWhole DEF Compile
<1>2. CASE st.s = "outside"
  BY <1>2, WholeLists, ShapesAreWhole DEF Compile
<1>3. CASE st.s = "masked"
  BY <1>3, WholeLists, ShapesAreWhole DEF Compile
<1>4. CASE st.s = "in-set"
  BY <1>4, WholeLists, ShapesAreWhole DEF Compile
<1>5. CASE st.s = "prefix"
  BY <1>5, WholeLists, ShapesAreWhole DEF Compile, CompilePrefix
<1>6. CASE st.s \in {"proto", "iifname", "iif", "skuid-0", "mark"}
  BY <1>6, WholeLists, ShapesAreWhole DEF Compile
<1>7. CASE st.s \in {"ct-new", "ct-old", "ct-dnat", "ct-mark"}
  BY <1>7, WholeLists, ShapesAreWhole DEF Compile, CtBit
<1>8. CASE st.s = "set-ct-mark"
  BY <1>8, WholeLists, ShapesAreWhole DEF Compile
<1>9. CASE st.s \in {"local", "no-route", "route-by"}
  BY <1>9, WholeLists, ShapesAreWhole DEF Compile
<1>10. CASE st.s = "xt-state"
  <2> DEFINE info == [type |-> "conntrack", match |-> {StateFlag} \union st.others,
                      invert |-> IF st.invert THEN {StateFlag} ELSE {}, states |-> st.states]
  <2>1. Compile(st) = <<Match("conntrack", 3, info)>>
    BY <1>10 DEF Compile
  <2>2. info.type = "conntrack"
    OBVIOUS
  <2> HIDE DEF info
  <2> QED
    BY <2>1, <2>2, WholeLists, XtShapesAreWhole
<1>11. CASE st.s = "xt-types"
  <2> DEFINE old == [type |-> "addrtype", rev |-> 0, dst |-> st.dst, src |-> st.src,
                     invertDst |-> st.invert, invertSrc |-> FALSE]
             new == [type |-> "addrtype", rev |-> st.rev, dst |-> st.dst, src |-> st.src,
                     flags |-> (IF st.invert THEN {2} ELSE {}) \union st.limits]
             info == IF st.rev = 0 THEN old ELSE new
  <2>1. Compile(st) = <<Match("addrtype", st.rev, info)>>
    BY <1>11 DEF Compile
  <2>2. old.type = "addrtype" /\ new.type = "addrtype"
    OBVIOUS
  <2> HIDE DEF old, new
  <2>3. info.type = "addrtype"
    BY <2>2
  <2> HIDE DEF info
  <2> QED
    BY <2>1, <2>3, WholeLists, XtShapesAreWhole
<1>12. CASE st.s \in {"recent", "opaque", "socket", "xt-icmp"}
  <2>1. \A n : Bytes(n).type = "bytes" /\ Bytes(n).len = n
    BY DEF Bytes
  <2>2. CASE st.s = "recent"
    <3> DEFINE info == [type |-> "bytes", len |-> 232, checkSet |-> st.check, invert |-> st.invert]
    <3>1. Compile(st) = <<Match("recent", st.rev, info)>>
      BY <2>2 DEF Compile
    <3>2. info.type = "bytes" /\ info.len # 0
      OBVIOUS
    <3> HIDE DEF info
    <3> QED
      BY <3>1, <3>2, WholeLists, XtShapesAreWhole
  <2>3. CASE st.s = "opaque"
    <3>1. Compile(st) = <<Match("geoip", 0, Bytes(8))>>
      BY <2>3 DEF Compile
    <3> QED
      BY <2>1, <3>1, WholeLists, XtShapesAreWhole
  <2>4. CASE st.s = "socket"
    <3>1. Compile(st) = <<Match("socket", 0, NoPayload)>>
      BY <2>4 DEF Compile
    <3> QED
      BY <3>1, WholeLists, XtShapesAreWhole
  <2>5. CASE st.s = "xt-icmp"
    <3>1. Compile(st) = <<Match("icmp", 0, Bytes(4))>>
      BY <2>5 DEF Compile
    <3> QED
      BY <2>1, <3>1, WholeLists, XtShapesAreWhole
  <2> QED
    BY <1>12, <2>2, <2>3, <2>4, <2>5
<1>13. CASE st.s \in {"limit", "log", "quota", "last"}
  BY <1>13, WholeLists, ActionShapesAreWhole DEF Compile
<1> QED
  BY <1>1, <1>2, <1>3, <1>4, <1>5, <1>6, <1>7, <1>8, <1>9, <1>10, <1>11, <1>12, <1>13
     DEF StatementKinds

LEMMA ConcatIsWhole ==
    ASSUME NEW s, NEW t, AllWhole(s), AllWhole(t)
    PROVE  AllWhole(s \o t) /\ Range(s \o t) = Range(s) \union Range(t)
<1> DEFINE S == Range(s) \union Range(t)
<1>1. s \in Seq(S) /\ t \in Seq(S)
  <2>1. Seq(Range(s)) \subseteq Seq(S) /\ Seq(Range(t)) \subseteq Seq(S)
    BY DEF Range
  <2> QED
    BY <2>1 DEF AllWhole
<1> HIDE DEF S
<1>2. s \o t \in Seq(S) /\ ToSet(s \o t) = ToSet(s) \union ToSet(t)
  BY <1>1, ToSetOfConcat
<1>3. s \o t \in Seq(Range(s \o t)) /\ Range(s \o t) = Range(s) \union Range(t)
  BY <1>2, SeqOfItsElements, RangeIsToSet
<1>4. \A e \in Range(s) \union Range(t) : Whole(e)
  BY DEF AllWhole, Range
<1> QED
  BY <1>3, <1>4 DEF AllWhole, Range

\* An extension keeps all of its fields, or only its kind.
XtFields == {"k", "kind", "name", "rev", "decoded", "arg", "raw"}
Shaped(e) == e.k = "xt" => IsBare(e) \/ DOMAIN e = XtFields

\* An expression that acts, or of which nothing is known: a rule that has
\* one is not harmless.
Acting(e) ==
    \/ e.k \in {"verdict", "nat", "unknown", "later"}
    \/ e.k = "xt" /\ ~IsBare(e) /\ e.kind = "target" /\ e.name # "LOG"

Kept(e) == e.k \notin Dropped /\ Acting(ConvertExpr(e))

LEMMA ActionsAreKept ==
    /\ \A kind, chain : Kept([k |-> "verdict", kind |-> kind, chain |-> chain])
    /\ \A type, proto : Kept([k |-> "nat", type |-> type, addr |-> 1, proto |-> proto])
    /\ Kept([k |-> "reject"])
    /\ \A name, rev, info : name # "LOG" => Kept(Target(name, rev, info))
<1>1. \A name, rev, info :
          /\ ConvertXt("target", name, rev, info).k = "xt"
          /\ ConvertXt("target", name, rev, info).kind = "target"
          /\ ConvertXt("target", name, rev, info).name = name
          /\ ~IsBare(ConvertXt("target", name, rev, info))
  BY DEF ConvertXt, IsBare
<1>2. ASSUME NEW name, NEW rev, NEW info, name # "LOG"
      PROVE  Kept(Target(name, rev, info))
  <2>1. ConvertExpr(Target(name, rev, info)) = ConvertXt("target", name, rev, info)
    BY DEF Target, ConvertExpr
  <2> QED
    BY <1>1, <1>2, <2>1 DEF Kept, Acting, Dropped, Target
<1>3. Kept([k |-> "reject"])
  BY DEF Kept, Acting, Dropped, ConvertExpr
<1>4. ASSUME NEW type, NEW proto
      PROVE  Kept([k |-> "nat", type |-> type, addr |-> 1, proto |-> proto])
  BY DEF Kept, Acting, Dropped, ConvertExpr, ConvertNAT, Unknown
<1>5. ASSUME NEW kind, NEW chain
      PROVE  Kept([k |-> "verdict", kind |-> kind, chain |-> chain])
  BY DEF Kept, Acting, Dropped, ConvertExpr
<1> QED
  BY <1>2, <1>3, <1>4, <1>5

LEMMA DoesIsWhole ==
    ASSUME NEW d, d.d \in DoesKinds, d.d = "xt" => d.name # "socket"
    PROVE  /\ AllWhole(CompileDoes(d))
           /\ Acts(d) => \E e \in Range(CompileDoes(d)) : Kept(e)
<1>1. CASE d.d = "none"
  BY <1>1, WholeLists DEF CompileDoes, Acts
<1>2. CASE d.d = "verdict"
  BY <1>2, WholeLists, ActionShapesAreWhole, ActionsAreKept DEF CompileDoes, Range
<1>3. CASE d.d = "dnat"
  <2> DEFINE a == <<[k |-> "immediate", reg |-> 1, data |-> d.to]>>
             b == IF d.port = 0 THEN <<>>
                  ELSE <<[k |-> "immediate", reg |-> 2, data |-> PortBytes(d.port)]>>
             e == [k |-> "nat", type |-> "dnat", addr |-> 1, proto |-> IF d.port = 0 THEN 0 ELSE 2]
  <2>1. CompileDoes(d) = (a \o b) \o <<e>>
    BY <1>3 DEF CompileDoes
  <2>2. AllWhole(a) /\ AllWhole(b)
    BY WholeLists, ShapesAreWhole
  <2>3. Whole(e) /\ Kept(e)
    BY ActionShapesAreWhole, ActionsAreKept
  <2> HIDE DEF a, b, e
  <2>4. AllWhole(<<e>>) /\ e \in Range(<<e>>)
    BY <2>3, WholeLists DEF Range
  <2>5. AllWhole(a \o b)
    BY <2>2, ConcatIsWhole
  <2>6. AllWhole((a \o b) \o <<e>>) /\ e \in Range((a \o b) \o <<e>>)
    BY <2>4, <2>5, ConcatIsWhole
  <2> QED
    BY <2>1, <2>3, <2>6
<1>4. CASE d.d = "snat"
  BY <1>4, WholeLists, ShapesAreWhole, ActionShapesAreWhole, ActionsAreKept DEF CompileDoes, Range
<1>5. CASE d.d = "reject"
  BY <1>5, WholeLists, ActionShapesAreWhole, ActionsAreKept DEF CompileDoes, Range
<1>6. CASE d.d = "xt-dnat"
  <2> DEFINE info == [type |-> "nat-range", minIP |-> d.to, minPort |-> d.port]
             e == Target("DNAT", 2, info)
  <2>1. CompileDoes(d) = <<e>>
    BY <1>6 DEF CompileDoes
  <2>2. Whole(e) /\ Kept(e)
    <3>1. info.type = "nat-range"
      OBVIOUS
    <3> HIDE DEF info
    <3> QED
      BY <3>1, XtShapesAreWhole, ActionsAreKept
  <2> HIDE DEF e
  <2> QED
    BY <2>1, <2>2, WholeLists DEF Range
<1>7. CASE d.d = "xt-dnat-0"
  <2> DEFINE info == [type |-> "multi-range", minIP |-> d.to]
             e == Target("DNAT", 0, info)
  <2>1. CompileDoes(d) = <<e>>
    BY <1>7 DEF CompileDoes
  <2>2. Whole(e) /\ Kept(e)
    <3>1. info.type = "multi-range"
      OBVIOUS
    <3> HIDE DEF info
    <3> QED
      BY <3>1, XtShapesAreWhole, ActionsAreKept
  <2> HIDE DEF e
  <2> QED
    BY <2>1, <2>2, WholeLists DEF Range
<1>8. CASE d.d = "xt"
  <2> DEFINE e == Target(d.name, 0, Bytes(8))
  <2>1. CompileDoes(d) = <<e>>
    BY <1>8 DEF CompileDoes
  <2>2. Whole(e)
    <3>1. Bytes(8).type = "bytes" /\ Bytes(8).len = 8
      BY DEF Bytes
    <3> QED
      BY <1>8, <3>1, XtShapesAreWhole
  <2>3. Acts(d) => Kept(e)
    BY <1>8, ActionsAreKept DEF Acts
  <2> HIDE DEF e
  <2> QED
    BY <2>1, <2>2, <2>3, WholeLists DEF Range
<1> QED
  BY <1>1, <1>2, <1>3, <1>4, <1>5, <1>6, <1>7, <1>8 DEF DoesKinds

LEMMA KernelIsWhole ==
    ASSUME NEW x \in Inputs
    PROVE  /\ AllWhole(CompileRule(x.stmts, x.does))
           /\ Acts(x.does) => \E e \in Range(CompileRule(x.stmts, x.does)) : Kept(e)
<1> DEFINE ss == [i \in DOMAIN x.stmts |-> Compile(x.stmts[i])]
           S == UNION {Range(ss[i]) : i \in DOMAIN x.stmts}
           pre == FlattenSeq(ss)
           end == CompileDoes(x.does)
<1>1. /\ x.stmts \in Seq(Range(x.stmts)) /\ x.does.d \in DoesKinds
      /\ x.does.d = "xt" => x.does.name # "socket"
  BY InputsAssumption
<1>2. \A i \in DOMAIN x.stmts : AllWhole(ss[i])
  <2>1. \A i \in DOMAIN x.stmts : x.stmts[i].s \in StatementKinds
    BY InputsAssumption DEF Range
  <2> QED
    BY <2>1, CompileIsWhole
<1>3. DOMAIN x.stmts = 1 .. Len(x.stmts) /\ Len(x.stmts) \in Nat
  BY <1>1
<1>4. \A i \in DOMAIN x.stmts : ss[i] \in Seq(S)
  <2> SUFFICES ASSUME NEW i \in DOMAIN x.stmts
               PROVE  ss[i] \in Seq(S)
    OBVIOUS
  <2> DEFINE s == ss[i]
  <2>1. s \in Seq(Range(s)) /\ Range(s) \subseteq S
    BY <1>2 DEF AllWhole
  <2> HIDE DEF s, S
  <2>2. s \in Seq(S)
    BY <2>1
  <2> QED
    BY <2>2 DEF s
<1>5. \A e \in S : Whole(e)
  <2> SUFFICES ASSUME NEW i \in DOMAIN x.stmts, NEW e \in Range(ss[i])
               PROVE  Whole(e)
    OBVIOUS
  <2>1. AllWhole(ss[i])
    BY <1>2
  <2> HIDE DEF ss
  <2> QED
    BY <2>1 DEF AllWhole, Range
<1>6. ss \in Seq(Seq(S))
  <2> HIDE DEF S
  <2>1. ss = [i \in 1 .. Len(x.stmts) |-> ss[i]]
    BY <1>3
  <2> HIDE DEF ss
  <2> QED
    BY <1>3, <1>4, <2>1
<1> HIDE DEF S, ss
<1>7. pre \in Seq(S)
  BY <1>6, FlattenIsSeq
<1>8. AllWhole(pre)
  <2> HIDE DEF pre
  <2>1. pre \in Seq(Range(pre)) /\ \A i \in DOMAIN pre : pre[i] \in S
    BY <1>7, SeqOfItsElements, RangeIsToSet
  <2> QED
    BY <1>5, <2>1 DEF AllWhole
<1>9. AllWhole(end) /\ (Acts(x.does) => \E e \in Range(end) : Kept(e))
  BY <1>1, DoesIsWhole
<1>10. CompileRule(x.stmts, x.does) = pre \o end
  BY DEF CompileRule, ss
<1> HIDE DEF pre, end
<1> QED
  BY <1>8, <1>9, <1>10, ConcatIsWhole

(***************************************************************************)
(* Collection and the document                                             *)
(***************************************************************************)
\* What collection makes of an expression is whole.
Sound(e) == Shaped(e) /\ ~Missing(e)

LEMMA ConvertedXt ==
    ASSUME NEW kind, NEW name, NEW rev, NEW info
    PROVE  /\ DOMAIN ConvertXt(kind, name, rev, info) = XtFields
           /\ ConvertXt(kind, name, rev, info).k = "xt"
           /\ ConvertXt(kind, name, rev, info).kind = kind
           /\ ConvertXt(kind, name, rev, info).name = name
BY DEF ConvertXt, XtFields

LEMMA XtIsSound ==
    ASSUME NEW e, e.k = "xt", DOMAIN e = XtFields
    PROVE  Sound(e) /\ ~IsBare(e)
<1>1. DOMAIN e # {"k"}
  BY "raw" \in XtFields DEF XtFields
<1> QED
  BY <1>1 DEF Sound, Shaped, Missing, IsBare

LEMMA NotBareIsSound == \A e : e.k # "xt" /\ DOMAIN e # {"k"} => Sound(e)
BY DEF Sound, Shaped, Missing, IsBare

LEMMA ConvertIsSound == \A e : Whole(e) => Sound(ConvertExpr(e))
<1> SUFFICES ASSUME NEW e, Whole(e)
             PROVE  Sound(ConvertExpr(e))
  OBVIOUS
<1>0. Sound(Unknown) /\ Sound(Other)
  BY DEF Unknown, Other, Sound, Shaped, Missing, IsBare, Objects
<1>1. CASE e.k = "payload"
  <2> DEFINE v == Named(PayloadBases, e.base)
  <2>1. ConvertExpr(e) = [e EXCEPT !.base = v]
    BY <1>1 DEF ConvertExpr
  <2> HIDE DEF v
  <2>2. DOMAIN [e EXCEPT !.base = v] = DOMAIN e /\ [e EXCEPT !.base = v].k = e.k
    BY DEF Whole
  <2>3. DOMAIN e # {"k"} /\ e.k # "xt"
    BY <1>1 DEF Whole
  <2> QED
    BY <2>1, <2>2, <2>3, NotBareIsSound
<1>2. CASE e.k \in {"cmp", "range"}
  <2> DEFINE v == Named(CmpOps, e.op)
  <2>1. ConvertExpr(e) = [e EXCEPT !.op = v]
    BY <1>2 DEF ConvertExpr
  <2> HIDE DEF v
  <2>2. DOMAIN [e EXCEPT !.op = v] = DOMAIN e /\ [e EXCEPT !.op = v].k = e.k
    BY DEF Whole
  <2>3. DOMAIN e # {"k"} /\ e.k # "xt"
    BY <1>2 DEF Whole
  <2> QED
    BY <2>1, <2>2, <2>3, NotBareIsSound
<1>3. CASE e.k = "meta"
  <2> DEFINE v == Named(MetaKeys, e.key)
  <2>1. ConvertExpr(e) = [e EXCEPT !.key = v]
    BY <1>3 DEF ConvertExpr
  <2> HIDE DEF v
  <2>2. DOMAIN [e EXCEPT !.key = v] = DOMAIN e /\ [e EXCEPT !.key = v].k = e.k
    BY DEF Whole
  <2>3. DOMAIN e # {"k"} /\ e.k # "xt"
    BY <1>3 DEF Whole
  <2> QED
    BY <2>1, <2>2, <2>3, NotBareIsSound
<1>4. CASE e.k = "verdict"
  <2> DEFINE v == Named(VerdictKinds, e.kind)
  <2>1. ConvertExpr(e) = [e EXCEPT !.kind = v]
    BY <1>4 DEF ConvertExpr
  <2> HIDE DEF v
  <2>2. DOMAIN [e EXCEPT !.kind = v] = DOMAIN e /\ [e EXCEPT !.kind = v].k = e.k
    BY DEF Whole
  <2>3. DOMAIN e # {"k"} /\ e.k # "xt"
    BY <1>4 DEF Whole
  <2> QED
    BY <2>1, <2>2, <2>3, NotBareIsSound
<1>5. CASE e.k \in {"bitwise", "immediate", "lookup"}
  BY <1>5, NotBareIsSound DEF ConvertExpr, Whole
<1>6. CASE e.k = "ct"
  BY <1>6 DEF ConvertExpr, ConvertCt, Unknown, Sound, Shaped, Missing, IsBare, Objects
<1>7. CASE e.k = "nat"
  <2>1. ConvertExpr(e) = e \/ ConvertExpr(e) = Unknown
    BY <1>7 DEF ConvertExpr, ConvertNAT
  <2> QED
    BY <1>7, <2>1, <1>0, NotBareIsSound DEF Whole
<1>8. CASE e.k = "fib"
  BY <1>8, <1>0, NotBareIsSound DEF ConvertExpr, ConvertFib
<1>9. CASE e.k \in {"match", "target"}
  <2>1. ConvertExpr(e) = ConvertXt(e.k, e.name, e.rev, e.info)
    BY <1>9 DEF ConvertExpr
  <2> QED
    BY <2>1, ConvertedXt, XtIsSound
<1>10. CASE e.k = "reject"
  <2> DEFINE g == [k |-> "verdict", kind |-> "reject", chain |-> ""]
  <2>1. ConvertExpr(e) = g
    BY <1>10 DEF ConvertExpr
  <2>2. g.k # "xt" /\ DOMAIN g # {"k"}
    OBVIOUS
  <2> HIDE DEF g
  <2> QED
    BY <2>1, <2>2, NotBareIsSound
<1>11. CASE e.k \in {"log", "counter", "limit"}
  <2>1. ConvertExpr(e) = Other
    BY <1>11 DEF ConvertExpr
  <2> QED
    BY <1>0, <2>1
<1>12. CASE e.k \notin {"payload", "cmp", "range", "meta", "verdict", "bitwise", "immediate", "lookup",
                        "ct", "nat", "fib", "match", "target", "reject", "log", "counter", "limit"}
  <2>1. ConvertExpr(e) = Unknown
    BY <1>12 DEF ConvertExpr
  <2> QED
    BY <1>0, <2>1
<1> QED
  BY <1>1, <1>2, <1>3, <1>4, <1>5, <1>6, <1>7, <1>8, <1>9, <1>10, <1>11, <1>12

LEMMA XtChanged ==
    ASSUME NEW e, e.k = "xt", DOMAIN e = XtFields,
           NEW g, g.k = "xt", DOMAIN g = XtFields, g.kind = e.kind, g.name = e.name
    PROVE  Sound(g) /\ (Acting(e) => Acting(g))
BY XtIsSound DEF Acting

LEMMA RawExcept ==
    ASSUME NEW e, e.k = "xt", DOMAIN e = XtFields, NEW v
    PROVE  LET g == [e EXCEPT !.raw = v]
           IN  g.k = "xt" /\ DOMAIN g = XtFields /\ g.kind = e.kind /\ g.name = e.name
BY DEF XtFields

LEMMA ArgExcept ==
    ASSUME NEW e, e.k = "xt", DOMAIN e = XtFields, NEW v
    PROVE  LET g == [e EXCEPT !.arg = v]
           IN  g.k = "xt" /\ DOMAIN g = XtFields /\ g.kind = e.kind /\ g.name = e.name
BY DEF XtFields

LEMMA DecodedExcept ==
    ASSUME NEW e, e.k = "xt", DOMAIN e = XtFields, NEW v
    PROVE  LET g == [e EXCEPT !.decoded = v]
           IN  g.k = "xt" /\ DOMAIN g = XtFields /\ g.kind = e.kind /\ g.name = e.name
BY DEF XtFields

\* Two fields are replaced one after the other, and a part within its field.
LEMMA ExceptTwice ==
    ASSUME NEW x, NEW d, NEW v
    PROVE  [x EXCEPT !.decoded = d, !.arg = v] = [[x EXCEPT !.decoded = d] EXCEPT !.arg = v]
OBVIOUS

LEMMA ExceptWithin ==
    ASSUME NEW x, NEW v, NEW w, "arg" \in DOMAIN x
    PROVE  [x EXCEPT !.arg.invertDst = v, !.arg.invertSrc = w]
               = [x EXCEPT !.arg = [x.arg EXCEPT !.invertDst = v, !.invertSrc = w]]
OBVIOUS

LEMMA XtHasFields ==
    ASSUME NEW e, Sound(e), e.k = "xt"
    PROVE  DOMAIN e = XtFields
BY DEF Sound, Shaped, Missing, Objects

\* A rule whose expressions are sound, one of which acts if the rule does.
GoodRule(r, acts) ==
    /\ r \in Seq(Range(r))
    /\ \A i \in DOMAIN r : Sound(r[i])
    /\ acts => \E i \in DOMAIN r : Acting(r[i])

LEMMA ChangedRule ==
    ASSUME NEW acts, NEW r, GoodRule(r, acts),
           NEW t, t = [i \in DOMAIN r |-> t[i]],
           \A i \in DOMAIN r : Sound(t[i]) /\ (Acting(r[i]) => Acting(t[i]))
    PROVE  GoodRule(t, acts)
<1>1. DOMAIN r = 1 .. Len(r) /\ Len(r) \in Nat
  BY DEF GoodRule
<1>2. DOMAIN t = DOMAIN r
  OBVIOUS
<1>3. t \in Seq(Range(t))
  <2>1. \A i \in 1 .. Len(r) : t[i] \in Range(t)
    BY <1>1, <1>2 DEF Range
  <2>2. t = [i \in 1 .. Len(r) |-> t[i]]
    BY <1>1
  <2> QED
    BY <1>1, <2>1, <2>2
<1> QED
  BY <1>2, <1>3 DEF GoodRule

LEMMA CollectedIsGood ==
    ASSUME NEW x \in Inputs, NEW dumped \in BOOLEAN
    PROVE  GoodRule(CollectRule(CompileRule(x.stmts, x.does), dumped), Acts(x.does))
<1> DEFINE K == CompileRule(x.stmts, x.does)
           acts == Acts(x.does)
           T == {e \in Range(K) : e.k \notin Dropped}
           got == Sublist(K, T)
           conv == ConvertExprs(K)
<1>1. AllWhole(K) /\ (acts => \E e \in Range(K) : Kept(e))
  BY KernelIsWhole
<1>2. conv = [i \in DOMAIN got |-> ConvertExpr(got[i])]
  BY DEF ConvertExprs, Received
<1> HIDE DEF K, acts, conv
<1>3. got \in Seq(Range(K)) /\ Range(got) = T
  <2>1. K \in Seq(Range(K))
    BY <1>1 DEF AllWhole
  <2>2. got \in Seq(Range(K)) /\ ToSet(got) = ToSet(K) \intersect T
    BY <2>1, SublistSelects
  <2> QED
    BY <2>2, RangeIsToSet
<1>4. \A e \in Range(K) : Whole(e)
  BY <1>1 DEF AllWhole, Range
<1> HIDE DEF got
<1>5. GoodRule(conv, acts)
  <2>1. DOMAIN got = 1 .. Len(got) /\ Len(got) \in Nat /\ DOMAIN conv = DOMAIN got
    BY <1>2, <1>3
  <2>2. conv \in Seq(Range(conv))
    <3>1. \A i \in 1 .. Len(got) : conv[i] \in Range(conv)
      BY <2>1 DEF Range
    <3>2. conv = [i \in 1 .. Len(got) |-> conv[i]]
      BY <1>2, <2>1
    <3> QED
      BY <2>1, <3>1, <3>2
  <2>3. \A i \in DOMAIN conv : Sound(conv[i])
    BY <1>2, <1>3, <1>4, ConvertIsSound
  <2>4. ASSUME acts
        PROVE  \E i \in DOMAIN conv : Acting(conv[i])
    <3>1. PICK e \in Range(K) : Kept(e)
      BY <1>1, <2>4
    <3>2. e \in Range(got)
      BY <1>3, <3>1 DEF Kept
    <3>3. PICK i \in DOMAIN got : got[i] = e
      BY <3>2 DEF Range
    <3> QED
      BY <1>2, <2>1, <3>1, <3>3 DEF Kept
  <2> QED
    BY <2>2, <2>3, <2>4 DEF GoodRule
<1>6. ASSUME NEW payloads
      PROVE  GoodRule(AttachXtPayloads(conv, payloads), acts)
  <2> DEFINE t == AttachXtPayloads(conv, payloads)
             joins(i) == conv[i].k = "xt" /\ Reached(conv, payloads, i) /\ conv[i].raw = NoPayload
             bytes(i) == payloads[Place(conv, i)].info
  <2>1. t = [i \in DOMAIN conv |-> IF joins(i) THEN [conv[i] EXCEPT !.raw = bytes(i)] ELSE conv[i]]
    BY DEF AttachXtPayloads
  <2>2. \A i : joins(i) => conv[i].k = "xt"
    OBVIOUS
  <2> HIDE DEF t, joins, bytes
  <2>3. ASSUME NEW i \in DOMAIN conv
        PROVE  Sound(t[i]) /\ (Acting(conv[i]) => Acting(t[i]))
    <3>1. Sound(conv[i])
      BY <1>5 DEF GoodRule
    <3>2. CASE joins(i)
      <4> DEFINE e == conv[i]  g == [e EXCEPT !.raw = bytes(i)]
      <4>1. t[i] = g
        BY <2>1, <3>2
      <4>2. e.k = "xt" /\ DOMAIN e = XtFields
        BY <2>2, <3>1, <3>2, XtHasFields
      <4> HIDE DEF e
      <4>3. g.k = "xt" /\ DOMAIN g = XtFields /\ g.kind = e.kind /\ g.name = e.name
        BY <4>2, RawExcept
      <4> HIDE DEF g
      <4>4. Sound(g) /\ (Acting(e) => Acting(g))
        BY <4>2, <4>3, XtChanged
      <4> QED
        BY <4>1, <4>4 DEF e
    <3>3. CASE ~joins(i)
      BY <2>1, <3>1, <3>3
    <3> QED
      BY <3>2, <3>3
  <2>4. t = [i \in DOMAIN conv |-> t[i]]
    BY <2>1
  <2>5. GoodRule(t, acts)
    BY <1>5, <2>3, <2>4, ChangedRule
  <2> QED
    BY <2>5 DEF t
<1> QED
  BY <1>5, <1>6 DEF CollectRule, K, conv, acts

(***************************************************************************)
(* The document                                                            *)
(***************************************************************************)
\* What a build can have recorded of an expression: h stands for e.
RecordedAs(h, e) ==
    \/ h = e
    \/ e = Unknown /\ h = Bare("later")
    \/ /\ e.k = "xt" /\ e.raw # NoPayload
       /\ \/ h = [e EXCEPT !.decoded = FALSE, !.arg = [none |-> 0]]
          \/ h = [e EXCEPT !.arg.invertDst = FALSE, !.arg.invertSrc = FALSE]
          \/ h = [e EXCEPT !.raw = Garbled]

LEMMA WaysToRecord ==
    ASSUME NEW e, NEW how \in {"this build", "undecoded", "misread", "garbled", "later build"}
    PROVE  RecordedAs(Recorded(e, how), e)
<1> DEFINE h == Recorded(e, how)
<1>1. CASE how = "later build"
  <2>1. h = IF e = Unknown THEN Bare("later") ELSE e
    BY <1>1 DEF Recorded
  <2> QED
    BY <2>1 DEF RecordedAs
<1>2. CASE how # "later build" /\ (e.k # "xt" \/ e.raw = NoPayload \/ how = "this build")
  <2>1. h = e
    BY <1>2 DEF Recorded
  <2> QED
    BY <2>1 DEF RecordedAs
<1>3. CASE e.k = "xt" /\ e.raw # NoPayload /\ how = "undecoded"
  <2>1. h = [e EXCEPT !.decoded = FALSE, !.arg = [none |-> 0]]
    BY <1>3 DEF Recorded
  <2> QED
    BY <1>3, <2>1 DEF RecordedAs
<1>4. CASE e.k = "xt" /\ e.raw # NoPayload /\ how = "misread"
  <2>1. h = e \/ h = [e EXCEPT !.arg.invertDst = FALSE, !.arg.invertSrc = FALSE]
    BY <1>4 DEF Recorded
  <2> QED
    BY <1>4, <2>1 DEF RecordedAs
<1>5. CASE e.k = "xt" /\ e.raw # NoPayload /\ how = "garbled"
  <2>1. h = [e EXCEPT !.raw = Garbled]
    BY <1>5 DEF Recorded, Garbled
  <2> QED
    BY <1>5, <2>1 DEF RecordedAs
<1> QED
  BY <1>1, <1>2, <1>3, <1>4, <1>5

\* No build makes an expression that acts harmless by what it records.
LEMMA RecordedKeeps ==
    ASSUME NEW e, Sound(e), NEW g, RecordedAs(g, e)
    PROVE  Sound(g) /\ (Acting(e) => Acting(g))
<1>1. CASE e = Unknown /\ g = Bare("later")
  <2>1. Sound(Bare("later")) /\ Acting(Bare("later"))
    BY DEF Bare, Sound, Shaped, Missing, IsBare, Objects, Acting
  <2> QED
    BY <1>1, <2>1
<1>2. ASSUME e.k = "xt", NEW h, h.k = "xt", DOMAIN h = XtFields, h.kind = e.kind, h.name = e.name
      PROVE  Sound(h) /\ (Acting(e) => Acting(h))
  BY <1>2, XtHasFields, XtChanged
<1>3. ASSUME e.k = "xt"
      PROVE  DOMAIN e = XtFields
  BY <1>3, XtHasFields
<1>4. CASE e.k = "xt" /\ g = [e EXCEPT !.decoded = FALSE, !.arg = [none |-> 0]]
  <2> DEFINE no == FALSE  d == [e EXCEPT !.decoded = no]  a == [none |-> 0]  h == [d EXCEPT !.arg = a]
  <2>1. g = [e EXCEPT !.decoded = no, !.arg = a]
    BY <1>4
  <2> HIDE DEF no, a
  <2>2. g = h
    BY <2>1, ExceptTwice
  <2>3. d.k = "xt" /\ DOMAIN d = XtFields /\ d.kind = e.kind /\ d.name = e.name
    BY <1>3, <1>4, DecodedExcept
  <2> HIDE DEF d
  <2>4. h.k = "xt" /\ DOMAIN h = XtFields /\ h.kind = d.kind /\ h.name = d.name
    BY <2>3, ArgExcept
  <2> HIDE DEF h
  <2> QED
    BY <1>2, <1>4, <2>2, <2>3, <2>4
<1>5. CASE e.k = "xt" /\ g = [e EXCEPT !.arg.invertDst = FALSE, !.arg.invertSrc = FALSE]
  <2> DEFINE no == FALSE  a == [e.arg EXCEPT !.invertDst = no, !.invertSrc = no]
             h == [e EXCEPT !.arg = a]
  <2>1. g = [e EXCEPT !.arg.invertDst = no, !.arg.invertSrc = no]
    BY <1>5
  <2> HIDE DEF no
  <2>2. "arg" \in DOMAIN e
    BY <1>3, <1>5 DEF XtFields
  <2>3. g = h
    BY <2>1, <2>2, ExceptWithin
  <2> HIDE DEF a
  <2>4. h.k = "xt" /\ DOMAIN h = XtFields /\ h.kind = e.kind /\ h.name = e.name
    BY <1>3, <1>5, ArgExcept
  <2> HIDE DEF h
  <2> QED
    BY <1>2, <1>5, <2>3, <2>4
<1>6. CASE e.k = "xt" /\ g = [e EXCEPT !.raw = Garbled]
  <2> DEFINE h == [e EXCEPT !.raw = Garbled]
  <2>1. h.k = "xt" /\ DOMAIN h = XtFields /\ h.kind = e.kind /\ h.name = e.name
    BY <1>3, <1>6, RawExcept
  <2>2. g = h
    BY <1>6
  <2> HIDE DEF h
  <2> QED
    BY <1>2, <1>6, <2>1, <2>2
<1>7. g = e => Sound(g) /\ (Acting(e) => Acting(g))
  OBVIOUS
<1> QED
  BY <1>1, <1>4, <1>5, <1>6, <1>7 DEF RecordedAs

LEMMA RedecodeKeeps ==
    ASSUME NEW e, Sound(e)
    PROVE  Sound(RedecodeXt(e)) /\ (Acting(e) => Acting(RedecodeXt(e)))
<1>1. CASE e.k = "xt" /\ Legible(e.raw)
  <2> DEFINE d == ConvertXt(e.kind, e.name, e.rev, e.raw)  h == [d EXCEPT !.raw = e.raw]
  <2>1. RedecodeXt(e) = h
    BY <1>1 DEF RedecodeXt
  <2>2. d.k = "xt" /\ DOMAIN d = XtFields /\ d.kind = e.kind /\ d.name = e.name
    BY ConvertedXt
  <2> HIDE DEF d
  <2>3. h.k = "xt" /\ DOMAIN h = XtFields /\ h.kind = e.kind /\ h.name = e.name
    BY <2>2, RawExcept
  <2>4. DOMAIN e = XtFields
    BY <1>1, XtHasFields
  <2> HIDE DEF h
  <2> QED
    BY <1>1, <2>1, <2>3, <2>4, XtChanged
<1>2. CASE ~(e.k = "xt" /\ Legible(e.raw))
  BY <1>2 DEF RedecodeXt
<1> QED
  BY <1>1, <1>2

LEMMA StoredIsGood ==
    ASSUME NEW r, NEW acts, GoodRule(r, acts),
           NEW how \in {"this build", "undecoded", "misread", "garbled", "later build"}
    PROVE  GoodRule([i \in DOMAIN r |-> Recorded(r[i], how)], acts)
<1> DEFINE t == [i \in DOMAIN r |-> Recorded(r[i], how)]
<1>1. \A i \in DOMAIN r : Sound(r[i])
  BY DEF GoodRule
<1>2. \A i \in DOMAIN r : Sound(t[i]) /\ (Acting(r[i]) => Acting(t[i]))
  BY <1>1, WaysToRecord, RecordedKeeps
<1>3. t = [i \in DOMAIN r |-> t[i]]
  OBVIOUS
<1> HIDE DEF t
<1>4. GoodRule(t, acts)
  BY <1>2, <1>3, ChangedRule
<1> QED
  BY <1>4 DEF t

LEMMA RereadIsGood ==
    ASSUME NEW r, NEW acts, GoodRule(r, acts)
    PROVE  GoodRule(Redecode(r), acts)
<1> DEFINE t == Redecode(r)
<1>1. \A i \in DOMAIN r : Sound(r[i])
  BY DEF GoodRule
<1>2. \A i \in DOMAIN r : Sound(t[i]) /\ (Acting(r[i]) => Acting(t[i]))
  BY <1>1, RedecodeKeeps DEF Redecode
<1>3. t = [i \in DOMAIN r |-> t[i]]
  BY DEF Redecode
<1> HIDE DEF t
<1>4. GoodRule(t, acts)
  BY <1>2, <1>3, ChangedRule
<1> QED
  BY <1>4 DEF t

\* Damage that validation lets pass is to an expression that says no more
\* than its kind.
LEMMA DamagedIsGood ==
    ASSUME NEW r, NEW acts, GoodRule(r, acts), NEW i \in DOMAIN r,
           Validate([r EXCEPT ![i] = Bare(@.k)])
    PROVE  GoodRule([r EXCEPT ![i] = Bare(@.k)], acts)
<1> DEFINE b == Bare(r[i].k)  t == [r EXCEPT ![i] = b]
<1>1. b.k = r[i].k /\ IsBare(b)
  BY DEF Bare, IsBare
<1> HIDE DEF b
<1>2. DOMAIN t = DOMAIN r /\ t[i] = b /\ \A j \in DOMAIN r \ {i} : t[j] = r[j]
  OBVIOUS
<1>3. ~Missing(b)
  <2>1. Validate(t)
    BY DEF b
  <2> HIDE DEF t
  <2> QED
    BY <1>2, <2>1 DEF Validate
<1>4. b.k \notin Objects
  BY <1>1, <1>3 DEF Missing
<1>5. Sound(b) /\ (Acting(r[i]) => Acting(b))
  BY <1>1, <1>3, <1>4 DEF Sound, Shaped, Acting, Objects
<1>6. \A j \in DOMAIN r : Sound(t[j]) /\ (Acting(r[j]) => Acting(t[j]))
  BY <1>2, <1>5 DEF GoodRule
<1>7. t = [j \in DOMAIN r |-> t[j]]
  OBVIOUS
<1> HIDE DEF t
<1>8. GoodRule(t, acts)
  BY <1>6, <1>7, ChangedRule
<1> QED
  BY <1>8 DEF t, b

(***************************************************************************)
(* The matcher                                                             *)
(***************************************************************************)
Outcomes == {"", "NoMatch", "Skipped", "Unknown"}

LEMMA ExecEnds ==
    ASSUME NEW mm, mm.out = "", DOMAIN mm = {"regs", "act", "out"},
           NEW pkt, NEW r, NEW sets, NEW i
    PROVE  LET n == Exec(pkt, r, sets, i, mm)
           IN  /\ DOMAIN n = {"regs", "act", "out"}
               /\ n.out \in Outcomes
               /\ n.out = "Skipped" => r[i].k = "xt" /\ SkippableUnresolvedMatch(pkt, r, i)
<1> DEFINE Fine(n) == DOMAIN n = {"regs", "act", "out"} /\ n.out \in Outcomes \ {"Skipped"}
           n == Exec(pkt, r, sets, i, mm)
           e == r[i]
<1>1. Fine(mm)
  BY DEF Outcomes
<1>2. \A o \in Outcomes \ {"Skipped"} : Fine(Ends(mm, o))
  BY DEF Ends
<1>3. Fine(Ends(mm, "Unknown")) /\ Fine(Ends(mm, "NoMatch"))
  BY <1>2 DEF Outcomes
<1>4. \A rr, v : Fine(Loads(mm, rr, v))
  BY DEF Loads, Outcomes
<1>5. \A rr, v : Fine(LoadsKnown(mm, rr, v))
  BY <1>3, <1>4 DEF LoadsKnown
<1>6. \A h : Fine(Requires(mm, h))
  BY <1>1, <1>3 DEF Requires
<1>7. \A a : Fine([mm EXCEPT !.act = a])
  BY DEF Outcomes
<1> HIDE DEF Fine, e
<1>8. CASE e.k = "xt"
  <2>1. n = ExecXt(pkt, r, i, mm)
    BY <1>8 DEF Exec, e
  <2>2. \/ Fine(n)
        \/ n = Ends(mm, "Skipped") /\ SkippableUnresolvedMatch(pkt, r, i)
    <3>1. CASE ~XtExpr(pkt, r[i]).ok
      BY <1>3, <2>1, <3>1 DEF ExecXt
    <3>2. CASE XtExpr(pkt, r[i]).ok
      BY <1>1, <1>3, <1>7, <2>1, <3>2 DEF ExecXt
    <3> QED
      BY <3>1, <3>2
  <2>3. DOMAIN Ends(mm, "Skipped") = {"regs", "act", "out"} /\ Ends(mm, "Skipped").out = "Skipped"
    BY DEF Ends
  <2> QED
    BY <1>8, <2>2, <2>3 DEF Fine, Outcomes, e
<1>9. CASE e.k # "xt"
  <2>1. Fine(ExecMeta(pkt, e, mm))
    BY <1>3, <1>5 DEF ExecMeta
  <2>2. Fine(ExecBitwise(e, mm))
    BY <1>3, <1>4 DEF ExecBitwise
  <2>3. Fine(ExecCmp(e, mm))
    BY <1>3, <1>6 DEF ExecCmp
  <2>4. Fine(ExecRange(e, mm))
    BY <1>3, <1>6 DEF ExecRange
  <2>5. Fine(ExecLookup(e, sets, mm))
    BY <1>1, <1>3 DEF ExecLookup
  <2>6. Fine(ExecNAT(pkt, e, mm))
    BY <1>3, <1>7 DEF ExecNAT
  <2>7. Fine(n)
    <3>1. CASE e.k \in {"payload", "meta", "ct", "fib", "immediate"}
      BY <1>3, <1>4, <1>5, <2>1, <3>1 DEF Exec, e
    <3>2. CASE e.k \in {"bitwise", "cmp", "range", "lookup"}
      BY <2>2, <2>3, <2>4, <2>5, <3>2 DEF Exec, e
    <3>3. CASE e.k \in {"nat", "verdict", "other"}
      BY <1>1, <1>7, <2>6, <3>3 DEF Exec, e
    <3>4. CASE e.k \notin {"payload", "meta", "ct", "fib", "immediate", "bitwise", "cmp", "range",
                           "lookup", "nat", "verdict", "other"}
      BY <1>3, <1>9, <3>4 DEF Exec, e
    <3> QED
      BY <3>1, <3>2, <3>3, <3>4
  <2> QED
    BY <2>7 DEF Fine
<1> QED
  BY <1>8, <1>9

\* A target does something, unless it logs.
LEMMA TargetsAct ==
    \A e : XtTarget(e).ok /\ e.name # "LOG" => XtTarget(e).act.kind # "none"
BY DEF XtTarget, XtDoes, XtMatches, XtUnresolved, Act, Nothing

LEMMA SkippedIsHarmless ==
    ASSUME NEW r, NEW acts, GoodRule(r, acts), NEW i \in DOMAIN r, NEW pkt,
           r[i].k = "xt", SkippableUnresolvedMatch(pkt, r, i)
    PROVE  ~acts
<1> SUFFICES ASSUME acts PROVE FALSE
  OBVIOUS
<1>1. PICK j \in DOMAIN r : Acting(r[j])
  BY DEF GoodRule
<1>2. r[i].kind = "match"
  BY DEF SkippableUnresolvedMatch
<1>3. j # i
  BY <1>1, <1>2 DEF Acting
<1>4. \/ r[j].k \in {"payload", "cmp", "meta", "bitwise", "other"}
      \/ r[j].k = "xt" /\ XtExpr(pkt, r[j]).ok /\ XtExpr(pkt, r[j]).act.kind = "none"
  BY <1>3 DEF SkippableUnresolvedMatch
<1>5. r[j].k = "xt" /\ r[j].kind = "target" /\ r[j].name # "LOG"
  BY <1>1, <1>4 DEF Acting
<1>6. XtTarget(r[j]).ok /\ XtTarget(r[j]).act.kind = "none"
  BY <1>4, <1>5 DEF XtExpr
<1> QED
  BY <1>5, <1>6, TargetsAct

(***************************************************************************)
(* The path                                                                *)
(***************************************************************************)
GoodNow == GoodRule(rule, Acts(input.does))

PathInv ==
    /\ input \in Inputs
    /\ doc \in {"live", "stored", "read", "refused"}
    /\ doc \in {"live", "read"} => GoodNow
    /\ doc = "stored" /\ Validate(rule) => GoodNow
    /\ doc \in {"stored", "refused"} => m = Start
    /\ pc \in Nat /\ pc >= 1
    /\ DOMAIN m = {"regs", "act", "out"}
    /\ m.out \in Outcomes \union {"Match"}
    /\ m.out = "Skipped" => ~Acts(input.does)

LEMMA PathInvInit == Init => PathInv
<1> SUFFICES ASSUME Init PROVE PathInv
  OBVIOUS
<1>1. PICK dumped \in BOOLEAN : rule = CollectRule(Kernel, dumped)
  BY DEF Init
<1>2. input \in Inputs
  BY DEF Init
<1>3. GoodNow
  BY <1>1, <1>2, CollectedIsGood DEF GoodNow, Kernel
<1>4. m = Start /\ pc = 1 /\ doc = "live"
  BY DEF Init
<1>5. m.out = "" /\ DOMAIN m = {"regs", "act", "out"}
  BY <1>4 DEF Start
<1>6. pc \in Nat /\ pc >= 1 /\ doc = "live"
  BY <1>4
<1> QED
  BY <1>2, <1>3, <1>5, <1>6 DEF PathInv, Outcomes

LEMMA GoodHasAll ==
    ASSUME NEW r, NEW acts, GoodRule(r, acts)
    PROVE  /\ Validate(r)
           /\ DOMAIN r = 1 .. Len(r) /\ Len(r) \in Nat
BY DEF GoodRule, Sound, Validate

LEMMA ExecutesKeeps ==
    ASSUME PathInv, NEW kinds, Executes(kinds)
    PROVE  PathInv'
<1>1. GoodNow /\ doc \in {"live", "read"} /\ m.out = "" /\ pc <= Len(rule)
  BY DEF Executes, Evaluating, PathInv
<1>2. UNCHANGED <<input, doc, rule>> /\ pc' = pc + 1
  BY DEF Executes
<1>3. pc \in DOMAIN rule
  <2>1. DOMAIN rule = 1 .. Len(rule) /\ Len(rule) \in Nat
    BY <1>1, GoodHasAll DEF GoodNow
  <2>2. pc \in Nat /\ pc >= 1
    BY DEF PathInv
  <2>3. pc <= Len(rule)
    BY <1>1
  <2>4. pc \in 1 .. Len(rule)
    BY <2>1, <2>2, <2>3
  <2> QED
    BY <2>1, <2>4
<1>4. m' = Exec(input.pkt, rule, Sets, pc, m)
  BY <1>1, <1>3, GoodHasAll DEF Executes, GoodNow, Validate
<1>5. /\ DOMAIN m' = {"regs", "act", "out"}
      /\ m'.out \in Outcomes
      /\ m'.out = "Skipped" =>
             rule[pc].k = "xt" /\ SkippableUnresolvedMatch(input.pkt, rule, pc)
  <2> DEFINE n == Exec(input.pkt, rule, Sets, pc, m)
  <2>1. m.out = "" /\ DOMAIN m = {"regs", "act", "out"}
    BY <1>1 DEF PathInv
  <2>2. /\ DOMAIN n = {"regs", "act", "out"}
        /\ n.out \in Outcomes
        /\ n.out = "Skipped" => rule[pc].k = "xt" /\ SkippableUnresolvedMatch(input.pkt, rule, pc)
    BY <2>1, ExecEnds
  <2> HIDE DEF n
  <2> QED
    BY <1>4, <2>2 DEF n
<1>6. m'.out = "Skipped" => ~Acts(input.does)
  BY <1>1, <1>3, <1>5, SkippedIsHarmless DEF GoodNow
<1>7. GoodNow' /\ pc' \in Nat /\ pc' >= 1 /\ doc' \in {"live", "read"} /\ input' \in Inputs
  <2>1. pc \in Nat /\ pc >= 1 /\ input \in Inputs
    BY DEF PathInv
  <2>2. pc' \in Nat /\ pc' >= 1
    BY <1>2, <2>1
  <2>3. GoodNow'
    BY <1>1, <1>2 DEF GoodNow
  <2>4. doc' \in {"live", "read"} /\ input' \in Inputs
    BY <1>1, <1>2, <2>1
  <2> QED
    BY <2>2, <2>3, <2>4
<1>8. m'.out = "Skipped" => ~Acts(input'.does)
  BY <1>2, <1>6
<1> QED
  BY <1>5, <1>7, <1>8 DEF PathInv

LEMMA PathInvNext == PathInv /\ [Next]_vars => PathInv'
<1> SUFFICES ASSUME PathInv, [Next]_vars
             PROVE  PathInv'
  OBVIOUS
<1>0. Start.out = "" /\ DOMAIN Start = {"regs", "act", "out"}
  BY DEF Start
<1>1. ASSUME NEW version, Stores(version), rule' = rule \/ (Validate(rule') => GoodNow')
      PROVE  PathInv'
  <2>1. doc = "live" /\ doc' = "stored" /\ UNCHANGED <<input, pc, m>> /\ m = Start
    BY <1>1 DEF Stores
  <2>2. GoodNow
    BY <2>1 DEF PathInv
  <2>3. Validate(rule') => GoodNow'
    BY <1>1, <2>1, <2>2 DEF GoodNow
  <2> QED
    BY <1>0, <2>1, <2>3 DEF PathInv, Outcomes
<1>2. CASE Store
  <2>1. PICK how \in {"this build", "undecoded", "misread", "garbled", "later build"} :
            /\ Stores(SchemaVersion)
            /\ rule' = [i \in DOMAIN rule |-> Recorded(rule[i], how)]
    BY <1>2 DEF Store
  <2>2. GoodNow /\ UNCHANGED input
    BY <2>1 DEF Stores, PathInv
  <2>3. GoodRule(rule', Acts(input.does))
    BY <2>1, <2>2, StoredIsGood DEF GoodNow
  <2> QED
    BY <1>1, <2>1, <2>2, <2>3 DEF GoodNow
<1>3. CASE Damage
  <2>1. PICK i \in DOMAIN rule :
            /\ Stores(SchemaVersion)
            /\ rule' = [rule EXCEPT ![i] = Bare(@.k)]
    BY <1>3 DEF Damage
  <2>2. GoodNow /\ UNCHANGED input
    BY <2>1 DEF Stores, PathInv
  <2>3. Validate(rule') => GoodRule(rule', Acts(input.does))
    BY <2>1, <2>2, DamagedIsGood DEF GoodNow
  <2> QED
    BY <1>1, <2>1, <2>2, <2>3 DEF GoodNow
<1>4. CASE WriteOtherVersion
  BY <1>1, <1>4 DEF WriteOtherVersion
<1>5. CASE ReadBack
  <2>1. /\ doc = "stored" /\ Validate(rule) /\ doc' = "read" /\ rule' = Redecode(rule)
        /\ UNCHANGED <<input, pc, m>>
    BY <1>5 DEF ReadBack
  <2>2. GoodNow
    BY <2>1 DEF PathInv
  <2>3. GoodNow'
    BY <2>1, <2>2, RereadIsGood DEF GoodNow
  <2> QED
    BY <2>1, <2>3 DEF PathInv
<1>6. CASE Refuse
  BY <1>6 DEF Refuse, PathInv, GoodNow
<1>7. CASE Load \/ Mask \/ Compare \/ LookUp \/ Extend \/ DoIt \/ PassOver \/ GiveUp
  BY <1>7, ExecutesKeeps DEF Load, Mask, Compare, LookUp, Extend, DoIt, PassOver, GiveUp
<1>8. CASE RunOut
  <2>1. /\ doc \in {"live", "read"} /\ m' = Ends(m, "Match")
        /\ UNCHANGED <<input, doc, rule, pc>>
    BY <1>8 DEF RunOut, Evaluating
  <2>2. DOMAIN m' = {"regs", "act", "out"} /\ m'.out = "Match"
    BY <2>1 DEF Ends, PathInv
  <2> QED
    BY <2>1, <2>2 DEF PathInv, GoodNow
<1>9. CASE Decided \/ UNCHANGED vars
  BY <1>9 DEF Decided, vars, PathInv, GoodNow
<1> QED
  BY <1>2, <1>3, <1>4, <1>5, <1>6, <1>7, <1>8, <1>9 DEF Next

\* What is true of a rule on every path, whatever was done to its document.
THEOREM PathInvariance == Spec => []PathInv
<1>1. Init => PathInv
  BY PathInvInit
<1>2. PathInv /\ [Next]_vars => PathInv'
  BY PathInvNext
<1> QED
  BY <1>1, <1>2, PTL DEF Spec

\* A document that was accepted is evaluated to the end and can be explained:
\* no editor and no later build can leave in it an expression whose object the
\* matcher or the renderer would miss.
THEOREM AcceptedIsComplete == Spec => []NeverPanics
<1>1. PathInv => NeverPanics
  <2> SUFFICES ASSUME PathInv PROVE NeverPanics
    OBVIOUS
  <2>1. m.out # "Panic"
    BY DEF PathInv, Outcomes
  <2>2. ASSUME m.out \in {"Match", "Skipped", "Unknown"}
        PROVE  \A i \in DOMAIN rule : ~Missing(rule[i])
    <3>1. m # Start
      <4>1. Start.out = ""
        BY DEF Start
      <4> QED
        BY <2>2, <4>1
    <3>2. GoodNow
      BY <3>1 DEF PathInv
    <3> QED
      BY <3>2, GoodHasAll DEF GoodNow, Validate
  <2> QED
    BY <2>1, <2>2 DEF NeverPanics
<1> QED
  BY <1>1, PathInvariance, PTL

\* A rule skipped over an unresolved match would have done nothing, however
\* the match had come out, and whatever became of its document on the way.
THEOREM SkippedDoesNothing == Spec => []SkippingIsHarmless
<1>1. PathInv => SkippingIsHarmless
  BY DEF PathInv, SkippingIsHarmless
<1> QED
  BY <1>1, PathInvariance, PTL

(***************************************************************************)
(* The payloads and what is read in them                                   *)
(***************************************************************************)
LEMMA XtHas ==
    ASSUME NEW kind, NEW name, NEW rev, NEW decoded, NEW arg, NEW raw
    PROVE  LET x == Xt(kind, name, rev, decoded, arg, raw)
           IN  /\ x.k = "xt" /\ x.kind = kind /\ x.name = name /\ x.rev = rev
               /\ x.arg = arg /\ x.raw = raw
BY DEF Xt

LEMMA XtHasArg ==
    ASSUME NEW kind, NEW name, NEW rev, NEW decoded, NEW arg, NEW raw
    PROVE  "arg" \in DOMAIN Xt(kind, name, rev, decoded, arg, raw)
BY DEF Xt

LEMMA XtRaw ==
    ASSUME NEW kind, NEW name, NEW rev, NEW decoded, NEW arg, NEW raw, NEW v
    PROVE  [Xt(kind, name, rev, decoded, arg, raw) EXCEPT !.raw = v]
               = Xt(kind, name, rev, decoded, arg, v)
BY DEF Xt

LEMMA XtArg ==
    ASSUME NEW kind, NEW name, NEW rev, NEW decoded, NEW arg, NEW raw, NEW v
    PROVE  [Xt(kind, name, rev, decoded, arg, raw) EXCEPT !.arg = v]
               = Xt(kind, name, rev, decoded, v, raw)
BY DEF Xt

LEMMA XtDecoded ==
    ASSUME NEW kind, NEW name, NEW rev, NEW decoded, NEW arg, NEW raw, NEW v
    PROVE  [Xt(kind, name, rev, decoded, arg, raw) EXCEPT !.decoded = v]
               = Xt(kind, name, rev, v, arg, raw)
BY DEF Xt

LEMMA ConvertedIsXt ==
    ASSUME NEW kind, NEW name, NEW rev, NEW info
    PROVE  ConvertXt(kind, name, rev, info)
               = Xt(kind, name, rev, DecodeInfo(name, rev, info).decoded,
                    DecodeInfo(name, rev, info).arg,
                    IF info.type = "bytes" THEN info ELSE NoPayload)
BY DEF ConvertXt, Xt

LEMMA ConvertsAsCollected ==
    ASSUME NEW g
    PROVE  /\ AsCollected(ConvertExpr(g), g)
           /\ IsXt(g) => ConvertExpr(g).k = "xt" /\ ConvertExpr(g).name = g.name
<1>1. CASE IsXt(g)
  <2> DEFINE raw == IF g.info.type = "bytes" THEN g.info ELSE NoPayload
  <2>1. ConvertExpr(g) = ConvertXt(g.k, g.name, g.rev, g.info)
    BY <1>1 DEF IsXt, ConvertExpr
  <2>2. ConvertExpr(g) = Ext(g, raw)
    BY <2>1, ConvertedIsXt DEF Ext, ReadOf
  <2>3. raw \in {NoPayload, g.info}
    OBVIOUS
  <2> HIDE DEF raw
  <2>4. Ext(g, raw).k = "xt" /\ Ext(g, raw).name = g.name
    BY XtHas DEF Ext
  <2>5. Ext(g, raw) \in {Ext(g, NoPayload), Ext(g, g.info)}
    BY <2>3
  <2> QED
    BY <1>1, <2>2, <2>4, <2>5 DEF AsCollected
<1>2. CASE ~IsXt(g)
  BY <1>2 DEF AsCollected
<1> QED
  BY <1>1, <1>2

\* The other expressions keep their object, or nothing but their kind.
LEMMA OthersConverted ==
    ASSUME NEW g, Whole(g), ~IsXt(g)
    PROVE  ConvertExpr(g).k \in Objects \ {"xt"} \/ ConvertExpr(g) \in {Other, Unknown}
<1>1. CASE g.k = "payload"
  <2> DEFINE v == Named(PayloadBases, g.base)
  <2>1. ConvertExpr(g) = [g EXCEPT !.base = v]
    BY <1>1 DEF ConvertExpr
  <2> HIDE DEF v
  <2>2. [g EXCEPT !.base = v].k = g.k
    BY DEF Whole
  <2> QED
    BY <1>1, <2>1, <2>2 DEF Objects
<1>2. CASE g.k \in {"cmp", "range"}
  <2> DEFINE v == Named(CmpOps, g.op)
  <2>1. ConvertExpr(g) = [g EXCEPT !.op = v]
    BY <1>2 DEF ConvertExpr
  <2> HIDE DEF v
  <2>2. [g EXCEPT !.op = v].k = g.k
    BY DEF Whole
  <2> QED
    BY <1>2, <2>1, <2>2 DEF Objects
<1>3. CASE g.k = "meta"
  <2> DEFINE v == Named(MetaKeys, g.key)
  <2>1. ConvertExpr(g) = [g EXCEPT !.key = v]
    BY <1>3 DEF ConvertExpr
  <2> HIDE DEF v
  <2>2. [g EXCEPT !.key = v].k = g.k
    BY DEF Whole
  <2> QED
    BY <1>3, <2>1, <2>2 DEF Objects
<1>4. CASE g.k = "verdict"
  <2> DEFINE v == Named(VerdictKinds, g.kind)
  <2>1. ConvertExpr(g) = [g EXCEPT !.kind = v]
    BY <1>4 DEF ConvertExpr
  <2> HIDE DEF v
  <2>2. [g EXCEPT !.kind = v].k = g.k
    BY DEF Whole
  <2> QED
    BY <1>4, <2>1, <2>2 DEF Objects
<1>5. CASE g.k \in {"bitwise", "immediate", "lookup"}
  BY <1>5 DEF ConvertExpr, Objects
<1>6. CASE g.k = "ct"
  <2>1. ConvertExpr(g) = ConvertCt(g)
    BY <1>6 DEF ConvertExpr
  <2>2. ConvertCt(g) = Unknown \/ ConvertCt(g).k = "ct"
    BY DEF ConvertCt
  <2>3. "ct" \in Objects \ {"xt"}
    BY DEF Objects
  <2> QED
    BY <2>1, <2>2, <2>3
<1>7. CASE g.k = "nat"
  <2>1. ConvertExpr(g) = g \/ ConvertExpr(g) = Unknown
    BY <1>7 DEF ConvertExpr, ConvertNAT
  <2> QED
    BY <1>7, <2>1 DEF Objects
<1>8. CASE g.k = "fib"
  <2>1. ConvertExpr(g) = ConvertFib(g)
    BY <1>8 DEF ConvertExpr
  <2>2. ConvertFib(g) = Unknown \/ ConvertFib(g).k = "fib"
    BY DEF ConvertFib
  <2>3. "fib" \in Objects \ {"xt"}
    BY DEF Objects
  <2> QED
    BY <2>1, <2>2, <2>3
<1>9. CASE g.k = "reject"
  <2> DEFINE none == ""
  <2>1. ConvertExpr(g) = [k |-> "verdict", kind |-> "reject", chain |-> none]
    BY <1>9 DEF ConvertExpr
  <2> HIDE DEF none
  <2>2. ConvertExpr(g).k = "verdict"
    BY <2>1
  <2> QED
    BY <2>2 DEF Objects
<1>10. CASE g.k \in {"log", "counter", "limit"}
  <2>1. ConvertExpr(g) = Other
    BY <1>10 DEF ConvertExpr
  <2> QED
    BY <2>1
<1>11. CASE g.k \notin {"payload", "cmp", "range", "meta", "verdict", "bitwise", "immediate", "lookup",
                        "ct", "nat", "fib", "match", "target", "reject", "log", "counter", "limit"}
  <2>1. ConvertExpr(g) = Unknown
    BY <1>11 DEF ConvertExpr
  <2> QED
    BY <2>1
<1> QED
  BY <1>1, <1>2, <1>3, <1>4, <1>5, <1>6, <1>7, <1>8, <1>9, <1>10, <1>11 DEF IsXt

LEMMA ConvertedKind ==
    ASSUME NEW g, Whole(g)
    PROVE  ConvertExpr(g).k = "xt" <=> IsXt(g)
<1>1. Other.k # "xt" /\ Unknown.k # "xt"
  BY DEF Other, Unknown
<1> QED
  BY <1>1, ConvertsAsCollected, OthersConverted

\* Payloads are paired by their place among the extensions.  Where an empty one
\* has left no place in the dump the names disagree, so one that is paired is
\* the expression's own.
LEMMA PairedIsOwn ==
    ASSUME NEW K, AllWhole(K), NEW i \in DOMAIN Received(K),
           ConvertExprs(K)[i].k = "xt", Reached(ConvertExprs(K), ExpressionPayloads(K), i)
    PROVE  ExpressionPayloads(K)[Place(ConvertExprs(K), i)].info = Received(K)[i].info
<1> DEFINE T == {e \in Range(K) : e.k \notin Dropped}
           U == {e \in Range(K) : e.k \in {"match", "target"} /\ e.info # NoPayload}
           got  == Sublist(K, T)
           pays == Sublist(K, U)
           conv == ConvertExprs(K)
<1>1. K \in Seq(Range(K)) /\ \A e \in Range(K) : Whole(e)
  BY DEF AllWhole, Range
<1>2. /\ got \in Seq(Range(K)) /\ pays \in Seq(Range(K))
      /\ \A j \in DOMAIN got : got[j] \in T
      /\ \A p \in DOMAIN pays : pays[p] \in U
  <2> HIDE DEF T, U
  <2>1. /\ got \in Seq(Range(K)) /\ ToSet(got) = ToSet(K) \intersect T
        /\ pays \in Seq(Range(K)) /\ ToSet(pays) = ToSet(K) \intersect U
    BY <1>1, SublistSelects
  <2> HIDE DEF got, pays
  <2> QED
    BY <2>1 DEF ToSet
<1>3. U \subseteq T
  BY DEF Dropped
<1>4. /\ Received(K) = got /\ ExpressionPayloads(K) = pays
      /\ conv = [j \in DOMAIN got |-> ConvertExpr(got[j])]
  BY DEF Received, ExpressionPayloads, ConvertExprs
<1> DEFINE C == Cardinality({j \in 1 .. i : got[j] \in U})
<1>5. i \in DOMAIN got /\ conv[i].k = "xt" /\ Reached(conv, pays, i)
  BY <1>4
<1>6. \A n \in DOMAIN got : got[n] \in U =>
          LET c == Cardinality({j \in 1 .. n : got[j] \in U})
          IN  c \in DOMAIN pays /\ pays[c] = got[n]
  <2> HIDE DEF T, U
  <2> QED
    BY <1>1, <1>3, SublistCounts
<1>7. \A j \in DOMAIN got : /\ Whole(got[j]) /\ got[j] \in Range(K)
                            /\ conv[j].k = "xt" <=> IsXt(got[j])
                            /\ IsXt(got[j]) => conv[j].name = got[j].name
  <2>1. \A j \in DOMAIN got : Whole(got[j]) /\ got[j] \in Range(K)
    BY <1>1, <1>2
  <2> HIDE DEF got
  <2> QED
    BY <1>4, <2>1, ConvertedKind, ConvertsAsCollected
<1>8. \A p \in DOMAIN pays : Whole(pays[p]) /\ IsXt(pays[p]) /\ pays[p].info # NoPayload
  BY <1>1, <1>2 DEF IsXt
<1>9. DOMAIN got = 1 .. Len(got) /\ Len(got) \in Nat /\ 1 .. i \subseteq DOMAIN got
  <2>1. DOMAIN got = 1 .. Len(got) /\ Len(got) \in Nat
    BY <1>2
  <2> HIDE DEF got
  <2> QED
    BY <1>5, <2>1
<1> HIDE DEF got, pays, conv, T
<1>10. ASSUME NEW j \in 1 .. i
       PROVE  conv[j].k = "xt" <=> got[j] \in U
  <2>1. j \in DOMAIN got
    BY <1>9
  <2>2. ASSUME conv[j].k = "xt"
        PROVE  got[j] \in U
    <3>1. Pairs(conv, pays, j)
      BY <1>5, <2>2 DEF Reached
    <3>2. PICK p \in DOMAIN pays : pays[p].name = conv[j].name
      BY <3>1 DEF Pairs
    <3>3. pays[p].name # "socket"
      BY <1>8 DEF Whole
    <3>4. IsXt(got[j]) /\ got[j].name # "socket" /\ Whole(got[j]) /\ got[j] \in Range(K)
      BY <1>7, <2>1, <2>2, <3>2, <3>3
    <3>5. got[j].info # NoPayload
      BY <3>4 DEF Whole
    <3> QED
      BY <3>4, <3>5 DEF IsXt
  <2>3. ASSUME got[j] \in U
        PROVE  conv[j].k = "xt"
    BY <1>7, <2>1, <2>3 DEF IsXt
  <2> QED
    BY <2>2, <2>3
<1>11. got[i] \in U
  <2>1. i \in 1 .. i
    BY <1>5, <1>9
  <2> QED
    BY <1>5, <1>10, <2>1
<1> HIDE DEF U
<1>12. Place(conv, i) = C
  <2>1. {j \in 1 .. i : conv[j].k = "xt"} = {j \in 1 .. i : got[j] \in U}
    BY <1>10
  <2> QED
    BY <2>1 DEF Place
<1>13. pays[C] = got[i]
  BY <1>5, <1>6, <1>11
<1> QED
  BY <1>4, <1>12, <1>13 DEF conv

LEMMA ReceivedIsWhole ==
    ASSUME NEW K, AllWhole(K)
    PROVE  \A i \in DOMAIN Received(K) : Whole(Received(K)[i])
<1> DEFINE T == {e \in Range(K) : e.k \notin Dropped}  got == Received(K)
<1>1. K \in Seq(Range(K)) /\ \A e \in Range(K) : Whole(e)
  BY DEF AllWhole, Range
<1>2. got = Sublist(K, T)
  BY DEF Received
<1> HIDE DEF T, got
<1>3. got \in Seq(Range(K))
  BY <1>1, <1>2, SublistSelects
<1>4. \A i \in DOMAIN got : got[i] \in Range(K)
  BY <1>3
<1> QED
  BY <1>1, <1>4 DEF got

LEMMA CollectedIsFaithful ==
    ASSUME NEW K, AllWhole(K), NEW dumped \in BOOLEAN
    PROVE  /\ DOMAIN CollectRule(K, dumped) = DOMAIN Received(K)
           /\ \A i \in DOMAIN Received(K) : AsCollected(CollectRule(K, dumped)[i], Received(K)[i])
<1> DEFINE got  == Received(K)
           conv == ConvertExprs(K)
           pays == ExpressionPayloads(K)
           t    == AttachXtPayloads(conv, pays)
           joins(i) == conv[i].k = "xt" /\ Reached(conv, pays, i) /\ conv[i].raw = NoPayload
           own(i)   == pays[Place(conv, i)].info
<1>1. conv = [i \in DOMAIN got |-> ConvertExpr(got[i])]
  BY DEF ConvertExprs
<1>2. \A i \in DOMAIN got : Whole(got[i])
  BY ReceivedIsWhole
<1>3. t = [i \in DOMAIN conv |-> IF joins(i) THEN [conv[i] EXCEPT !.raw = own(i)] ELSE conv[i]]
  BY DEF AttachXtPayloads
<1>4. \A i \in DOMAIN got : joins(i) => conv[i].k = "xt" /\ own(i) = got[i].info
  BY PairedIsOwn
<1> HIDE DEF got, conv, pays, t, joins, own
<1>5. \A i \in DOMAIN got : AsCollected(conv[i], got[i]) /\ (conv[i].k = "xt" <=> IsXt(got[i]))
  BY <1>1, <1>2, ConvertsAsCollected, ConvertedKind
<1>6. ASSUME NEW i \in DOMAIN got
      PROVE  AsCollected(t[i], got[i])
  <2>1. CASE joins(i)
    <3> DEFINE e == conv[i]  g == got[i]
    <3>1. t[i] = [e EXCEPT !.raw = g.info]
      BY <1>1, <1>3, <1>4, <2>1
    <3>2. IsXt(g) /\ e \in {Ext(g, NoPayload), Ext(g, g.info)}
      BY <1>4, <1>5, <2>1 DEF AsCollected
    <3> HIDE DEF e, g
    <3>3. \A raw : [Ext(g, raw) EXCEPT !.raw = g.info] = Ext(g, g.info)
      BY XtRaw DEF Ext
    <3>4. t[i] = Ext(g, g.info)
      BY <3>1, <3>2, <3>3
    <3> QED
      BY <3>2, <3>4 DEF AsCollected, g
  <2>2. CASE ~joins(i)
    BY <1>1, <1>3, <1>5, <2>2
  <2> QED
    BY <2>1, <2>2
<1>7. DOMAIN t = DOMAIN got /\ DOMAIN conv = DOMAIN got
  BY <1>1, <1>3
<1> QED
  BY <1>5, <1>6, <1>7 DEF CollectRule, conv, pays, t, got

(***************************************************************************)
(* The payloads through the document                                       *)
(***************************************************************************)
\* Whatever a build recorded beside a payload it kept, rereading it gives
\* what the payload says.
LEMMA RereadOfKept ==
    ASSUME NEW g, IsXt(g), g.info # NoPayload, g.info.type # "garbled", NEW decoded, NEW arg
    PROVE  RedecodeXt(Xt(g.k, g.name, g.rev, decoded, arg, g.info)) = Ext(g, g.info)
<1> DEFINE x == Xt(g.k, g.name, g.rev, decoded, arg, g.info)
           c == ConvertXt(g.k, g.name, g.rev, g.info)
           raw == IF g.info.type = "bytes" THEN g.info ELSE NoPayload
<1>1. x.k = "xt" /\ x.kind = g.k /\ x.name = g.name /\ x.rev = g.rev /\ x.raw = g.info
  BY XtHas
<1> HIDE DEF x
<1>2. Legible(x.raw)
  BY <1>1 DEF Legible
<1>3. RedecodeXt(x) = [c EXCEPT !.raw = g.info]
  BY <1>1, <1>2 DEF RedecodeXt
<1>4. c = Ext(g, raw)
  BY ConvertedIsXt DEF Ext, ReadOf
<1> HIDE DEF raw, c
<1>5. [Ext(g, raw) EXCEPT !.raw = g.info] = Ext(g, g.info)
  BY XtRaw DEF Ext
<1> QED
  BY <1>3, <1>4, <1>5 DEF x

\* What a document keeps of an expression is read back as this build reads it.
LEMMA StoreIsFaithful ==
    ASSUME NEW g, Whole(g), NEW e, AsCollected(e, g), NEW h, RecordedAs(h, e)
    PROVE  AsReread(RedecodeXt(h), g)
<1>1. CASE ~IsXt(g)
  <2>1. e = ConvertExpr(g) /\ e.k # "xt"
    BY <1>1, ConvertedKind DEF AsCollected
  <2>2. CASE e = Unknown /\ h = Bare("later")
    <3>1. Bare("later").k # "xt"
      BY DEF Bare
    <3> QED
      BY <1>1, <2>1, <2>2, <3>1 DEF RedecodeXt, AsReread
  <2>3. CASE h = e
    BY <2>1, <2>3 DEF RedecodeXt, AsReread
  <2> QED
    BY <2>1, <2>2, <2>3 DEF RecordedAs
<1>2. CASE IsXt(g)
  <2>1. e \in {Ext(g, NoPayload), Ext(g, g.info)} /\ g.info.type # "garbled"
    BY <1>2 DEF AsCollected, Whole
  <2>2. ASSUME NEW raw
        PROVE  Ext(g, raw).k = "xt" /\ Ext(g, raw).raw = raw
    BY XtHas DEF Ext
  <2>3. e.k = "xt" /\ e # Unknown /\ e.raw \in {NoPayload, g.info}
    <3>1. Unknown.k # "xt"
      BY DEF Unknown
    <3> QED
      BY <2>1, <2>2, <3>1
  <2>4. CASE e.raw = NoPayload
    <3>1. h = e
      BY <2>3, <2>4 DEF RecordedAs
    <3>2. RedecodeXt(e) = e
      BY <2>4 DEF RedecodeXt, Legible
    <3> QED
      BY <3>1, <3>2 DEF AsReread
  <2>5. CASE e.raw # NoPayload
    <3> DEFINE x == Ext(g, g.info)
    <3>1. e = x /\ g.info # NoPayload
      BY <2>1, <2>2, <2>5
    <3>2. ASSUME NEW d, NEW a, h = Xt(g.k, g.name, g.rev, d, a, g.info)
          PROVE  AsReread(RedecodeXt(h), g)
      <4>1. RedecodeXt(Xt(g.k, g.name, g.rev, d, a, g.info)) = Ext(g, g.info)
        BY <1>2, <2>1, <3>1, RereadOfKept
      <4> QED
        BY <1>2, <3>2, <4>1 DEF AsReread, AsCollected
    <3>3. CASE h = [e EXCEPT !.decoded = FALSE, !.arg = [none |-> 0]]
      <4> DEFINE no == FALSE  none == [none |-> 0]
      <4>1. h = [x EXCEPT !.decoded = no, !.arg = none]
        BY <3>1, <3>3
      <4> HIDE DEF no, none
      <4>2. [x EXCEPT !.decoded = no] = Xt(g.k, g.name, g.rev, no, ReadOf(g).arg, g.info)
        BY XtDecoded DEF Ext
      <4>3. [Xt(g.k, g.name, g.rev, no, ReadOf(g).arg, g.info) EXCEPT !.arg = none]
                = Xt(g.k, g.name, g.rev, no, none, g.info)
        BY XtArg
      <4>4. h = [[x EXCEPT !.decoded = no] EXCEPT !.arg = none]
        BY <4>1, ExceptTwice
      <4> QED
        BY <3>2, <4>2, <4>3, <4>4
    <3>4. CASE h = [e EXCEPT !.arg.invertDst = FALSE, !.arg.invertSrc = FALSE]
      <4> DEFINE no == FALSE  a == [x.arg EXCEPT !.invertDst = no, !.invertSrc = no]
      <4>1. h = [x EXCEPT !.arg.invertDst = no, !.arg.invertSrc = no]
        BY <3>1, <3>4
      <4> HIDE DEF no
      <4>2. "arg" \in DOMAIN x
        BY XtHasArg DEF Ext
      <4>3. h = [x EXCEPT !.arg = a]
        BY <4>1, <4>2, ExceptWithin
      <4> HIDE DEF a
      <4>4. [x EXCEPT !.arg = a] = Xt(g.k, g.name, g.rev, ReadOf(g).decoded, a, g.info)
        BY XtArg DEF Ext
      <4> QED
        BY <3>2, <4>3, <4>4
    <3>5. CASE h = [e EXCEPT !.raw = Garbled]
      <4>1. h = [x EXCEPT !.raw = Garbled]
        BY <3>1, <3>5
      <4>2. [x EXCEPT !.raw = Garbled] = Ext(g, Garbled)
        BY XtRaw DEF Ext
      <4>3. RedecodeXt(Ext(g, Garbled)) = Ext(g, Garbled)
        <5>1. ~Legible(Garbled)
          BY DEF Legible, Garbled
        <5> QED
          BY <2>2, <5>1 DEF RedecodeXt
      <4> QED
        BY <1>2, <4>1, <4>2, <4>3 DEF AsReread
    <3>6. CASE h = e
      BY <3>1, <3>2, <3>6 DEF Ext
    <3> QED
      BY <2>3, <3>3, <3>4, <3>5, <3>6 DEF RecordedAs
  <2> QED
    BY <2>4, <2>5
<1> QED
  BY <1>1, <1>2

LEMMA KeptIsReread ==
    ASSUME NEW g, Whole(g), NEW e, AsCollected(e, g)
    PROVE  AsReread(RedecodeXt(e), g)
BY StoreIsFaithful DEF RecordedAs

\* What an editor strips to its kind and Validate still lets through had
\* nothing but its kind.
LEMMA StrippedIsFaithful ==
    ASSUME NEW g, Whole(g), NEW e, AsCollected(e, g), ~Missing(Bare(e.k))
    PROVE  AsReread(RedecodeXt(Bare(e.k)), g)
<1>1. e.k \notin Objects
  BY DEF Missing, IsBare, Bare
<1>2. ~IsXt(g) /\ e = ConvertExpr(g)
  <2>1. \A raw : Ext(g, raw).k = "xt"
    BY XtHas DEF Ext
  <2>2. "xt" \in Objects
    BY DEF Objects
  <2> QED
    BY <1>1, <2>1, <2>2 DEF AsCollected
<1>3. e \in {Other, Unknown}
  BY <1>1, <1>2, OthersConverted
<1>4. Bare(e.k) = e
  BY <1>3 DEF Bare, Other, Unknown
<1> QED
  BY <1>4, KeptIsReread

\* The expressions of the document, one by one, are those of the kernel as
\* this build reads them, or will be once they are reread.
FaithInv ==
    LET got == Received(Kernel)
    IN  /\ DOMAIN rule = DOMAIN got
        /\ doc = "live" => \A i \in DOMAIN got : AsCollected(rule[i], got[i])
        /\ doc = "stored" /\ Validate(rule)
               => \A i \in DOMAIN got : AsReread(RedecodeXt(rule[i]), got[i])
        /\ doc = "read" => \A i \in DOMAIN got : AsReread(rule[i], got[i])

LEMMA KernelReceived ==
    ASSUME PathInv
    PROVE  AllWhole(Kernel) /\ \A i \in DOMAIN Received(Kernel) : Whole(Received(Kernel)[i])
<1>1. AllWhole(Kernel)
  BY KernelIsWhole DEF PathInv, Kernel
<1> QED
  BY <1>1, ReceivedIsWhole

LEMMA FaithInvInit == Init => FaithInv
<1> SUFFICES ASSUME Init PROVE FaithInv
  OBVIOUS
<1>1. PICK dumped \in BOOLEAN : rule = CollectRule(Kernel, dumped)
  BY DEF Init
<1>2. PathInv /\ doc = "live"
  BY PathInvInit DEF Init
<1>3. AllWhole(Kernel)
  BY <1>2, KernelReceived
<1>4. /\ DOMAIN rule = DOMAIN Received(Kernel)
      /\ \A i \in DOMAIN Received(Kernel) : AsCollected(rule[i], Received(Kernel)[i])
  BY <1>1, <1>3, CollectedIsFaithful
<1> QED
  BY <1>2, <1>4 DEF FaithInv

LEMMA FaithInvNext == PathInv /\ FaithInv /\ [Next]_vars => FaithInv'
<1> SUFFICES ASSUME PathInv, FaithInv, [Next]_vars
             PROVE  FaithInv'
  OBVIOUS
<1> DEFINE got == Received(Kernel)
<1>1. \A i \in DOMAIN got : Whole(got[i])
  BY KernelReceived
<1>2. DOMAIN rule = DOMAIN got
  BY DEF FaithInv
<1>3. input' = input => got' = got
  BY DEF Kernel
<1>4. ASSUME NEW version, Stores(version), DOMAIN rule' = DOMAIN rule,
             Validate(rule') => \A i \in DOMAIN got : AsReread(RedecodeXt(rule'[i]), got[i])
      PROVE  FaithInv'
  <2>1. doc' = "stored" /\ input' = input
    BY <1>4 DEF Stores
  <2>2. got' = got
    BY <1>3, <2>1
  <2> HIDE DEF got
  <2> QED
    BY <1>2, <1>4, <2>1, <2>2 DEF FaithInv, got
<1>5. doc = "live" => \A i \in DOMAIN got : AsCollected(rule[i], got[i])
  BY DEF FaithInv
<1> HIDE DEF got
<1>6. CASE Store
  <2>1. PICK how \in {"this build", "undecoded", "misread", "garbled", "later build"} :
            /\ Stores(SchemaVersion)
            /\ rule' = [i \in DOMAIN rule |-> Recorded(rule[i], how)]
    BY <1>6 DEF Store
  <2>2. doc = "live"
    BY <2>1 DEF Stores
  <2>3. ASSUME NEW i \in DOMAIN got
        PROVE  AsReread(RedecodeXt(Recorded(rule[i], how)), got[i])
    <3>1. RecordedAs(Recorded(rule[i], how), rule[i])
      BY WaysToRecord
    <3> QED
      BY <1>1, <1>5, <2>2, <3>1, StoreIsFaithful
  <2>4. DOMAIN rule' = DOMAIN rule /\ \A i \in DOMAIN got : rule'[i] = Recorded(rule[i], how)
    BY <1>2, <2>1
  <2>5. \A i \in DOMAIN got : AsReread(RedecodeXt(rule'[i]), got[i])
    BY <2>3, <2>4
  <2> QED
    BY <1>4, <2>1, <2>4, <2>5
<1>7. CASE Damage
  <2>1. PICK i \in DOMAIN rule :
            /\ Stores(SchemaVersion)
            /\ rule' = [rule EXCEPT ![i] = Bare(@.k)]
    BY <1>7 DEF Damage
  <2>2. doc = "live"
    BY <2>1 DEF Stores
  <2> DEFINE b == Bare(rule[i].k)
  <2>3. DOMAIN rule' = DOMAIN rule /\ rule'[i] = b /\ \A j \in DOMAIN rule \ {i} : rule'[j] = rule[j]
    BY <2>1
  <2>4. ASSUME Validate(rule'), NEW j \in DOMAIN got
        PROVE  AsReread(RedecodeXt(rule'[j]), got[j])
    <3>1. Whole(got[j]) /\ AsCollected(rule[j], got[j])
      BY <1>1, <1>5, <2>2
    <3>2. CASE j = i
      <4>1. ~Missing(rule'[i])
        BY <2>3, <2>4 DEF Validate
      <4>2. ~Missing(b)
        BY <2>3, <4>1
      <4> QED
        BY <2>3, <3>1, <3>2, <4>2, StrippedIsFaithful
    <3>3. CASE j # i
      BY <1>2, <2>3, <3>1, <3>3, KeptIsReread
    <3> QED
      BY <3>2, <3>3
  <2> QED
    BY <1>4, <2>1, <2>3, <2>4
<1>8. CASE WriteOtherVersion
  <2>1. PICK v : Stores(v) /\ rule' = rule
    BY <1>8 DEF WriteOtherVersion
  <2>2. doc = "live"
    BY <2>1 DEF Stores
  <2>3. \A i \in DOMAIN got : AsReread(RedecodeXt(rule[i]), got[i])
    BY <1>1, <1>5, <2>2, KeptIsReread
  <2> QED
    BY <1>4, <2>1, <2>3
<1>9. CASE ReadBack
  <2>1. doc = "stored" /\ Validate(rule) /\ doc' = "read" /\ rule' = Redecode(rule) /\ input' = input
    BY <1>9 DEF ReadBack
  <2>2. \A i \in DOMAIN got : AsReread(RedecodeXt(rule[i]), got[i])
    BY <2>1 DEF FaithInv, got
  <2>3. DOMAIN rule' = DOMAIN rule /\ \A i \in DOMAIN got : rule'[i] = RedecodeXt(rule[i])
    BY <1>2, <2>1 DEF Redecode
  <2>4. got' = got
    BY <1>3, <2>1
  <2> QED
    BY <1>2, <2>1, <2>2, <2>3, <2>4 DEF FaithInv, got
<1>10. ASSUME UNCHANGED <<input, rule>>, doc' = doc \/ doc' = "refused"
       PROVE  FaithInv'
  <2>1. got' = got
    BY <1>3, <1>10
  <2> QED
    BY <1>10, <2>1 DEF FaithInv, got
<1>11. CASE Refuse
  BY <1>10, <1>11 DEF Refuse
<1>12. CASE Load \/ Mask \/ Compare \/ LookUp \/ Extend \/ DoIt \/ PassOver \/ GiveUp
  BY <1>10, <1>12 DEF Load, Mask, Compare, LookUp, Extend, DoIt, PassOver, GiveUp, Executes
<1>13. CASE RunOut
  BY <1>10, <1>13 DEF RunOut
<1>14. CASE Decided \/ UNCHANGED vars
  BY <1>10, <1>14 DEF Decided, vars
<1> QED
  BY <1>6, <1>7, <1>8, <1>9, <1>11, <1>12, <1>13, <1>14 DEF Next

\* Nothing that is compared of an expression depends on how it was read back.
AnswerOf(e) ==
    CASE e.k = "xt"                         -> [e EXCEPT !.raw = NoPayload]
      [] e.k \notin Objects \union Without  -> Unknown
      [] OTHER                              -> e

LEMMA AnswerOfXt == \A e : e.k = "xt" => AnswerOf(e) = [e EXCEPT !.raw = NoPayload]
<1> SUFFICES ASSUME NEW e, e.k = "xt"
             PROVE  AnswerOf(e) = [e EXCEPT !.raw = NoPayload]
  OBVIOUS
<1> DEFINE stripped == [e EXCEPT !.raw = NoPayload]
<1>1. "xt" \in Objects \union Without
  BY DEF Objects
<1>2. AnswerOf(e) = CASE e.k = "xt" -> stripped
                      [] e.k \notin Objects \union Without -> Unknown
                      [] OTHER -> e
  BY DEF AnswerOf
<1> HIDE DEF stripped
<1>3. AnswerOf(e) = stripped
  BY <1>1, <1>2
<1> QED
  BY <1>3 DEF stripped

LEMMA SameAnswer ==
    ASSUME NEW g, Whole(g), NEW e, AsReread(e, g)
    PROVE  /\ AnswerOf(e) = AnswerOf(ConvertExpr(g))
           /\ e.k = "xt" /\ Legible(e.raw) => e.raw = g.info
<1>1. CASE IsXt(g)
  <2>1. ASSUME NEW raw
        PROVE  /\ Ext(g, raw).k = "xt" /\ Ext(g, raw).raw = raw
               /\ AnswerOf(Ext(g, raw)) = Ext(g, NoPayload)
    <3>1. Ext(g, raw).k = "xt" /\ Ext(g, raw).raw = raw
      BY XtHas DEF Ext
    <3>2. AnswerOf(Ext(g, raw)) = [Ext(g, raw) EXCEPT !.raw = NoPayload]
      BY <3>1, AnswerOfXt
    <3>3. [Ext(g, raw) EXCEPT !.raw = NoPayload] = Ext(g, NoPayload)
      BY XtRaw DEF Ext
    <3> QED
      BY <3>1, <3>2, <3>3
  <2>2. PICK raw \in {NoPayload, g.info, Garbled} : e = Ext(g, raw)
    BY <1>1 DEF AsReread, AsCollected
  <2>3. PICK other : ConvertExpr(g) = Ext(g, other)
    BY <1>1, ConvertsAsCollected DEF AsCollected
  <2>4. ~Legible(NoPayload) /\ ~Legible(Garbled)
    BY DEF Legible, Garbled
  <2> QED
    BY <2>1, <2>2, <2>3, <2>4
<1>2. CASE ~IsXt(g) /\ e = ConvertExpr(g)
  BY <1>2, ConvertedKind
<1>3. CASE ~IsXt(g) /\ ConvertExpr(g) = Unknown /\ e = Bare("later")
  <2>1. e.k = "later" /\ "later" \notin Objects \union Without
    BY <1>3 DEF Bare, Objects, Without
  <2>2. AnswerOf(e) = Unknown
    BY <2>1 DEF AnswerOf
  <2>3. Unknown.k # "xt" /\ Unknown.k \in Without
    BY DEF Unknown, Without
  <2>4. AnswerOf(Unknown) = Unknown
    BY <2>3 DEF AnswerOf
  <2> QED
    BY <1>3, <2>1, <2>2, <2>4
<1> QED
  BY <1>1, <1>2, <1>3 DEF AsReread, AsCollected

LEMMA AnswersPointwise ==
    ASSUME NEW r, NEW s, DOMAIN r = DOMAIN s, \A i \in DOMAIN r : AnswerOf(r[i]) = AnswerOf(s[i])
    PROVE  Answers(r) = Answers(s)
<1>1. Answers(r) = [i \in DOMAIN r |-> AnswerOf(r[i])]
  BY DEF Answers, AnswerOf
<1>2. Answers(s) = [i \in DOMAIN s |-> AnswerOf(s[i])]
  BY DEF Answers, AnswerOf
<1> QED
  BY <1>1, <1>2

LEMMA FaithfulIsReread == PathInv /\ FaithInv => RereadAsCollected
<1> SUFFICES ASSUME PathInv, FaithInv, doc \in {"live", "read"}
             PROVE  /\ Answers(rule) = Answers(ConvertExprs(Kernel))
                    /\ \A i \in DOMAIN rule :
                          rule[i].k = "xt" /\ Legible(rule[i].raw)
                              => rule[i].raw = Received(Kernel)[i].info
  BY DEF RereadAsCollected
<1> DEFINE got == Received(Kernel)  conv == ConvertExprs(Kernel)
<1>1. conv = [i \in DOMAIN got |-> ConvertExpr(got[i])]
  BY DEF ConvertExprs
<1>2. \A i \in DOMAIN got : Whole(got[i])
  BY KernelReceived
<1>3. DOMAIN rule = DOMAIN got /\ \A i \in DOMAIN got : AsReread(rule[i], got[i])
  BY DEF FaithInv, AsReread
<1> HIDE DEF got, conv
<1>4. \A i \in DOMAIN got : /\ AnswerOf(rule[i]) = AnswerOf(ConvertExpr(got[i]))
                            /\ rule[i].k = "xt" /\ Legible(rule[i].raw) => rule[i].raw = got[i].info
  BY <1>2, <1>3, SameAnswer
<1>5. DOMAIN rule = DOMAIN conv /\ \A i \in DOMAIN rule : AnswerOf(rule[i]) = AnswerOf(conv[i])
  BY <1>1, <1>3, <1>4
<1>6. Answers(rule) = Answers(conv)
  BY <1>5, AnswersPointwise
<1> QED
  BY <1>3, <1>4, <1>6 DEF got, conv

\* A document answers as this build would on the host it came from: whichever
\* build stored it and whatever an editor stripped, the payload decides where
\* one was kept, and the payload kept is the expression's own.
THEOREM DocumentSpeaksForTheHost == Spec => []RereadAsCollected
<1>1. Init => FaithInv
  BY FaithInvInit
<1>2. PathInv /\ FaithInv /\ [Next]_vars => FaithInv'
  BY FaithInvNext
<1>3. PathInv /\ FaithInv => RereadAsCollected
  BY FaithfulIsReread
<1>4. Spec => []PathInv
  BY PathInvariance
<1> QED
  BY <1>1, <1>2, <1>3, <1>4, PTL DEF Spec

(***************************************************************************)
(* Where the statements lie in the rule                                    *)
(***************************************************************************)
\* The library drops the expressions of `last` and no others.
Stays(e)   == e.k \notin Dropped
AllStay(s) == \A i \in 1 .. Len(s) : Stays(s[i])
NoneStay(s) == \A i \in 1 .. Len(s) : ~Stays(s[i])

LEMMA ListsStay ==
    /\ AllStay(<<>>)
    /\ \A a : Stays(a) => AllStay(<<a>>)
    /\ \A a, b : Stays(a) /\ Stays(b) => AllStay(<<a, b>>)
    /\ \A a, b, c : Stays(a) /\ Stays(b) /\ Stays(c) => AllStay(<<a, b, c>>)
BY DEF AllStay

LEMMA ShapesStay ==
    /\ Stays(LoadPort)
    /\ \A op, data : Stays(Cmp(op, data))
    /\ \A name, rev, info : Stays(Match(name, rev, info)) /\ Stays(Target(name, rev, info))
    /\ \A field, off, len : Stays(AddrAt(field, off, len))
    /\ \A mask, xor : Stays([k |-> "bitwise", src |-> 1, reg |-> 1, mask |-> mask, xor |-> xor])
    /\ \A data, r : Stays([k |-> "immediate", reg |-> r, data |-> data])
    /\ \A key : Stays([k |-> "meta", key |-> key, reg |-> 1])
    /\ \A key, source : Stays([k |-> "ct", key |-> key, reg |-> 1, source |-> source])
    /\ \A flags : Stays([k |-> "fib", flags |-> flags, reg |-> 1])
    /\ \A from, to : Stays([k |-> "range", op |-> "neq", reg |-> 1, from |-> from, to |-> to])
    /\ \A set, invert : Stays([k |-> "lookup", reg |-> 1, set |-> set, setID |-> 0,
                               invert |-> invert, dest |-> FALSE])
    /\ \A kind, chain : Stays([k |-> "verdict", kind |-> kind, chain |-> chain])
    /\ \A type, proto : Stays([k |-> "nat", type |-> type, addr |-> 1, proto |-> proto])
    /\ \A k \in {"limit", "log", "quota", "reject"} : Stays([k |-> k])
BY DEF Stays, Dropped, LoadPort, Cmp, Match, Target, AddrAt

LEMMA StatementsStay ==
    ASSUME NEW st, st.s \in StatementKinds
    PROVE  /\ st.s # "last" => AllStay(Compile(st))
           /\ st.s = "last" => NoneStay(Compile(st))
<1>1. CASE st.s \in {"port", "between"}
  BY <1>1, ListsStay, ShapesStay DEF Compile
<1>2. CASE st.s \in {"outside", "masked"}
  BY <1>2, ListsStay, ShapesStay DEF Compile
<1>3. CASE st.s = "in-set"
  BY <1>3, ListsStay, ShapesStay DEF Compile
<1>4. CASE st.s = "prefix"
  BY <1>4, ListsStay, ShapesStay DEF Compile, CompilePrefix
<1>5. CASE st.s \in {"proto", "iifname", "iif", "skuid-0", "mark"}
  BY <1>5, ListsStay, ShapesStay DEF Compile
<1>6. CASE st.s \in {"ct-new", "ct-old", "ct-dnat", "ct-mark"}
  BY <1>6, ListsStay, ShapesStay DEF Compile, CtBit
<1>7. CASE st.s = "set-ct-mark"
  BY <1>7, ListsStay, ShapesStay DEF Compile
<1>8. CASE st.s \in {"local", "no-route", "route-by"}
  BY <1>8, ListsStay, ShapesStay DEF Compile
<1>9. ASSUME NEW name, NEW rev, NEW info, Compile(st) = <<Match(name, rev, info)>>
      PROVE  AllStay(Compile(st))
  BY <1>9, ListsStay, ShapesStay
<1>10. CASE st.s = "xt-state"
  <2> DEFINE info == [type |-> "conntrack", match |-> {StateFlag} \union st.others,
                      invert |-> IF st.invert THEN {StateFlag} ELSE {}, states |-> st.states]
  <2>1. Compile(st) = <<Match("conntrack", 3, info)>>
    BY <1>10 DEF Compile
  <2> HIDE DEF info
  <2> QED
    BY <1>9, <1>10, <2>1
<1>11. CASE st.s = "xt-types"
  <2> DEFINE old == [type |-> "addrtype", rev |-> 0, dst |-> st.dst, src |-> st.src,
                     invertDst |-> st.invert, invertSrc |-> FALSE]
             new == [type |-> "addrtype", rev |-> st.rev, dst |-> st.dst, src |-> st.src,
                     flags |-> (IF st.invert THEN {2} ELSE {}) \union st.limits]
             info == IF st.rev = 0 THEN old ELSE new
  <2>1. Compile(st) = <<Match("addrtype", st.rev, info)>>
    BY <1>11 DEF Compile
  <2> HIDE DEF info
  <2> QED
    BY <1>9, <1>11, <2>1
<1>12. CASE st.s = "recent"
  <2> DEFINE info == [type |-> "bytes", len |-> 232, checkSet |-> st.check, invert |-> st.invert]
  <2>1. Compile(st) = <<Match("recent", st.rev, info)>>
    BY <1>12 DEF Compile
  <2> HIDE DEF info
  <2> QED
    BY <1>9, <1>12, <2>1
<1>13. CASE st.s \in {"opaque", "socket", "xt-icmp"}
  <2>1. \/ Compile(st) = <<Match("geoip", 0, Bytes(8))>>
        \/ Compile(st) = <<Match("socket", 0, NoPayload)>>
        \/ Compile(st) = <<Match("icmp", 0, Bytes(4))>>
    BY <1>13 DEF Compile
  <2> QED
    BY <1>9, <1>13, <2>1
<1>14. CASE st.s \in {"limit", "log", "quota"}
  BY <1>14, ListsStay, ShapesStay DEF Compile
<1>15. CASE st.s = "last"
  <2>1. Compile(st) = <<[k |-> "last"]>>
    BY <1>15 DEF Compile
  <2> QED
    BY <1>15, <2>1 DEF NoneStay, Stays, Dropped
<1> QED
  BY <1>1, <1>2, <1>3, <1>4, <1>5, <1>6, <1>7, <1>8, <1>10, <1>11, <1>12, <1>13, <1>14, <1>15
     DEF StatementKinds

LEMMA DeedsStay ==
    ASSUME NEW d, d.d \in DoesKinds
    PROVE  AllStay(CompileDoes(d))
<1>1. CASE d.d \in {"none", "verdict", "reject"}
  BY <1>1, ListsStay, ShapesStay DEF CompileDoes
<1>2. CASE d.d = "dnat"
  <2> DEFINE a == [k |-> "immediate", reg |-> 1, data |-> d.to]
             b == [k |-> "immediate", reg |-> 2, data |-> PortBytes(d.port)]
             e == [k |-> "nat", type |-> "dnat", addr |-> 1, proto |-> IF d.port = 0 THEN 0 ELSE 2]
  <2>1. CompileDoes(d) = <<a>> \o (IF d.port = 0 THEN <<>> ELSE <<b>>) \o <<e>>
    BY <1>2 DEF CompileDoes
  <2>2. Stays(a) /\ Stays(b) /\ Stays(e)
    BY ShapesStay
  <2> HIDE DEF a, b, e
  <2>3. CompileDoes(d) = IF d.port = 0 THEN <<a, e>> ELSE <<a, b, e>>
    <3>1. <<a>> \o <<>> \o <<e>> = <<a, e>> /\ <<a>> \o <<b>> \o <<e>> = <<a, b, e>>
      BY Joined
    <3> QED
      BY <2>1, <3>1
  <2> QED
    BY <2>2, <2>3, ListsStay
<1>3. CASE d.d = "snat"
  BY <1>3, ListsStay, ShapesStay DEF CompileDoes
<1>4. ASSUME NEW name, NEW rev, NEW info, CompileDoes(d) = <<Target(name, rev, info)>>
      PROVE  AllStay(CompileDoes(d))
  BY <1>4, ListsStay, ShapesStay
<1>5. CASE d.d = "xt-dnat"
  <2> DEFINE info == [type |-> "nat-range", minIP |-> d.to, minPort |-> d.port]
  <2>1. CompileDoes(d) = <<Target("DNAT", 2, info)>>
    BY <1>5 DEF CompileDoes
  <2> HIDE DEF info
  <2> QED
    BY <1>4, <2>1
<1>6. CASE d.d = "xt-dnat-0"
  <2> DEFINE info == [type |-> "multi-range", minIP |-> d.to]
  <2>1. CompileDoes(d) = <<Target("DNAT", 0, info)>>
    BY <1>6 DEF CompileDoes
  <2> HIDE DEF info
  <2> QED
    BY <1>4, <2>1
<1>7. CASE d.d = "xt"
  <2>1. CompileDoes(d) = <<Target(d.name, 0, Bytes(8))>>
    BY <1>7 DEF CompileDoes
  <2> QED
    BY <1>4, <2>1
<1> QED
  BY <1>1, <1>2, <1>3, <1>5, <1>6, <1>7 DEF DoesKinds

\* What is left of a statement, and where each of a rule's begins: the nth
\* after the first at[n - 1] expressions, and what the rule does after the last.
Piece(st)   == IF st.s = "last" THEN <<>> ELSE Compile(st)
Laid(at, x) ==
    Placed(at, Len(x.stmts), [n \in 1 .. Len(x.stmts) |-> Piece(x.stmts[n])],
           Received(CompileRule(x.stmts, x.does)), CompileDoes(x.does))

LEMMA KernelIsLaid ==
    ASSUME NEW x \in Inputs
    PROVE  \E at : Laid(at, x)
<1> DEFINE ss == [i \in DOMAIN x.stmts |-> Compile(x.stmts[i])]
           end == CompileDoes(x.does)
           Q == UNION {Range(ss[i]) : i \in DOMAIN x.stmts}
           R == Range(end)
           S == Q \union R
           K == CompileRule(x.stmts, x.does)
           T == {e \in Range(K) : e.k \notin Dropped}
           P == [n \in 1 .. Len(x.stmts) |-> Piece(x.stmts[n])]
           N == Len(x.stmts)
<1>1. /\ x.stmts \in Seq(Range(x.stmts)) /\ x.does.d \in DoesKinds
      /\ x.does.d = "xt" => x.does.name # "socket"
      /\ \A i \in DOMAIN x.stmts : x.stmts[i].s \in StatementKinds
  BY InputsAssumption DEF Range
<1>2. DOMAIN x.stmts = 1 .. N /\ N \in Nat
  BY <1>1
<1>3. \A i \in 1 .. N : AllWhole(ss[i]) /\ ss[i] = Compile(x.stmts[i])
  BY <1>1, <1>2, CompileIsWhole
<1>4. AllWhole(end)
  BY <1>1, DoesIsWhole
<1>5. \A i \in 1 .. N : ss[i] \in Seq(S)
  <2> SUFFICES ASSUME NEW i \in 1 .. N
               PROVE  ss[i] \in Seq(S)
    OBVIOUS
  <2> DEFINE s == ss[i]
  <2>1. s \in Seq(Range(s)) /\ Range(s) \subseteq S
    BY <1>2, <1>3 DEF AllWhole
  <2> HIDE DEF s, S
  <2>2. s \in Seq(S)
    BY <2>1
  <2> QED
    BY <2>2 DEF s
<1>6. ss \in Seq(Seq(S)) /\ Len(ss) = N
  <2> HIDE DEF S
  <2>1. ss = [i \in 1 .. N |-> ss[i]]
    BY <1>2
  <2> HIDE DEF ss
  <2> QED
    BY <1>2, <1>5, <2>1
<1>7. end \in Seq(S)
  <2>1. end \in Seq(R)
    BY <1>4 DEF AllWhole
  <2> HIDE DEF end, R, Q
  <2>2. R \subseteq S
    OBVIOUS
  <2> HIDE DEF S
  <2> QED
    BY <2>1, <2>2
<1>8. K = FlattenSeq(ss) \o end
  BY DEF CompileRule
<1> HIDE DEF S, Q, R, ss, end, K
<1> DEFINE pre == FlattenSeq(ss)
<1>9. pre \in Seq(S) /\ \A n \in 1 .. N : ToSet(ss[n]) \subseteq ToSet(pre)
  BY <1>6, FlattenIsSeq, FlattenHasAll
<1> HIDE DEF pre
<1>10. pre \o end \in Seq(S) /\ ToSet(pre \o end) = ToSet(pre) \union ToSet(end)
  BY <1>7, <1>9, ToSetOfConcat
<1>11. \A e : e \in T <=> (e \in ToSet(pre) \/ e \in ToSet(end)) /\ Stays(e)
  BY <1>8, <1>10, RangeIsToSet DEF Stays, pre
<1> HIDE DEF T
<1>12. ASSUME NEW s \in Seq(S)
       PROVE  \A i \in 1 .. Len(s) : s[i] \in ToSet(s)
  BY DEF ToSet
<1>13. ASSUME NEW s \in Seq(S)
       PROVE  /\ (\A i \in 1 .. Len(s) : s[i] \in T) => Sublist(s, T) = s
              /\ (\A i \in 1 .. Len(s) : s[i] \notin T) => Sublist(s, T) = <<>>
  BY SublistOfAll
<1>14. ASSUME NEW n \in 1 .. N
       PROVE  P[n] = Sublist(ss[n], T)
  <2> DEFINE s == ss[n]  st == x.stmts[n]
  <2>1. s \in Seq(S) /\ s = Compile(st) /\ ToSet(s) \subseteq ToSet(pre) /\ st.s \in StatementKinds
    BY <1>1, <1>2, <1>3, <1>5, <1>9
  <2>2. P[n] = Piece(st)
    OBVIOUS
  <2> HIDE DEF s, st, P
  <2>3. /\ st.s # "last" => AllStay(Compile(st))
        /\ st.s = "last" => NoneStay(Compile(st))
    BY <2>1, StatementsStay
  <2>4. CASE st.s # "last"
    <3>1. \A i \in 1 .. Len(s) : s[i] \in T
      BY <1>11, <1>12, <2>1, <2>3, <2>4 DEF AllStay
    <3> QED
      BY <1>13, <2>1, <2>2, <2>4, <3>1 DEF Piece, s
  <2>5. CASE st.s = "last"
    <3>1. \A i \in 1 .. Len(s) : s[i] \notin T
      BY <1>11, <2>1, <2>3, <2>5 DEF NoneStay
    <3> QED
      BY <1>13, <2>1, <2>2, <2>5, <3>1 DEF Piece, s
  <2> QED
    BY <2>4, <2>5
<1>15. Sublist(end, T) = end
  <2>1. AllStay(end)
    BY <1>1, DeedsStay DEF end
  <2>2. \A i \in 1 .. Len(end) : end[i] \in T
    BY <1>7, <1>11, <1>12, <2>1 DEF AllStay
  <2> QED
    BY <1>7, <1>13, <2>2
<1> HIDE DEF P
<1>16. \E at : Placed(at, Len(ss), P, Sublist(FlattenSeq(ss) \o end, T), Sublist(end, T))
  BY <1>6, <1>7, <1>14, KeptPieces
<1>17. \E at : Placed(at, N, P, Sublist(K, T), end)
  BY <1>6, <1>8, <1>15, <1>16
<1> QED
  BY <1>17 DEF Laid, Received, K, T, P, end, N

\* Only `last` leaves nothing in the rule.
LEMMA CompiledIs ==
    ASSUME NEW st, st.s \in StatementKinds
    PROVE  /\ Len(Compile(st)) \in Nat /\ DOMAIN Compile(st) = 1 .. Len(Compile(st))
           /\ Len(Compile(st)) # 0
<1>1. AllWhole(Compile(st))
  BY CompileIsWhole
<1>2. Len(Compile(st)) \in Nat /\ DOMAIN Compile(st) = 1 .. Len(Compile(st))
  BY <1>1 DEF AllWhole
<1>3. Compile(st) # <<>>
  <2>1. CASE st.s \in {"port", "between", "outside", "masked", "in-set", "prefix", "proto", "iifname",
                       "iif", "skuid-0"}
    BY <2>1 DEF Compile, CompilePrefix
  <2>2. CASE st.s \in {"mark", "ct-new", "ct-old", "ct-dnat", "ct-mark", "set-ct-mark", "local",
                       "no-route", "route-by"}
    BY <2>2 DEF Compile, CtBit
  <2>3. CASE st.s \in {"xt-state", "xt-types", "recent", "opaque", "socket", "xt-icmp"}
    BY <2>3 DEF Compile
  <2>4. CASE st.s \in {"limit", "log", "quota", "last"}
    BY <2>4 DEF Compile
  <2> QED
    BY <2>1, <2>2, <2>3, <2>4 DEF StatementKinds
<1> DEFINE c == Compile(st)
<1> HIDE DEF c
<1>4. AllWhole(c) /\ c # <<>> => Len(c) # 0
  BY DEF AllWhole
<1>5. Len(c) # 0
  BY <1>1, <1>3, <1>4 DEF c
<1> QED
  BY <1>2, <1>5 DEF c

\* What is written in an input, statement by statement.
LEMMA InputIs ==
    ASSUME NEW x \in Inputs
    PROVE  /\ Len(x.stmts) \in Nat /\ DOMAIN x.stmts = 1 .. Len(x.stmts)
           /\ x.does \in Deed /\ x.does.d \in DoesKinds
           /\ \A n \in 1 .. Len(x.stmts) :
                 /\ x.stmts[n].s \in StatementKinds
                 /\ x.stmts[n].s # "last" => StatementIsOf(x.stmts[n], x.pkt)
<1>1. /\ x.stmts \in Seq(Range(x.stmts)) /\ x.does.d \in DoesKinds
      /\ \A n \in DOMAIN x.stmts : x.stmts[n].s \in StatementKinds
  BY InputsAssumption DEF Range
<1>2. Len(x.stmts) \in Nat /\ DOMAIN x.stmts = 1 .. Len(x.stmts)
  BY <1>1
<1>3. /\ x.does \in Deed /\ x.pkt \in Packet
      /\ \A n \in DOMAIN x.stmts :
            /\ x.stmts[n] \in Statement
            /\ x.stmts[n].s = "prefix"
                   => x.pkt.family = "ip" /\ Len(x.pkt.src) = 4 /\ Len(x.pkt.dst) = 4
  BY WrittenAssumption DEF Range
<1>4. x.pkt.src \in Seq(Byte) /\ x.pkt.dst \in Seq(Byte)
  BY <1>3 DEF Packet, Address
<1>5. ASSUME NEW n \in 1 .. Len(x.stmts), x.stmts[n].s # "last"
      PROVE  StatementIsOf(x.stmts[n], x.pkt)
  BY <1>2, <1>3, <1>4, <1>5 DEF StatementIsOf, ShortAddresses, FourBytes
<1> QED
  BY <1>1, <1>2, <1>3, <1>5

LEMMA LaidIs ==
    ASSUME NEW x \in Inputs, NEW at, Laid(at, x)
    PROVE  /\ at[0] = 0 /\ \A n \in 0 .. Len(x.stmts) : at[n] \in Nat /\ at[n] <= at[Len(x.stmts)]
           /\ \A n \in 1 .. Len(x.stmts) : x.stmts[n].s = "last" => at[n] = at[n - 1]
           /\ \A n \in 1 .. Len(x.stmts) : x.stmts[n].s # "last" =>
                 /\ at[n] = at[n - 1] + Len(Compile(x.stmts[n]))
                 /\ \A o \in 1 .. Len(Compile(x.stmts[n])) :
                       Received(CompileRule(x.stmts, x.does))[at[n - 1] + o] = Compile(x.stmts[n])[o]
           /\ Len(Received(CompileRule(x.stmts, x.does))) = at[Len(x.stmts)] + Len(CompileDoes(x.does))
           /\ \A j \in 1 .. Len(CompileDoes(x.does)) :
                 Received(CompileRule(x.stmts, x.does))[at[Len(x.stmts)] + j] = CompileDoes(x.does)[j]
           /\ \A k \in 1 .. at[Len(x.stmts)] : \E n \in 1 .. Len(x.stmts) :
                 x.stmts[n].s # "last" /\ \E o \in 1 .. Len(Compile(x.stmts[n])) : k = at[n - 1] + o
<1> DEFINE N == Len(x.stmts)
           P == [n \in 1 .. Len(x.stmts) |-> Piece(x.stmts[n])]
           got == Received(CompileRule(x.stmts, x.does))
           end == CompileDoes(x.does)
<1>1. Placed(at, N, P, got, end) /\ N \in Nat
  BY InputIs DEF Laid
<1>2. \A n \in 1 .. N : P[n] = Piece(x.stmts[n])
  OBVIOUS
<1> HIDE DEF P, got, end, N
<1>3. /\ at[0] = 0 /\ \A n \in 0 .. N : at[n] \in Nat /\ at[n] <= at[N]
      /\ \A n \in 1 .. N : at[n] = at[n - 1] + Len(P[n])
      /\ \A n \in 1 .. N : \A o \in 1 .. Len(P[n]) : got[at[n - 1] + o] = P[n][o]
      /\ Len(got) = at[N] + Len(end)
      /\ \A j \in 1 .. Len(end) : got[at[N] + j] = end[j]
      /\ \A k \in 1 .. at[N] : \E n \in 1 .. N : \E o \in 1 .. Len(P[n]) : k = at[n - 1] + o
  BY <1>1 DEF Placed
<1>4. ASSUME NEW n \in 1 .. N
      PROVE  /\ x.stmts[n].s = "last" => Len(P[n]) = 0
             /\ x.stmts[n].s # "last" => P[n] = Compile(x.stmts[n])
  BY <1>2 DEF Piece
<1>5. ASSUME NEW n \in 1 .. N, x.stmts[n].s = "last"
      PROVE  at[n] = at[n - 1]
  <2>1. n \in 1 .. N /\ n - 1 \in 0 .. N
    BY <1>1
  <2>2. at[n - 1] \in Nat /\ at[n] = at[n - 1] + 0
    BY <1>3, <1>4, <1>5, <2>1
  <2> QED
    BY <2>2
<1>6. ASSUME NEW k \in 1 .. at[N]
      PROVE  \E n \in 1 .. N :
                 x.stmts[n].s # "last" /\ \E o \in 1 .. Len(Compile(x.stmts[n])) : k = at[n - 1] + o
  <2>1. PICK n \in 1 .. N : \E o \in 1 .. Len(P[n]) : k = at[n - 1] + o
    BY <1>3
  <2>2. x.stmts[n].s # "last"
    BY <1>4, <2>1
  <2> QED
    BY <1>4, <2>1, <2>2
<1>7. ASSUME NEW n \in 1 .. N, x.stmts[n].s # "last"
      PROVE  /\ at[n] = at[n - 1] + Len(Compile(x.stmts[n]))
             /\ \A o \in 1 .. Len(Compile(x.stmts[n])) : got[at[n - 1] + o] = Compile(x.stmts[n])[o]
  BY <1>3, <1>4, <1>7
<1> QED
  BY <1>3, <1>5, <1>6, <1>7 DEF N, got, end

(***************************************************************************)
(* The matcher in the rule                                                 *)
(***************************************************************************)
\* Before the ith expression: the statements passed hold, the one that is
\* being read is at that expression, and so is what the rule does.
Standing(at, x, i, mm) ==
    /\ Running(mm) /\ mm.act.kind \in ActKinds
    /\ \A n \in 1 .. Len(x.stmts) : at[n] < i => Says(x.stmts[n], x.pkt) = "yes"
    /\ \A n \in 1 .. Len(x.stmts) : x.stmts[n].s # "last" =>
          \A o \in 1 .. Len(Compile(x.stmts[n])) :
             i = at[n - 1] + o => Within(x.stmts[n], x.pkt, o, mm.regs)
    /\ i <= at[Len(x.stmts)] + 1 => mm.act = Nothing
    /\ \A j \in 1 .. Len(CompileDoes(x.does)) + 1 :
          i = at[Len(x.stmts)] + j => Before(x.does, x.pkt, j, mm)

\* Decided against the packet, or given up on, for a reason the rule has.
SaidOf(x, answer) == \E n \in 1 .. Len(x.stmts) : Says(x.stmts[n], x.pkt) = answer
Settled(x, mm) ==
    /\ DOMAIN mm = MachineFields /\ GoodRegs(mm.regs) /\ mm.act.kind \in ActKinds
    /\ \/ mm.out = "NoMatch" /\ SaidOf(x, "no")
       \/ mm.out \in {"Unknown", "Skipped"} /\ (SaidOf(x, "unknown") \/ NotFollowed(x.does))

LEMMA LastSaysYes == \A st, p : st.s = "last" => Says(st, p) = "yes"
BY DEF Says

LEMMA StandsAtFirst ==
    ASSUME NEW x \in Inputs, NEW at, Laid(at, x)
    PROVE  Standing(at, x, 1, Start)
<1> DEFINE N == Len(x.stmts)
<1>1. N \in Nat /\ x.does \in Deed /\ \A n \in 1 .. N : x.stmts[n].s \in StatementKinds
  BY InputIs
<1>2. /\ \A n \in 0 .. N : at[n] \in Nat
      /\ \A n \in 1 .. N : x.stmts[n].s # "last" => at[n] = at[n - 1] + Len(Compile(x.stmts[n]))
  BY LaidIs
<1>3. DOMAIN Start = MachineFields /\ Start.out = Undecided /\ Start.act = Nothing /\ GoodRegs(Start.regs)
  BY DEF Start, MachineFields, Undecided, GoodRegs
<1>4. Nothing.kind \in ActKinds
  BY ActsAre DEF ActKinds
<1>5. ASSUME NEW n \in 1 .. N, at[n] < 1
      PROVE  Says(x.stmts[n], x.pkt) = "yes"
  <2>1. CASE x.stmts[n].s = "last"
    BY <2>1, LastSaysYes
  <2>2. CASE x.stmts[n].s # "last"
    <3>1. Len(Compile(x.stmts[n])) \in Nat /\ Len(Compile(x.stmts[n])) # 0
      BY <1>1, CompiledIs
    <3>2. n - 1 \in 0 .. N /\ n \in 0 .. N
      BY <1>1
    <3> QED
      BY <1>2, <1>5, <2>2, <3>1, <3>2
  <2> QED
    BY <2>1, <2>2
<1>6. ASSUME NEW n \in 1 .. N, x.stmts[n].s # "last", NEW o \in 1 .. Len(Compile(x.stmts[n])),
             1 = at[n - 1] + o
      PROVE  Within(x.stmts[n], x.pkt, o, Start.regs)
  <2>1. n - 1 \in 0 .. N /\ Len(Compile(x.stmts[n])) \in Nat
    BY <1>1, CompiledIs
  <2>2. o = 1
    BY <1>2, <1>6, <2>1
  <2> QED
    BY <2>2 DEF Within
<1>7. ASSUME NEW j \in 1 .. Len(CompileDoes(x.does)) + 1, 1 = at[N] + j
      PROVE  Before(x.does, x.pkt, j, Start)
  <2>1. at[N] \in Nat
    BY <1>1, <1>2
  <2>2. j = 1
    BY <1>7, <2>1
  <2>3. Before(x.does, x.pkt, 1, Start)
    BY <1>1, <1>3, NothingDone
  <2> QED
    BY <2>2, <2>3
<1> QED
  BY <1>3, <1>4, <1>5, <1>6, <1>7 DEF Standing, Running, N

\* Before an expression of a statement.
LEMMA StatementFurther ==
    ASSUME NEW x \in Inputs, NEW at, Laid(at, x), NEW mm, NEW r, NEW i \in Nat, Standing(at, x, i, mm),
           AsReread(r[i], Received(CompileRule(x.stmts, x.does))[i]),
           NEW n \in 1 .. Len(x.stmts), x.stmts[n].s # "last",
           NEW o \in 1 .. Len(Compile(x.stmts[n])), i = at[n - 1] + o
    PROVE  Advances(x.stmts[n], x.pkt, o, mm, Exec(x.pkt, r, Sets, i, mm))
<1>1. StatementIsOf(x.stmts[n], x.pkt) /\ x.stmts[n].s \in StatementKinds
  BY InputIs
<1>2. o \in DOMAIN Compile(x.stmts[n])
  BY <1>1, CompiledIs
<1>3. Received(CompileRule(x.stmts, x.does))[i] = Compile(x.stmts[n])[o]
  BY LaidIs
<1>4. Running(mm) /\ Within(x.stmts[n], x.pkt, o, mm.regs)
  BY DEF Standing
<1>5. Reading(x.stmts[n], x.pkt, o, mm, r, i)
  BY <1>2, <1>3, <1>4 DEF Reading
<1> QED
  BY <1>1, <1>5, StatementsAdvance

LEMMA DeedFurther ==
    ASSUME NEW x \in Inputs, NEW at, Laid(at, x), NEW mm, NEW r, NEW i \in Nat, Standing(at, x, i, mm),
           AsReread(r[i], Received(CompileRule(x.stmts, x.does))[i]),
           NEW j \in 1 .. Len(CompileDoes(x.does)), i = at[Len(x.stmts)] + j
    PROVE  Does(x.does, x.pkt, j, Exec(x.pkt, r, Sets, i, mm))
<1>1. x.does \in Deed /\ AllWhole(CompileDoes(x.does))
  BY InputIs, DoesIsWhole, InputsAssumption
<1>2. j \in DOMAIN CompileDoes(x.does) /\ Len(CompileDoes(x.does)) \in Nat
  BY <1>1 DEF AllWhole
<1>3. Received(CompileRule(x.stmts, x.does))[i] = CompileDoes(x.does)[j]
  BY LaidIs
<1>4. j \in 1 .. Len(CompileDoes(x.does)) + 1
  BY <1>2
<1>5. Running(mm) /\ Before(x.does, x.pkt, j, mm)
  BY <1>4 DEF Standing
<1> QED
  BY <1>1, <1>2, <1>3, <1>5, DeedsAreDone

\* Every expression takes the matcher one further, or settles the rule.
LEMMA OneFurther ==
    ASSUME NEW x \in Inputs, NEW at, Laid(at, x), NEW mm, NEW r,
           NEW i \in 1 .. Len(Received(CompileRule(x.stmts, x.does))), Standing(at, x, i, mm),
           AsReread(r[i], Received(CompileRule(x.stmts, x.does))[i])
    PROVE  \/ Standing(at, x, i + 1, Exec(x.pkt, r, Sets, i, mm))
           \/ Settled(x, Exec(x.pkt, r, Sets, i, mm))
<1> DEFINE N == Len(x.stmts)
           L(n) == Len(Compile(x.stmts[n]))
           M == Len(CompileDoes(x.does))
           Whose(n) == x.stmts[n].s # "last"
           k == Exec(x.pkt, r, Sets, i, mm)
<1>1. N \in Nat /\ x.does \in Deed /\ \A n \in 1 .. N : x.stmts[n].s \in StatementKinds
  BY InputIs
<1>2. /\ \A n \in 0 .. N : at[n] \in Nat /\ at[n] <= at[N]
      /\ \A n \in 1 .. N : ~Whose(n) => at[n] = at[n - 1]
      /\ \A n \in 1 .. N : Whose(n) => at[n] = at[n - 1] + L(n)
      /\ Len(Received(CompileRule(x.stmts, x.does))) = at[N] + M
      /\ \A l \in 1 .. at[N] : \E n \in 1 .. N : Whose(n) /\ \E o \in 1 .. L(n) : l = at[n - 1] + o
  BY LaidIs
<1>3. AllWhole(CompileDoes(x.does))
  BY DoesIsWhole, InputsAssumption
<1>4. M \in Nat
  BY <1>3 DEF AllWhole
<1>5. ASSUME NEW n \in 1 .. N
      PROVE  L(n) \in Nat /\ L(n) # 0 /\ n - 1 \in 0 .. N /\ n \in 0 .. N
  BY <1>1, CompiledIs
<1>6. N \in 0 .. N /\ at[N] \in Nat /\ i \in Nat /\ i >= 1 /\ i <= at[N] + M
  BY <1>1, <1>2, <1>4
<1>7. ASSUME NEW n \in 1 .. N, Whose(n), NEW o \in 1 .. L(n), i = at[n - 1] + o
      PROVE  Advances(x.stmts[n], x.pkt, o, mm, k)
  BY <1>6, <1>7, StatementFurther
<1>8. ASSUME NEW j \in 1 .. M, i = at[N] + j
      PROVE  Does(x.does, x.pkt, j, k)
  BY <1>6, <1>8, DeedFurther
<1>9. /\ mm.act.kind \in ActKinds
      /\ \A n \in 1 .. N : at[n] < i => Says(x.stmts[n], x.pkt) = "yes"
      /\ i <= at[N] + 1 => mm.act = Nothing
  BY DEF Standing
<1>10. \A n \in 1 .. N : Whose(n) <=> x.stmts[n].s # "last"
  OBVIOUS
<1> HIDE DEF N, L, M, Whose, k
<1>11. ASSUME k.out = Undecided, DOMAIN k = MachineFields, GoodRegs(k.regs), k.act.kind \in ActKinds,
              i <= at[N] => k.act = Nothing
       PROVE  Standing(at, x, i + 1, k)
  <2>1. ASSUME NEW n \in 1 .. N, at[n] < i + 1
        PROVE  Says(x.stmts[n], x.pkt) = "yes"
    <3>1. CASE at[n] < i
      BY <1>9, <3>1
    <3>2. CASE at[n] = i /\ Whose(n)
      <4>1. L(n) \in 1 .. L(n) /\ i = at[n - 1] + L(n)
        BY <1>2, <1>5, <3>2
      <4>2. Advances(x.stmts[n], x.pkt, L(n), mm, k)
        BY <1>7, <3>2, <4>1
      <4> QED
        BY <1>11, <4>2 DEF Advances, L, Undecided
    <3>3. CASE ~Whose(n)
      BY <1>10, <3>3, LastSaysYes
    <3>4. at[n] \in Nat
      BY <1>2, <1>5
    <3> QED
      BY <1>6, <2>1, <3>1, <3>2, <3>3, <3>4
  <2>2. ASSUME NEW n \in 1 .. N, Whose(n), NEW o \in 1 .. L(n), i + 1 = at[n - 1] + o
        PROVE  Within(x.stmts[n], x.pkt, o, k.regs)
    <3>1. CASE o = 1
      BY <3>1 DEF Within
    <3>2. CASE o # 1
      <4> DEFINE q == o - 1
      <4>1. at[n - 1] \in Nat /\ L(n) \in Nat
        BY <1>2, <1>5
      <4>2. q \in 1 .. L(n) /\ i = at[n - 1] + q /\ q # L(n) /\ q + 1 = o
        BY <1>6, <2>2, <3>2, <4>1
      <4> HIDE DEF q
      <4>3. Advances(x.stmts[n], x.pkt, q, mm, k)
        BY <1>7, <2>2, <4>2
      <4> QED
        BY <1>11, <4>2, <4>3 DEF Advances, L, Undecided
    <3> QED
      BY <3>1, <3>2
  <2>3. ASSUME NEW j \in 1 .. M + 1, i + 1 = at[N] + j
        PROVE  Before(x.does, x.pkt, j, k)
    <3>1. CASE j = 1
      <4>1. i <= at[N]
        BY <1>6, <2>3, <3>1
      <4>2. Before(x.does, x.pkt, 1, k)
        BY <1>1, <1>11, <4>1, NothingDone
      <4> QED
        BY <3>1, <4>2
    <3>2. CASE j # 1
      <4> DEFINE q == j - 1
      <4>1. q \in 1 .. M /\ i = at[N] + q /\ q + 1 = j
        BY <1>4, <1>6, <2>3, <3>2
      <4> HIDE DEF q
      <4>2. Does(x.does, x.pkt, q, k)
        BY <1>8, <4>1
      <4> QED
        BY <1>11, <4>1, <4>2 DEF Does, Undecided
    <3> QED
      BY <3>1, <3>2
  <2>4. i + 1 <= at[N] + 1 => k.act = Nothing
    BY <1>6, <1>11
  <2> QED
    BY <1>10, <1>11, <2>1, <2>2, <2>3, <2>4 DEF Standing, Running, N, L, M
<1>12. CASE i <= at[N]
  <2>1. i \in 1 .. at[N]
    BY <1>6, <1>12
  <2>2. PICK n \in 1 .. N : Whose(n) /\ \E o \in 1 .. L(n) : i = at[n - 1] + o
    BY <1>2, <2>1
  <2>3. PICK o \in 1 .. L(n) : i = at[n - 1] + o
    BY <2>2
  <2>4. Advances(x.stmts[n], x.pkt, o, mm, k)
    BY <1>7, <2>2, <2>3
  <2>5. mm.act = Nothing
    BY <1>6, <1>9, <1>12
  <2>6. DOMAIN k = MachineFields /\ GoodRegs(k.regs) /\ k.act = Nothing /\ k.act.kind \in ActKinds
    BY <1>9, <2>4, <2>5 DEF Advances
  <2>7. CASE k.out = Undecided
    BY <1>11, <2>6, <2>7 DEF k
  <2>8. CASE k.out # Undecided
    <3>1. \/ k.out = "NoMatch" /\ Says(x.stmts[n], x.pkt) = "no"
          \/ k.out \in {"Unknown", "Skipped"} /\ Says(x.stmts[n], x.pkt) = "unknown"
      BY <2>4, <2>8 DEF Advances
    <3>2. Settled(x, k)
      BY <2>6, <3>1 DEF Settled, SaidOf, N
    <3> QED
      BY <3>2 DEF k
  <2> QED
    BY <2>7, <2>8
<1>13. CASE i > at[N]
  <2> DEFINE j == i - at[N]
  <2>1. j \in 1 .. M /\ i = at[N] + j
    BY <1>4, <1>6, <1>13
  <2> HIDE DEF j
  <2>2. Does(x.does, x.pkt, j, k)
    BY <1>8, <2>1
  <2>3. ~(i <= at[N])
    BY <1>6, <1>13
  <2>4. CASE k.out = Undecided
    <3>1. Standing(at, x, i + 1, k)
      BY <1>11, <2>2, <2>3, <2>4 DEF Does
    <3> QED
      BY <3>1 DEF k
  <2>5. CASE k.out # Undecided
    <3>1. Settled(x, k)
      BY <2>2, <2>5 DEF Does, Settled
    <3> QED
      BY <3>1 DEF k
  <2> QED
    BY <2>4, <2>5
<1> QED
  BY <1>6, <1>12, <1>13

\* After the last expression everything has been said and done.
LEMMA StandsAtEnd ==
    ASSUME NEW x \in Inputs, NEW at, Laid(at, x), NEW mm,
           Standing(at, x, Len(Received(CompileRule(x.stmts, x.does))) + 1, mm)
    PROVE  /\ \A n \in 1 .. Len(x.stmts) : Says(x.stmts[n], x.pkt) = "yes"
           /\ ~NotFollowed(x.does) /\ (~Portless(x.does) => mm.act = Outcome(x.does, x.pkt))
<1> DEFINE N == Len(x.stmts)  M == Len(CompileDoes(x.does))
           i == Len(Received(CompileRule(x.stmts, x.does))) + 1
<1>1. N \in Nat /\ \A n \in 0 .. N : at[n] \in Nat /\ at[n] <= at[N]
  BY InputIs, LaidIs
<1>2. Len(Received(CompileRule(x.stmts, x.does))) = at[N] + M
  BY LaidIs
<1>3. AllWhole(CompileDoes(x.does))
  BY DoesIsWhole, InputsAssumption
<1>4. M \in Nat
  BY <1>3 DEF AllWhole
<1>5. at[N] \in Nat
  BY <1>1
<1>6. i = at[N] + (M + 1) /\ M + 1 \in 1 .. M + 1
  BY <1>2, <1>4, <1>5
<1>7. /\ \A n \in 1 .. N : at[n] < i => Says(x.stmts[n], x.pkt) = "yes"
      /\ \A j \in 1 .. M + 1 : i = at[N] + j => Before(x.does, x.pkt, j, mm)
  BY DEF Standing
<1>8. ASSUME NEW n \in 1 .. N
      PROVE  Says(x.stmts[n], x.pkt) = "yes"
  <2>1. at[n] \in Nat /\ at[n] <= at[N]
    BY <1>1
  <2> HIDE DEF i
  <2>2. at[n] < i
    BY <1>4, <1>5, <1>6, <2>1
  <2> QED
    BY <1>7, <2>2
<1>9. Before(x.does, x.pkt, M + 1, mm)
  BY <1>6, <1>7
<1> QED
  BY <1>8, <1>9 DEF Before

\* The matcher stands in the rule as its author wrote it until the rule is
\* decided, and then as the author meant it.
SimInv ==
    /\ rule \in Seq(Range(rule)) /\ schema \in Int
    /\ pc \in 1 .. Len(rule) + 1
    /\ GoodRegs(m.regs) /\ m.act.kind \in ActKinds
    /\ m.out = Undecided => \E at : Laid(at, input) /\ Standing(at, input, pc, m)
    /\ m.out = "NoMatch" => SaidOf(input, "no")
    /\ m.out \in {"Unknown", "Skipped"} => SaidOf(input, "unknown") \/ NotFollowed(input.does)
    /\ m.out = "Match" =>
          /\ \A n \in 1 .. Len(input.stmts) : Says(input.stmts[n], input.pkt) = "yes"
          /\ ~NotFollowed(input.does)
          /\ ~Portless(input.does) => m.act = Outcome(input.does, input.pkt)

LEMMA ChangedSeq ==
    ASSUME NEW r, r \in Seq(Range(r)), NEW t, t = [i \in DOMAIN r |-> t[i]]
    PROVE  t \in Seq(Range(t)) /\ Len(t) = Len(r)
<1>1. DOMAIN r = 1 .. Len(r) /\ Len(r) \in Nat
  OBVIOUS
<1>2. \A i \in 1 .. Len(r) : t[i] \in Range(t)
  BY <1>1 DEF Range
<1>3. t = [i \in 1 .. Len(r) |-> t[i]]
  BY <1>1
<1> QED
  BY <1>1, <1>2, <1>3

\* The rule is as long as what the kernel returned.
LEMMA AsLong ==
    ASSUME PathInv, FaithInv, SimInv
    PROVE  Len(rule) = Len(Received(Kernel)) /\ Len(rule) \in Nat
<1> DEFINE got == Received(Kernel)
<1>1. AllWhole(Kernel)
  BY KernelReceived
<1>2. got \in Seq(Range(Kernel))
  BY <1>1, SublistSelects DEF AllWhole, Received
<1>3. rule \in Seq(Range(rule)) /\ DOMAIN rule = DOMAIN got
  BY DEF SimInv, FaithInv
<1> HIDE DEF got
<1>4. /\ DOMAIN rule = 1 .. Len(rule) /\ Len(rule) \in Nat
      /\ DOMAIN got = 1 .. Len(got) /\ Len(got) \in Nat
  BY <1>2, <1>3
<1>5. Len(rule) = Len(got)
  <2> DEFINE a == Len(rule)  b == Len(got)
  <2>1. a \in Nat /\ b \in Nat /\ 1 .. a = 1 .. b
    BY <1>3, <1>4
  <2> HIDE DEF a, b
  <2>2. CASE a < b
    <3>1. b \in 1 .. b /\ b \notin 1 .. a
      BY <2>1, <2>2
    <3> QED
      BY <2>1, <3>1
  <2>3. CASE b < a
    <3>1. a \in 1 .. a /\ a \notin 1 .. b
      BY <2>1, <2>3
    <3> QED
      BY <2>1, <3>1
  <2>4. a = b
    BY <2>1, <2>2, <2>3
  <2> QED
    BY <2>4 DEF a, b
<1> QED
  BY <1>4, <1>5 DEF got

LEMMA SimInvInit == Init => SimInv
<1> SUFFICES ASSUME Init PROVE SimInv
  OBVIOUS
<1>1. PathInv /\ m = Start /\ pc = 1 /\ schema = SchemaVersion /\ input \in Inputs /\ doc = "live"
  BY PathInvInit DEF Init
<1>2. rule \in Seq(Range(rule))
  BY <1>1 DEF PathInv, GoodNow, GoodRule
<1>3. pc \in 1 .. Len(rule) + 1 /\ schema \in Int
  BY <1>1, <1>2 DEF SchemaVersion
<1>4. PICK at : Laid(at, input)
  BY <1>1, KernelIsLaid
<1>5. Standing(at, input, pc, m)
  BY <1>1, <1>4, StandsAtFirst
<1>6. GoodRegs(m.regs) /\ m.act.kind \in ActKinds /\ m.out = Undecided
  BY <1>5 DEF Standing, Running
<1> QED
  BY <1>2, <1>3, <1>4, <1>5, <1>6 DEF SimInv, Undecided

\* Nothing changes but the document.
LEMMA DocumentOnly ==
    ASSUME SimInv, UNCHANGED <<input, pc, m>>, schema' \in Int,
           rule' = rule \/ rule' = [i \in DOMAIN rule |-> rule'[i]]
    PROVE  SimInv'
<1>1. rule' \in Seq(Range(rule')) /\ Len(rule') = Len(rule)
  <2>1. CASE rule' = rule
    BY <2>1 DEF SimInv
  <2>2. CASE rule' = [i \in DOMAIN rule |-> rule'[i]]
    <3>1. rule \in Seq(Range(rule))
      BY DEF SimInv
    <3> QED
      BY <2>2, <3>1, ChangedSeq
  <2> QED
    BY <2>1, <2>2
<1> QED
  BY <1>1 DEF SimInv

LEMMA ExecutesSim ==
    ASSUME PathInv, FaithInv, SimInv, NEW kinds, Executes(kinds)
    PROVE  SimInv'
<1> DEFINE n == Exec(input.pkt, rule, Sets, pc, m)
           got == Received(Kernel)
<1>1. /\ input \in Inputs /\ GoodNow /\ doc \in {"live", "read"} /\ m.out = Undecided
      /\ pc \in Nat /\ pc >= 1 /\ pc <= Len(rule)
      /\ pc' = pc + 1 /\ UNCHANGED <<input, schema, rule>>
  BY DEF Executes, Evaluating, PathInv, Undecided
<1>2. Len(rule) = Len(got) /\ Len(rule) \in Nat
  BY AsLong
<1>3. pc \in DOMAIN rule /\ pc \in DOMAIN got /\ pc \in 1 .. Len(got)
  <2>1. DOMAIN rule = 1 .. Len(rule)
    BY <1>1, GoodHasAll DEF GoodNow
  <2>2. DOMAIN rule = DOMAIN got
    BY DEF FaithInv
  <2> QED
    BY <1>1, <1>2, <2>1, <2>2
<1>4. m' = n
  BY <1>1, <1>3, GoodHasAll DEF Executes, GoodNow, Validate
<1>5. AsReread(rule[pc], got[pc])
  BY <1>1, <1>3 DEF FaithInv, AsReread
<1>6. PICK at : Laid(at, input) /\ Standing(at, input, pc, m)
  BY <1>1 DEF SimInv
<1>7. Standing(at, input, pc + 1, n) \/ Settled(input, n)
  BY <1>1, <1>3, <1>5, <1>6, OneFurther DEF Kernel
<1> HIDE DEF n
<1>8. rule' \in Seq(Range(rule')) /\ schema' \in Int /\ pc' \in 1 .. Len(rule') + 1
  <2>1. rule \in Seq(Range(rule)) /\ schema \in Int
    BY DEF SimInv
  <2>2. pc + 1 \in 1 .. Len(rule) + 1
    BY <1>1, <1>2
  <2> QED
    BY <1>1, <2>1, <2>2
<1>9. CASE Standing(at, input, pc + 1, n)
  <2>1. n.out = Undecided /\ GoodRegs(n.regs) /\ n.act.kind \in ActKinds
    BY <1>9 DEF Standing, Running
  <2>2. Laid(at, input') /\ Standing(at, input', pc', m')
    BY <1>1, <1>4, <1>6, <1>9
  <2>3. m'.out = Undecided /\ GoodRegs(m'.regs) /\ m'.act.kind \in ActKinds
    BY <1>4, <2>1
  <2> QED
    BY <1>8, <2>2, <2>3 DEF SimInv, Undecided
<1>10. CASE Settled(input, n)
  <2>1. Settled(input', m')
    BY <1>1, <1>4, <1>10
  <2> QED
    BY <1>8, <2>1 DEF SimInv, Settled, Undecided
<1> QED
  BY <1>7, <1>9, <1>10

LEMMA SimInvNext == PathInv /\ FaithInv /\ SimInv /\ [Next]_vars => SimInv'
<1> SUFFICES ASSUME PathInv, FaithInv, SimInv, [Next]_vars
             PROVE  SimInv'
  OBVIOUS
<1>1. schema \in Int /\ SchemaVersion \in Int /\ SchemaVersion + 1 \in Int /\ 0 \in Int
  BY DEF SimInv, SchemaVersion
<1>2. CASE Store
  <2>1. PICK how : Stores(SchemaVersion) /\ rule' = [i \in DOMAIN rule |-> Recorded(rule[i], how)]
    BY <1>2 DEF Store
  <2>2. rule' = [i \in DOMAIN rule |-> rule'[i]]
    BY <2>1
  <2> QED
    BY <1>1, <2>1, <2>2, DocumentOnly DEF Stores
<1>3. CASE Damage
  <2>1. PICK i \in DOMAIN rule : Stores(SchemaVersion) /\ rule' = [rule EXCEPT ![i] = Bare(@.k)]
    BY <1>3 DEF Damage
  <2>2. rule' = [j \in DOMAIN rule |-> rule'[j]]
    BY <2>1
  <2> QED
    BY <1>1, <2>1, <2>2, DocumentOnly DEF Stores
<1>4. CASE WriteOtherVersion
  <2>1. PICK v \in {0, SchemaVersion + 1} : Stores(v) /\ rule' = rule
    BY <1>4 DEF WriteOtherVersion
  <2> QED
    BY <1>1, <2>1, DocumentOnly DEF Stores
<1>5. CASE ReadBack
  <2>1. rule' = Redecode(rule) /\ UNCHANGED <<input, schema, pc, m>>
    BY <1>5 DEF ReadBack
  <2>2. rule' = [i \in DOMAIN rule |-> rule'[i]]
    BY <2>1 DEF Redecode
  <2> QED
    BY <1>1, <2>1, <2>2, DocumentOnly
<1>6. CASE Refuse
  BY <1>1, <1>6, DocumentOnly DEF Refuse
<1>7. CASE Load \/ Mask \/ Compare \/ LookUp \/ Extend \/ DoIt \/ PassOver \/ GiveUp
  BY <1>7, ExecutesSim DEF Load, Mask, Compare, LookUp, Extend, DoIt, PassOver, GiveUp
<1>8. CASE RunOut
  <2>1. /\ m.out = Undecided /\ pc > Len(rule) /\ m' = Ends(m, "Match")
        /\ UNCHANGED <<input, schema, rule, pc>>
    BY <1>8 DEF RunOut, Evaluating, Undecided
  <2>2. DOMAIN m = {"regs", "act", "out"} /\ input \in Inputs
    BY DEF PathInv
  <2>3. m'.out = "Match" /\ m'.regs = m.regs /\ m'.act = m.act
    BY <2>1, <2>2 DEF Ends
  <2>4. Len(rule) = Len(Received(Kernel)) /\ Len(rule) \in Nat
    BY AsLong
  <2>5. pc = Len(Received(Kernel)) + 1
    BY <2>1, <2>4 DEF SimInv
  <2>6. PICK at : Laid(at, input) /\ Standing(at, input, pc, m)
    BY <2>1 DEF SimInv
  <2>7. /\ \A n \in 1 .. Len(input.stmts) : Says(input.stmts[n], input.pkt) = "yes"
        /\ ~NotFollowed(input.does) /\ (~Portless(input.does) => m.act = Outcome(input.does, input.pkt))
    BY <2>2, <2>5, <2>6, StandsAtEnd DEF Kernel
  <2>8. /\ rule' \in Seq(Range(rule')) /\ schema' \in Int /\ pc' \in 1 .. Len(rule') + 1
        /\ GoodRegs(m'.regs) /\ m'.act.kind \in ActKinds
    BY <2>1, <2>3 DEF SimInv
  <2> QED
    BY <2>1, <2>3, <2>7, <2>8 DEF SimInv, Undecided
<1>9. CASE Decided \/ UNCHANGED vars
  <2>1. UNCHANGED <<input, schema, rule, pc, m>>
    BY <1>9 DEF Decided, vars
  <2> QED
    BY <1>1, <2>1, DocumentOnly
<1> QED
  BY <1>2, <1>3, <1>4, <1>5, <1>6, <1>7, <1>8, <1>9 DEF Next

\* Where the matcher stands in a rule, and what it has decided of it, on every
\* path from the kernel or from a document.
THEOREM SimInvariance == Spec => [](PathInv /\ FaithInv /\ SimInv)
<1>1. Init => PathInv /\ FaithInv /\ SimInv
  BY PathInvInit, FaithInvInit, SimInvInit
<1>2. PathInv /\ FaithInv /\ SimInv /\ [Next]_vars => (PathInv /\ FaithInv /\ SimInv)'
  BY PathInvNext, FaithInvNext, SimInvNext
<1> QED
  BY <1>1, <1>2, PTL DEF Spec

LEMMA SaidIs ==
    ASSUME PathInv, NEW answer
    PROVE  Said(answer) <=> SaidOf(input, answer)
<1>1. DOMAIN input.stmts = 1 .. Len(input.stmts)
  BY InputIs DEF PathInv
<1> QED
  BY <1>1 DEF Said, SaidOf

\* The registers hold bytes, register 0 is never loaded, and an action is one
\* that MatchRule can hand to the walk.
THEOREM RegistersHoldBytes == Spec => []TypeOK
<1>1. PathInv /\ SimInv => TypeOK
  <2> SUFFICES ASSUME PathInv, SimInv PROVE TypeOK
    OBVIOUS
  <2>1. doc \in {"live", "stored", "read", "refused"} /\ schema \in Int /\ pc \in 1 .. Len(rule) + 1
    BY DEF PathInv, SimInv
  <2>2. DOMAIN m.regs \subseteq {1, 2} /\ \A r \in DOMAIN m.regs : m.regs[r] \in Seq(Byte)
    BY DEF SimInv, GoodRegs
  <2>3. {1, 2} \subseteq 0 .. 2 /\ Byte = 0 .. 255
    BY DEF Byte
  <2>4. DOMAIN m.regs \subseteq 0 .. 2 /\ \A r \in DOMAIN m.regs : m.regs[r] \in Seq(0 .. 255)
    BY <2>2, <2>3
  <2>5. m.out \in {"", "Match", "NoMatch", "Skipped", "Unknown", "Panic"}
    BY DEF PathInv, Outcomes
  <2>6. m.act.kind \in VerdictKinds \union {"none", "reject", "dnat"}
    BY DEF SimInv, ActKinds
  <2> QED
    BY <2>1, <2>4, <2>5, <2>6 DEF TypeOK
<1> QED
  BY <1>1, SimInvariance, PTL

\* A rule that MatchRule decides is decided as its author meant it, whatever he
\* wrote in it and about which packet, and whichever build's document it was
\* read from: no verdict is built on a guess (match.go:17-19).
THEOREM DecidedAsWritten == Spec => []DecisionsAreTheAuthors
<1>1. PathInv /\ SimInv => DecisionsAreTheAuthors
  <2> SUFFICES ASSUME PathInv, SimInv PROVE DecisionsAreTheAuthors
    OBVIOUS
  <2>1. ASSUME m.out = "NoMatch"
        PROVE  Said("no")
    BY <2>1, SaidIs DEF SimInv
  <2>2. ASSUME m.out = "Match"
        PROVE  ~Said("no") /\ ~Said("unknown")
    <3>1. \A n \in 1 .. Len(input.stmts) : Says(input.stmts[n], input.pkt) = "yes"
      BY <2>2 DEF SimInv
    <3>2. ~SaidOf(input, "no") /\ ~SaidOf(input, "unknown")
      BY <3>1 DEF SaidOf
    <3> QED
      BY <3>2, SaidIs
  <2> QED
    BY <2>1, <2>2 DEF DecisionsAreTheAuthors
<1> QED
  BY <1>1, SimInvariance, PTL

\* MatchRule gives up only on what it declares it cannot read: a statement of
\* unknown meaning, or an action it does not follow.
THEOREM GivesUpForACause == Spec => []UnknownHasACause
<1>1. PathInv /\ SimInv => UnknownHasACause
  <2> SUFFICES ASSUME PathInv, SimInv, m.out \in {"Unknown", "Skipped"}
               PROVE  Said("unknown") \/ Unfollowed(input.does)
    BY DEF UnknownHasACause
  <2>1. SaidOf(input, "unknown") \/ NotFollowed(input.does)
    BY DEF SimInv
  <2>2. NotFollowed(input.does) => Unfollowed(input.does)
    BY DEF NotFollowed, Unfollowed
  <2> QED
    BY <2>1, <2>2, SaidIs
<1> QED
  BY <1>1, SimInvariance, PTL

LEMMA WrittenIsOutcome ==
    ASSUME input \in Inputs, ~NotFollowed(input.does)
    PROVE  Written(input.does) = Outcome(input.does, input.pkt)
<1> DEFINE d == input.does
<1>1. d.d \in DoesKinds \ {"snat", "xt-dnat-0"}
      /\ (d.d = "xt" => d.name \in {"LOG", "REJECT", "MASQUERADE"})
  BY InputIs DEF NotFollowed, DoesKinds
<1> HIDE DEF d
<1>2. CASE d.d = "none"
  BY <1>2 DEF Written, Outcome, d
<1>3. CASE d.d = "verdict"
  BY <1>3 DEF Written, Outcome, d
<1>4. CASE d.d = "reject"
  <2>1. Written(d) = Act("reject", "", NoDNAT) /\ Outcome(d, input.pkt) = Refusing
    BY <1>4, Zenon DEF Written, Outcome
  <2> QED
    BY <2>1, Zenon DEF Refusing, d
<1>5. CASE d.d = "xt"
  <2>1. CASE d.name = "LOG"
    BY <1>5, <2>1 DEF Written, Outcome, d
  <2>2. CASE d.name = "REJECT"
    <3>1. Written(d) = Act("drop", "", NoDNAT) /\ Outcome(d, input.pkt) = Doing("drop")
      BY <1>5, <2>2, Zenon DEF Written, Outcome
    <3> QED
      BY <3>1, Zenon DEF Doing, d
  <2>3. CASE d.name = "MASQUERADE"
    <3>1. Written(d) = Act("accept", "", NoDNAT) /\ Outcome(d, input.pkt) = Doing("accept")
      BY <1>5, <2>3, Zenon DEF Written, Outcome
    <3> QED
      BY <3>1, Zenon DEF Doing, d
  <2> QED
    BY <1>1, <1>5, <2>1, <2>2, <2>3
<1>6. CASE d.d \in {"dnat", "xt-dnat"}
  <2> DEFINE port == IF d.port = 0 THEN input.pkt.dport ELSE d.port
  <2>1. Written(d) = Act("dnat", "", [ip |-> d.to, port |-> port])
    BY <1>6, Zenon DEF Written
  <2>2. Outcome(d, input.pkt) = Rewriting(d.to, port)
    BY <1>6 DEF Outcome
  <2> HIDE DEF port
  <2> QED
    BY <2>1, <2>2, Zenon DEF Rewriting, d
<1> QED
  BY <1>1, <1>2, <1>3, <1>4, <1>5, <1>6 DEF DoesKinds

\* A matching rule does what it says, to the address and the port it says, but
\* for a rewrite of the iptables kind without a port, which xtTarget takes to
\* be one to port 0.
THEOREM DoneAsWritten ==
    Spec => [](~(input.does.d = "xt-dnat" /\ input.does.port = 0) => DoesWhatIsWritten)
<1>1. PathInv /\ SimInv => (~Portless(input.does) => DoesWhatIsWritten)
  <2> SUFFICES ASSUME PathInv, SimInv, ~Portless(input.does), m.out = "Match"
               PROVE  m.act = Written(input.does)
    BY DEF DoesWhatIsWritten
  <2>1. ~NotFollowed(input.does) /\ m.act = Outcome(input.does, input.pkt)
    BY DEF SimInv
  <2> QED
    BY <2>1, WrittenIsOutcome DEF PathInv
<1>2. PathInv /\ SimInv =>
          (~(input.does.d = "xt-dnat" /\ input.does.port = 0) => DoesWhatIsWritten)
  BY <1>1 DEF Portless
<1> QED
  BY <1>2, SimInvariance, PTL
=============================================================================
