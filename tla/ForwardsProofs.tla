---------------------------- MODULE ForwardsProofs --------------------------
(***************************************************************************)
(* The scan for rewritten ports keeps its promise for every ruleset, every *)
(* nesting of chains and every packet: what a rule would rewrite gets one  *)
(* row, or a note.                                                         *)
(***************************************************************************)
EXTENDS Forwards, ListProofs

(***************************************************************************)
(* A recursive function is what its definition says once there is one; it  *)
(* is built one argument at a time (as ListProofs!SublistIsDefined).       *)
(***************************************************************************)
\* No end, no decision yet.
Blank == ""

LEMMA BlankIsNone ==
    Blank \notin {"rewrites", "walks", "nothing", "NoMatch", "Unknown", "Skipped", "Match"}
BY DEF Blank

NextRead(rule, sets, f, g, i) ==
    IF i = 0 THEN Unread(f)
    ELSE IF g[i - 1].end # "" THEN g[i - 1]
    ELSE ReadExpr(g[i - 1], rule[i], sets)

LEMMA ReadIsDefined ==
    ASSUME NEW rule, Len(rule) \in Nat, NEW sets, NEW f
    PROVE  \E g : g = [i \in 0 .. Len(rule) |-> NextRead(rule, sets, f, g, i)]
<1> DEFINE next(g, i) == NextRead(rule, sets, f, g, i)
           D == {m \in Nat : \E g : g = [i \in 0 .. m |-> next(g, i)]}
<1>1. 0 \in D
  <2> DEFINE h == [i \in 0 .. 0 |-> next(<<>>, 0)]
  <2>1. \A i \in 0 .. 0 : i = 0 /\ next(h, i) = next(<<>>, 0)
    BY DEF NextRead
  <2> HIDE DEF next
  <2>2. h = [i \in 0 .. 0 |-> next(h, i)]
    BY <2>1
  <2> QED
    BY <2>2
<1>2. ASSUME NEW m \in Nat, m \in D
      PROVE  m + 1 \in D
  <2>1. PICK g : g = [i \in 0 .. m |-> next(g, i)]
    BY <1>2
  <2> DEFINE h == [i \in 0 .. m + 1 |-> IF i <= m THEN g[i] ELSE next(g, i)]
  <2>2. \A i \in 0 .. m + 1 : h[i] = next(g, i)
    <3>1. \A i \in 0 .. m : g[i] = next(g, i)
      BY <2>1
    <3> HIDE DEF next
    <3> QED
      BY <3>1
  <2>3. \A i \in 0 .. m + 1 : h[i] = next(h, i)
    <3> SUFFICES ASSUME NEW i \in 0 .. m + 1
                 PROVE  h[i] = next(h, i)
      OBVIOUS
    <3>1. CASE i = 0
      BY <2>2, <3>1 DEF NextRead
    <3>2. CASE i # 0
      <4>1. i - 1 \in 0 .. m /\ i - 1 \in 0 .. m + 1 /\ i - 1 <= m
        BY <3>2
      <4>2. h[i - 1] = g[i - 1]
        BY <4>1
      <4>3. h[i] = next(g, i)
        BY <2>2
      <4> HIDE DEF h
      <4> QED
        BY <3>2, <4>2, <4>3 DEF NextRead
    <3> QED
      BY <3>1, <3>2
  <2>4. h = [i \in 0 .. m + 1 |-> h[i]]
    OBVIOUS
  <2> HIDE DEF h, next
  <2>5. h = [i \in 0 .. m + 1 |-> next(h, i)]
    BY <2>3, <2>4
  <2> QED
    BY <2>5
<1> HIDE DEF D
<1>3. Len(rule) \in D
  BY <1>1, <1>2, Induction
<1> QED
  BY <1>3 DEF D

\* The scan of a rule, expression by expression.
LEMMA ReadSteps ==
    ASSUME NEW rule, Len(rule) \in Nat, NEW sets, NEW f
    PROVE  \E g : /\ ReadRule(rule, sets, f) = g[Len(rule)]
                  /\ \A i \in 0 .. Len(rule) : g[i] = NextRead(rule, sets, f, g, i)
<1> DEFINE next(g, i) == NextRead(rule, sets, f, g, i)
           read == CHOOSE g : g = [i \in 0 .. Len(rule) |-> next(g, i)]
<1>1. read = [i \in 0 .. Len(rule) |-> next(read, i)]
  <2>1. \E g : g = [i \in 0 .. Len(rule) |-> next(g, i)]
    BY ReadIsDefined
  <2> HIDE DEF next
  <2> QED
    BY <2>1
<1>2. ReadRule(rule, sets, f) = read[Len(rule)]
  BY DEF ReadRule, NextRead
<1> HIDE DEF read
<1>3. \A i \in 0 .. Len(rule) : read[i] = next(read, i)
  BY <1>1
<1> QED
  BY <1>2, <1>3

NextAfter(pkt, rule, sets, g, i) ==
    IF i = 0 THEN Start
    ELSE IF g[i - 1].out # "" THEN g[i - 1]
    ELSE Exec(pkt, rule, sets, i, g[i - 1])

LEMMA AfterIsDefined ==
    ASSUME NEW pkt, NEW rule, Len(rule) \in Nat, NEW sets
    PROVE  \E g : g = [i \in 0 .. Len(rule) |-> NextAfter(pkt, rule, sets, g, i)]
<1> DEFINE next(g, i) == NextAfter(pkt, rule, sets, g, i)
           D == {m \in Nat : \E g : g = [i \in 0 .. m |-> next(g, i)]}
<1>1. 0 \in D
  <2> DEFINE h == [i \in 0 .. 0 |-> next(<<>>, 0)]
  <2>1. \A i \in 0 .. 0 : i = 0 /\ next(h, i) = next(<<>>, 0)
    BY DEF NextAfter
  <2> HIDE DEF next
  <2>2. h = [i \in 0 .. 0 |-> next(h, i)]
    BY <2>1
  <2> QED
    BY <2>2
<1>2. ASSUME NEW m \in Nat, m \in D
      PROVE  m + 1 \in D
  <2>1. PICK g : g = [i \in 0 .. m |-> next(g, i)]
    BY <1>2
  <2> DEFINE h == [i \in 0 .. m + 1 |-> IF i <= m THEN g[i] ELSE next(g, i)]
  <2>2. \A i \in 0 .. m + 1 : h[i] = next(g, i)
    <3>1. \A i \in 0 .. m : g[i] = next(g, i)
      BY <2>1
    <3> HIDE DEF next
    <3> QED
      BY <3>1
  <2>3. \A i \in 0 .. m + 1 : h[i] = next(h, i)
    <3> SUFFICES ASSUME NEW i \in 0 .. m + 1
                 PROVE  h[i] = next(h, i)
      OBVIOUS
    <3>1. CASE i = 0
      BY <2>2, <3>1 DEF NextAfter
    <3>2. CASE i # 0
      <4>1. i - 1 \in 0 .. m /\ i - 1 \in 0 .. m + 1 /\ i - 1 <= m
        BY <3>2
      <4>2. h[i - 1] = g[i - 1]
        BY <4>1
      <4>3. h[i] = next(g, i)
        BY <2>2
      <4> HIDE DEF h
      <4> QED
        BY <3>2, <4>2, <4>3 DEF NextAfter
    <3> QED
      BY <3>1, <3>2
  <2>4. h = [i \in 0 .. m + 1 |-> h[i]]
    OBVIOUS
  <2> HIDE DEF h, next
  <2>5. h = [i \in 0 .. m + 1 |-> next(h, i)]
    BY <2>3, <2>4
  <2> QED
    BY <2>5
<1> HIDE DEF D
<1>3. Len(rule) \in D
  BY <1>1, <1>2, Induction
<1> QED
  BY <1>3 DEF D

\* The match of a rule, expression by expression.
LEMMA MatchSteps ==
    ASSUME NEW pkt, NEW rule, Len(rule) \in Nat, NEW sets
    PROVE  \E g : /\ MatchRule(pkt, rule, sets).out =
                        (IF g[Len(rule)].out = Blank THEN "Match" ELSE g[Len(rule)].out)
                  /\ MatchRule(pkt, rule, sets).act = g[Len(rule)].act
                  /\ \A i \in 0 .. Len(rule) : g[i] = NextAfter(pkt, rule, sets, g, i)
<1> DEFINE next(g, i) == NextAfter(pkt, rule, sets, g, i)
           after == CHOOSE g : g = [i \in 0 .. Len(rule) |-> next(g, i)]
           last == after[Len(rule)]
<1>1. after = [i \in 0 .. Len(rule) |-> next(after, i)]
  <2>1. \E g : g = [i \in 0 .. Len(rule) |-> next(g, i)]
    BY AfterIsDefined
  <2> HIDE DEF next
  <2> QED
    BY <2>1
<1>2. MatchRule(pkt, rule, sets) =
          [out |-> IF last.out = Blank THEN "Match" ELSE last.out, act |-> last.act]
  BY DEF MatchRule, NextAfter, Blank
<1> HIDE DEF after
<1>3. \A i \in 0 .. Len(rule) : after[i] = next(after, i)
  BY <1>1
<1>4. last = after[Len(rule)]
  OBVIOUS
<1> HIDE DEF last
<1>5. /\ MatchRule(pkt, rule, sets).out = (IF last.out = Blank THEN "Match" ELSE last.out)
      /\ MatchRule(pkt, rule, sets).act = last.act
  <2> DEFINE o == IF last.out = Blank THEN "Match" ELSE last.out
             a == last.act
  <2> HIDE DEF o, a
  <2>1. MatchRule(pkt, rule, sets) = [out |-> o, act |-> a]
    BY <1>2 DEF o, a
  <2>2. MatchRule(pkt, rule, sets).out = o /\ MatchRule(pkt, rule, sets).act = a
    BY <2>1
  <2> QED
    BY <2>2 DEF o, a
<1> QED
  BY <1>3, <1>4, <1>5

NextWalk(t, g, left) ==
    [c \in DOMAIN t.chains |-> [f \in Knowledge |->
        IF left = 0 THEN <<>>
        ELSE FlattenSeq([r \in DOMAIN t.chains[c].rules |-> RuleYields(t, c, r, f, g[left - 1])])]]

LEMMA WalkIsDefined ==
    ASSUME NEW t, NEW jumps \in Nat
    PROVE  \E g : g = [i \in 0 .. jumps |-> NextWalk(t, g, i)]
<1> DEFINE next(g, i) == NextWalk(t, g, i)
           D == {m \in Nat : \E g : g = [i \in 0 .. m |-> next(g, i)]}
<1>1. 0 \in D
  <2> DEFINE h == [i \in 0 .. 0 |-> next(<<>>, 0)]
  <2>1. \A i \in 0 .. 0 : i = 0 /\ next(h, i) = next(<<>>, 0)
    BY DEF NextWalk
  <2> HIDE DEF next
  <2>2. h = [i \in 0 .. 0 |-> next(h, i)]
    BY <2>1
  <2> QED
    BY <2>2
<1>2. ASSUME NEW m \in Nat, m \in D
      PROVE  m + 1 \in D
  <2>1. PICK g : g = [i \in 0 .. m |-> next(g, i)]
    BY <1>2
  <2> DEFINE h == [i \in 0 .. m + 1 |-> IF i <= m THEN g[i] ELSE next(g, i)]
  <2>2. \A i \in 0 .. m + 1 : h[i] = next(g, i)
    <3>1. \A i \in 0 .. m : g[i] = next(g, i)
      BY <2>1
    <3> HIDE DEF next
    <3> QED
      BY <3>1
  <2>3. \A i \in 0 .. m + 1 : h[i] = next(h, i)
    <3> SUFFICES ASSUME NEW i \in 0 .. m + 1
                 PROVE  h[i] = next(h, i)
      OBVIOUS
    <3>1. CASE i = 0
      BY <2>2, <3>1 DEF NextWalk
    <3>2. CASE i # 0
      <4>1. i - 1 \in 0 .. m /\ i - 1 \in 0 .. m + 1 /\ i - 1 <= m
        BY <3>2
      <4>2. h[i - 1] = g[i - 1]
        BY <4>1
      <4>3. h[i] = next(g, i)
        BY <2>2
      <4> HIDE DEF h
      <4> QED
        BY <3>2, <4>2, <4>3 DEF NextWalk
    <3> QED
      BY <3>1, <3>2
  <2>4. h = [i \in 0 .. m + 1 |-> h[i]]
    OBVIOUS
  <2> HIDE DEF h, next
  <2>5. h = [i \in 0 .. m + 1 |-> next(h, i)]
    BY <2>3, <2>4
  <2> QED
    BY <2>5
<1> HIDE DEF D
<1>3. jumps \in D
  BY <1>1, <1>2, Induction
<1> QED
  BY <1>3 DEF D

\* The walk of the chains, one jump further each time.
LEMMA WalkSteps ==
    ASSUME NEW t, NEW first, MaxJumpDepth \in Nat
    PROVE  \E g : /\ WalkFrom(t, first) = g[MaxJumpDepth + 1][first][NoMatchYet]
                  /\ \A i \in 0 .. MaxJumpDepth + 1 : g[i] = NextWalk(t, g, i)
<1> DEFINE n == MaxJumpDepth + 1
           next(g, i) == NextWalk(t, g, i)
           walk == CHOOSE g : g = [i \in 0 .. n |-> next(g, i)]
<1>1. walk = [i \in 0 .. n |-> next(walk, i)]
  <2>1. n \in Nat
    OBVIOUS
  <2> HIDE DEF n
  <2>2. \E g : g = [i \in 0 .. n |-> next(g, i)]
    BY <2>1, WalkIsDefined
  <2> HIDE DEF next
  <2> QED
    BY <2>2
<1>2. WalkFrom(t, first) = walk[n][first][NoMatchYet]
  BY DEF WalkFrom, NextWalk
<1> HIDE DEF walk
<1>3. \A i \in 0 .. n : walk[i] = next(walk, i)
  BY <1>1
<1> QED
  BY <1>2, <1>3

NextIn(t, b, pkt, g, d) ==
    IF d = 0 THEN {b}
    ELSE g[d - 1] \union
         UNION {FindChain(t, x.act.chain) :
            x \in {y \in {MatchRule(pkt, rule, t.sets) :
                            rule \in UNION {Range(t.chains[c].rules) : c \in g[d - 1]}} :
                      y.out = "Match" /\ y.act.kind \in {"jump", "goto"}}}

LEMMA InIsDefined ==
    ASSUME NEW t, NEW b, NEW pkt, MaxJumpDepth \in Nat
    PROVE  \E g : g = [d \in 0 .. MaxJumpDepth |-> NextIn(t, b, pkt, g, d)]
<1> DEFINE next(g, i) == NextIn(t, b, pkt, g, i)
           D == {m \in Nat : \E g : g = [i \in 0 .. m |-> next(g, i)]}
<1>1. 0 \in D
  <2> DEFINE h == [i \in 0 .. 0 |-> next(<<>>, 0)]
  <2>1. \A i \in 0 .. 0 : i = 0 /\ next(h, i) = next(<<>>, 0)
    BY DEF NextIn
  <2> HIDE DEF next
  <2>2. h = [i \in 0 .. 0 |-> next(h, i)]
    BY <2>1
  <2> QED
    BY <2>2
<1>2. ASSUME NEW m \in Nat, m \in D
      PROVE  m + 1 \in D
  <2>1. PICK g : g = [i \in 0 .. m |-> next(g, i)]
    BY <1>2
  <2> DEFINE h == [i \in 0 .. m + 1 |-> IF i <= m THEN g[i] ELSE next(g, i)]
  <2>2. \A i \in 0 .. m + 1 : h[i] = next(g, i)
    <3>1. \A i \in 0 .. m : g[i] = next(g, i)
      BY <2>1
    <3> HIDE DEF next
    <3> QED
      BY <3>1
  <2>3. \A i \in 0 .. m + 1 : h[i] = next(h, i)
    <3> SUFFICES ASSUME NEW i \in 0 .. m + 1
                 PROVE  h[i] = next(h, i)
      OBVIOUS
    <3>1. CASE i = 0
      BY <2>2, <3>1 DEF NextIn
    <3>2. CASE i # 0
      <4>1. i - 1 \in 0 .. m /\ i - 1 \in 0 .. m + 1 /\ i - 1 <= m
        BY <3>2
      <4>2. h[i - 1] = g[i - 1]
        BY <4>1
      <4>3. h[i] = next(g, i)
        BY <2>2
      <4> HIDE DEF h
      <4> QED
        BY <3>2, <4>2, <4>3 DEF NextIn
    <3> QED
      BY <3>1, <3>2
  <2>4. h = [i \in 0 .. m + 1 |-> h[i]]
    OBVIOUS
  <2> HIDE DEF h, next
  <2>5. h = [i \in 0 .. m + 1 |-> next(h, i)]
    BY <2>3, <2>4
  <2> QED
    BY <2>5
<1> HIDE DEF D
<1>3. MaxJumpDepth \in D
  BY <1>1, <1>2, Induction
<1> QED
  BY <1>3 DEF D

\* The chains a packet can reach, one jump further each time.
LEMMA ReachedSteps ==
    ASSUME NEW t, NEW b, NEW pkt, MaxJumpDepth \in Nat
    PROVE  \E g : /\ Reached(t, b, pkt) = g[MaxJumpDepth]
                  /\ \A d \in 0 .. MaxJumpDepth : g[d] = NextIn(t, b, pkt, g, d)
<1> DEFINE next(g, d) == NextIn(t, b, pkt, g, d)
           in == CHOOSE g : g = [d \in 0 .. MaxJumpDepth |-> next(g, d)]
<1>1. in = [d \in 0 .. MaxJumpDepth |-> next(in, d)]
  <2>1. \E g : g = [d \in 0 .. MaxJumpDepth |-> next(g, d)]
    BY InIsDefined
  <2> HIDE DEF next
  <2> QED
    BY <2>1
<1>2. Reached(t, b, pkt) = in[MaxJumpDepth]
  BY DEF Reached, NextIn
<1> HIDE DEF in
<1>3. \A d \in 0 .. MaxJumpDepth : in[d] = next(in, d)
  BY <1>1
<1> QED
  BY <1>2, <1>3

(***************************************************************************)
(* What the scan of a rule knows is typed                                  *)
(***************************************************************************)
ScanFields == {"fields", "imm", "f", "end", "arg"}
Targets    == [ip : Seq(Byte), port : Ports]

\* The scan of a rule is typed.
ScanOK(s) ==
    /\ DOMAIN s = ScanFields
    /\ s.f \in Knowledge
    /\ \A r \in DOMAIN s.imm : s.imm[r] \in Operands
    /\ s.end \in {Blank, "rewrites", "walks", "nothing"}
    /\ s.end = "rewrites" => s.arg \in Targets

\* The sets of a table, as RulesetsAssumption has them.
SetsOK(sets) ==
    \A s \in Range(sets) :
        /\ s.elements \in Seq(Range(s.elements))
        /\ \A el \in Range(s.elements) : el.key \in Operands

\* What is used of ports as numbers.
LEMMA PortsAre ==
    /\ \A q : q \in Ports <=> q \in Int /\ 0 <= q /\ q <= 65535
    /\ \A q : q \in Byte <=> q \in Int /\ 0 <= q /\ q <= 255
<1> DEFINE Upto(n) == 0 .. n
<1>1. \A n, q \in Int : q \in 0 .. n <=> 0 <= q /\ q <= n
  BY SMT
<1>2. \A n \in Int : \A q \in 0 .. n : q \in Int
  BY SMT
<1>3. \A n, q : n \in Int => (q \in Upto(n) <=> q \in Int /\ 0 <= q /\ q <= n)
  BY <1>1, <1>2, SMT
<1>4. Ports = Upto(65535) /\ Byte = Upto(255)
  BY SMT DEF Ports, Byte
<1> HIDE DEF Upto
<1> QED
  BY <1>3, <1>4, SMT

\* An operand of two bytes is a port.
LEMMA PortOfOperand ==
    ASSUME NEW data \in Operands, IsPort(data)
    PROVE  /\ data \in Seq(Byte) /\ Len(data) = 2 /\ PortOf(data) \in Ports
           /\ data[1] \in Byte /\ data[2] \in Byte
<1>1. data \in Seq(Byte) /\ Len(data) = 2
  BY DEF Operands, IsPort
<1>2. data[1] \in Byte /\ data[2] \in Byte
  BY <1>1
<1> DEFINE a == data[1]
           b == data[2]
<1>3. a \in Int /\ 0 <= a /\ a <= 255 /\ b \in Int /\ 0 <= b /\ b <= 255
  BY <1>2, PortsAre
<1>4. PortOf(data) = a * 256 + b
  BY DEF PortOf
<1> HIDE DEF a, b
<1>5. PortOf(data) \in Ports
  <2> DEFINE n == a * 256 + b
  <2>1. n \in Int /\ 0 <= n /\ n <= 65535
    BY <1>3, SMT
  <2>2. PortOf(data) = n
    BY <1>4
  <2> HIDE DEF n
  <2> QED
    BY <2>1, <2>2, PortsAre, SMT
<1> QED
  BY <1>1, <1>2, <1>5

\* The parts of a scan that a step leaves alone.
LEMMA ReadsIs ==
    ASSUME NEW s, DOMAIN s = ScanFields, NEW e, NEW x
    PROVE  /\ DOMAIN Reads(s, e, x) = ScanFields
           /\ Reads(s, e, x).fields = Filling(s.fields, e.reg, x)
           /\ Reads(s, e, x).imm = s.imm /\ Reads(s, e, x).f = s.f
           /\ Reads(s, e, x).end = s.end /\ Reads(s, e, x).arg = s.arg
BY DEF Reads, ScanFields

LEMMA KnowsIs ==
    ASSUME NEW s, DOMAIN s = ScanFields, NEW x
    PROVE  /\ DOMAIN [s EXCEPT !.f = x] = ScanFields
           /\ [s EXCEPT !.f = x].f = x
           /\ [s EXCEPT !.f = x].fields = s.fields /\ [s EXCEPT !.f = x].imm = s.imm
           /\ [s EXCEPT !.f = x].end = s.end /\ [s EXCEPT !.f = x].arg = s.arg
BY DEF ScanFields

LEMMA HoldsIs ==
    ASSUME NEW s, DOMAIN s = ScanFields, NEW x
    PROVE  /\ DOMAIN [s EXCEPT !.imm = x] = ScanFields
           /\ [s EXCEPT !.imm = x].imm = x
           /\ [s EXCEPT !.imm = x].fields = s.fields /\ [s EXCEPT !.imm = x].f = s.f
           /\ [s EXCEPT !.imm = x].end = s.end /\ [s EXCEPT !.imm = x].arg = s.arg
BY DEF ScanFields

LEMMA StopsIs ==
    ASSUME NEW s, DOMAIN s = ScanFields, NEW end, NEW arg
    PROVE  /\ DOMAIN Stops(s, end, arg) = ScanFields
           /\ Stops(s, end, arg).end = end /\ Stops(s, end, arg).arg = arg
           /\ Stops(s, end, arg).f = s.f /\ Stops(s, end, arg).imm = s.imm
           /\ Stops(s, end, arg).fields = s.fields
BY DEF Stops, ScanFields

LEMMA UnreadIs ==
    ASSUME NEW f
    PROVE  /\ DOMAIN Unread(f) = ScanFields
           /\ Unread(f).fields = <<>> /\ Unread(f).imm = <<>> /\ Unread(f).f = f
           /\ Unread(f).end = Blank
<1>1. Unread(f) = [fields |-> <<>>, imm |-> <<>>, f |-> f, end |-> Blank, arg |-> Blank]
  BY DEF Unread, Blank
<1>2. /\ DOMAIN Unread(f) = ScanFields
      /\ Unread(f).fields = <<>> /\ Unread(f).imm = <<>> /\ Unread(f).f = f
      /\ Unread(f).end = Blank
  BY <1>1 DEF ScanFields
<1> QED
  BY <1>2

\* Knowledge has three parts, each changed by itself.
LEMMA KnowledgeParts ==
    ASSUME NEW f \in Knowledge
    PROVE  /\ Refuse(f) \in Knowledge
           /\ Refuse(f).proto = f.proto /\ Refuse(f).ports = f.ports /\ Refuse(f).refuse
           /\ \A P \in SUBSET Ports :
                 LET g == [f EXCEPT !.ports = @ \union P]
                 IN  g \in Knowledge /\ g.proto = f.proto /\ g.ports = f.ports \union P
                     /\ g.refuse = f.refuse
           /\ \A p \in {"tcp", "udp", "other"} :
                 LET g == [f EXCEPT !.proto = p]
                 IN  g \in Knowledge /\ g.proto = p /\ g.ports = f.ports /\ g.refuse = f.refuse
BY DEF Knowledge, Refuse

\* The ports of a set are ports (setPorts).
LEMMA SetPortsAre ==
    ASSUME NEW sets, SetsOK(sets), NEW e
    PROVE  UNION SetPorts(sets, e) \in SUBSET Ports
<1>1. \A x \in FindSet(e, sets) : x \in Range(sets)
  BY DEF FindSet, Range
<1>2. ASSUME NEW x \in FindSet(e, sets), NEW el \in Range(x.elements), IsPort(el.key)
      PROVE  PortOf(el.key) \in Ports
  BY <1>1, <1>2, PortOfOperand DEF SetsOK
<1> QED
  BY <1>2 DEF SetPorts

\* A compare and a lookup add to what is known (forwards.go:237-298).
LEMMA ConstraintsAreKnowledge ==
    ASSUME NEW f \in Knowledge, NEW field, NEW e, NEW sets, SetsOK(sets)
    PROVE  /\ HasOperands(e) /\ e.k = "cmp" => CmpConstraint(f, field, e) \in Knowledge
           /\ LookupConstraint(f, field, sets, e) \in Knowledge
<1>1. Refuse(f) \in Knowledge
  BY KnowledgeParts
<1>2. ASSUME HasOperands(e), e.k = "cmp"
      PROVE  CmpConstraint(f, field, e) \in Knowledge
  <2>1. CASE field = "dport" /\ e.op = "eq" /\ IsPort(e.data)
    <3>1. {PortOf(e.data)} \in SUBSET Ports
      BY <1>2, <2>1, PortOfOperand DEF HasOperands
    <3>2. [f EXCEPT !.ports = @ \union {PortOf(e.data)}] \in Knowledge
      BY <3>1, KnowledgeParts
    <3> QED
      BY <2>1, <3>2 DEF CmpConstraint
  <2>2. CASE field = "dport" /\ ~(e.op = "eq" /\ IsPort(e.data))
    BY <1>1, <2>2 DEF CmpConstraint
  <2>3. CASE field = "l4proto" /\ e.op = "eq"
    <3>1. ProtoOf(e.data) \in {"tcp", "udp", "other"}
      BY DEF ProtoOf
    <3>2. [f EXCEPT !.proto = ProtoOf(e.data)] \in Knowledge
      BY <3>1, KnowledgeParts
    <3> QED
      BY <2>3, <3>2 DEF CmpConstraint
  <2>4. CASE field = "l4proto" /\ e.op # "eq"
    BY <1>1, <2>4 DEF CmpConstraint
  <2>5. CASE field \notin {"dport", "l4proto"}
    BY <2>5 DEF CmpConstraint
  <2> QED
    BY <2>1, <2>2, <2>3, <2>4, <2>5
<1>3. LookupConstraint(f, field, sets, e) \in Knowledge
  <2>1. [f EXCEPT !.ports = @ \union UNION SetPorts(sets, e)] \in Knowledge
    BY SetPortsAre, KnowledgeParts
  <2> QED
    BY <1>1, <2>1 DEF LookupConstraint
<1> QED
  BY <1>2, <1>3

\* Where a rewrite sends packets, as far as the scan could resolve it.
LEMMA TargetsAreTyped ==
    ASSUME NEW e, HasOperands(e)
    PROVE  /\ \A imm : (\A r \in DOMAIN imm : imm[r] \in Operands) => NativeTarget(e, imm) \in Targets
           /\ e.k = "xt" /\ e.kind = "target" /\ e.name = "DNAT" /\ e.decoded
                 => XtDNATTarget(e) \in Targets
<1>1. Unresolved \in Seq(Byte)
  BY DEF Unresolved
<1>2. ASSUME NEW imm, \A r \in DOMAIN imm : imm[r] \in Operands
      PROVE  NativeTarget(e, imm) \in Targets
  <2>1. ASSUME NEW r \in DOMAIN imm, Len(imm[r]) \in {4, 16}
        PROVE  imm[r] \in Seq(Byte)
    <3> DEFINE v == imm[r]
    <3>1. Len(Undecodable) = 1
      BY DEF Undecodable
    <3>2. v \in Operands /\ Len(v) \in {4, 16}
      BY <1>2, <2>1
    <3> HIDE DEF v
    <3>3. v # Undecodable
      BY <3>1, <3>2
    <3>4. v \in Seq(Byte)
      BY <3>2, <3>3 DEF Operands
    <3> QED
      BY <3>4 DEF v
  <2>2. ASSUME NEW r \in DOMAIN imm, IsPort(imm[r])
        PROVE  PortOf(imm[r]) \in Ports
    BY <1>2, <2>2, PortOfOperand
  <2> DEFINE ip == IF e.addr \in DOMAIN imm /\ Len(imm[e.addr]) \in {4, 16}
                   THEN imm[e.addr] ELSE Unresolved
             port == IF e.proto \in DOMAIN imm /\ IsPort(imm[e.proto])
                     THEN PortOf(imm[e.proto]) ELSE 0
  <2>3. ip \in Seq(Byte)
    BY <1>1, <2>1
  <2>4. port \in Ports
    <3>1. 0 \in Ports
      BY PortsAre, SMT
    <3>2. CASE e.proto \in DOMAIN imm /\ IsPort(imm[e.proto])
      <4>1. port = PortOf(imm[e.proto])
        BY <3>2
      <4> HIDE DEF port
      <4> QED
        BY <2>2, <3>2, <4>1
    <3>3. CASE ~(e.proto \in DOMAIN imm /\ IsPort(imm[e.proto]))
      BY <3>1, <3>3
    <3> QED
      BY <3>2, <3>3
  <2>5. NativeTarget(e, imm) = [ip |-> ip, port |-> port]
    BY DEF NativeTarget
  <2> HIDE DEF ip, port
  <2> QED
    BY <2>3, <2>4, <2>5 DEF Targets
<1>3. ASSUME e.k = "xt" /\ e.kind = "target" /\ e.name = "DNAT" /\ e.decoded
      PROVE  XtDNATTarget(e) \in Targets
  <2> DEFINE ip == IF e.arg.minIP = Undecodable THEN Unresolved ELSE e.arg.minIP
  <2>1. ip \in Seq(Byte) /\ e.arg.minPort \in Ports
    BY <1>1, <1>3 DEF HasOperands, Operands
  <2>2. XtDNATTarget(e) = [ip |-> ip, port |-> e.arg.minPort]
    BY DEF XtDNATTarget
  <2> HIDE DEF ip
  <2> QED
    BY <2>1, <2>2 DEF Targets
<1> QED
  BY <1>2, <1>3

\* A scan that goes on is typed.
LEMMA ScanReads ==
    ASSUME NEW s, ScanOK(s), NEW e, NEW x
    PROVE  ScanOK(Reads(s, e, x))
<1>1. DOMAIN s = ScanFields
  BY DEF ScanOK
<1> DEFINE n == Reads(s, e, x)
<1>2. /\ DOMAIN n = ScanFields /\ n.imm = s.imm /\ n.f = s.f
      /\ n.end = s.end /\ n.arg = s.arg
  BY <1>1, ReadsIs
<1> HIDE DEF n
<1>3. ScanOK(n)
  BY <1>2 DEF ScanOK
<1> QED
  BY <1>3 DEF n

LEMMA ScanKnows ==
    ASSUME NEW s, ScanOK(s), NEW x \in Knowledge
    PROVE  ScanOK([s EXCEPT !.f = x])
<1>1. DOMAIN s = ScanFields
  BY DEF ScanOK
<1> DEFINE n == [s EXCEPT !.f = x]
<1>2. DOMAIN n = ScanFields /\ n.f = x /\ n.imm = s.imm /\ n.end = s.end /\ n.arg = s.arg
  BY <1>1, KnowsIs
<1> HIDE DEF n
<1>3. ScanOK(n)
  BY <1>2 DEF ScanOK
<1> QED
  BY <1>3 DEF n

LEMMA ScanHolds ==
    ASSUME NEW s, ScanOK(s), NEW r, NEW v \in Operands
    PROVE  ScanOK([s EXCEPT !.imm = Filling(@, r, v)])
<1>1. DOMAIN s = ScanFields
  BY DEF ScanOK
<1> DEFINE imm == Filling(s.imm, r, v)
           n   == [s EXCEPT !.imm = imm]
<1>2. \A x \in DOMAIN imm : imm[x] \in Operands
  BY DEF Filling, ScanOK
<1> HIDE DEF imm
<1>3. DOMAIN n = ScanFields /\ n.imm = imm /\ n.f = s.f /\ n.end = s.end /\ n.arg = s.arg
  BY <1>1, HoldsIs
<1> HIDE DEF n
<1>4. ScanOK(n)
  BY <1>2, <1>3 DEF ScanOK
<1> QED
  BY <1>4 DEF n, imm

LEMMA ScanStops ==
    ASSUME NEW s, ScanOK(s), NEW end \in {"walks", "nothing", "rewrites"}, NEW arg,
           end = "rewrites" => arg \in Targets
    PROVE  ScanOK(Stops(s, end, arg))
<1>1. DOMAIN s = ScanFields
  BY DEF ScanOK
<1> DEFINE n == Stops(s, end, arg)
<1>2. /\ DOMAIN n = ScanFields /\ n.f = s.f /\ n.imm = s.imm
      /\ n.end = end /\ n.arg = arg
  BY <1>1, StopsIs
<1> HIDE DEF n
<1>3. ScanOK(n)
  BY <1>2 DEF ScanOK
<1> QED
  BY <1>3 DEF n

\* A rule's scan starts typed.
LEMMA UnreadTyped ==
    ASSUME NEW f \in Knowledge
    PROVE  ScanOK(Unread(f))
<1> DEFINE s == Unread(f)
<1>1. DOMAIN s = ScanFields /\ s.imm = <<>> /\ s.f = f /\ s.end = Blank
  BY UnreadIs
<1> HIDE DEF s
<1>2. DOMAIN s.imm = {}
  <2>1. \A x : x = <<>> => DOMAIN x = {}
    OBVIOUS
  <2> QED
    BY <1>1, <2>1, Zenon
<1>3. \A r \in DOMAIN s.imm : s.imm[r] \in Operands
  BY <1>2, Zenon
<1>4. s.end \in {Blank, "rewrites", "walks", "nothing"} /\ s.end # "rewrites"
  BY <1>1, BlankIsNone, Zenon
<1>5. ScanOK(s)
  BY <1>1, <1>3, <1>4, Zenon DEF ScanOK
<1> QED
  BY <1>5 DEF s

\* One expression: each kind of ReadExpr keeps the scan typed.
LEMMA ReadExprTyped ==
    ASSUME NEW s, ScanOK(s), s.end = Blank, NEW e, HasOperands(e), NEW sets, SetsOK(sets)
    PROVE  ScanOK(ReadExpr(s, e, sets))
<1> DEFINE n    == ReadExpr(s, e, sets)
           read == Field(s.fields, e.reg)
           g    == Reads(s, e, "other")
<1>1. s.f \in Knowledge /\ Refuse(s.f) \in Knowledge
  BY KnowledgeParts DEF ScanOK
<1>2. ScanOK(g)
  BY ScanReads
<1>3. g.f \in Knowledge /\ Refuse(g.f) \in Knowledge
  BY <1>2, KnowledgeParts DEF ScanOK
<1>4. CASE e.k = "payload"
  <2>1. n = Reads(s, e, PayloadField(e))
    BY <1>4 DEF ReadExpr
  <2> QED
    BY <2>1, ScanReads
<1>5. CASE e.k = "meta"
  <2>1. n = Reads(s, e, IF e.key = "l4proto" THEN "l4proto" ELSE "other")
    BY <1>5 DEF ReadExpr
  <2> QED
    BY <2>1, ScanReads
<1>6. CASE e.k \in {"ct", "fib"}
  <2>1. n = g
    BY <1>6 DEF ReadExpr
  <2> QED
    BY <1>2, <2>1
<1>7. CASE e.k = "bitwise"
  <2> DEFINE f == IF Field(s.fields, e.src) = "dport" THEN Refuse(g.f) ELSE g.f
  <2>1. n = [g EXCEPT !.f = f]
    BY <1>7 DEF ReadExpr
  <2>2. f \in Knowledge
    BY <1>3
  <2> HIDE DEF n, g, f
  <2>3. ScanOK(n)
    BY <1>2, <2>1, <2>2, ScanKnows
  <2> QED
    BY <2>3 DEF n
<1>8. CASE e.k = "cmp"
  <2> DEFINE f == CmpConstraint(s.f, read, e)
  <2>1. n = [s EXCEPT !.f = f]
    BY <1>8 DEF ReadExpr
  <2>2. f \in Knowledge
    BY <1>1, <1>8, ConstraintsAreKnowledge
  <2> HIDE DEF n, f
  <2>3. ScanOK(n)
    BY <2>1, <2>2, ScanKnows
  <2> QED
    BY <2>3 DEF n
<1>9. CASE e.k = "range"
  <2> DEFINE f == IF read = "dport" THEN Refuse(s.f) ELSE s.f
  <2>1. n = [s EXCEPT !.f = f]
    BY <1>9 DEF ReadExpr
  <2>2. f \in Knowledge
    BY <1>1
  <2> HIDE DEF n, f
  <2>3. ScanOK(n)
    BY <2>1, <2>2, ScanKnows
  <2> QED
    BY <2>3 DEF n
<1>10. CASE e.k = "lookup"
  <2> DEFINE f == LookupConstraint(s.f, read, sets, e)
  <2>1. n = [s EXCEPT !.f = f]
    BY <1>10 DEF ReadExpr
  <2>2. f \in Knowledge
    BY <1>1, ConstraintsAreKnowledge
  <2> HIDE DEF n, f
  <2>3. ScanOK(n)
    BY <2>1, <2>2, ScanKnows
  <2> QED
    BY <2>3 DEF n
<1>11. CASE e.k = "immediate"
  <2> DEFINE data == e.data
             r    == e.reg
  <2>1. n = [g EXCEPT !.imm = Filling(@, r, data)]
    BY <1>11 DEF ReadExpr
  <2>2. data \in Operands
    BY <1>11 DEF HasOperands
  <2> HIDE DEF n, g, data, r
  <2>3. ScanOK(n)
    BY <1>2, <2>1, <2>2, ScanHolds
  <2> QED
    BY <2>3 DEF n
<1>12. CASE e.k = "nat" /\ e.type = "dnat"
  <2> DEFINE to == NativeTarget(e, s.imm)
  <2>1. n = Stops(s, "rewrites", to)
    BY <1>12 DEF ReadExpr
  <2>2. to \in Targets
    BY TargetsAreTyped DEF ScanOK
  <2> HIDE DEF n, to
  <2>3. ScanOK(n)
    BY <2>1, <2>2, ScanStops
  <2> QED
    BY <2>3 DEF n
<1>13. CASE e.k = "xt" /\ e.kind = "target" /\ e.name = "DNAT" /\ e.decoded
  <2> DEFINE to == XtDNATTarget(e)
  <2>1. n = Stops(s, "rewrites", to)
    BY <1>13 DEF ReadExpr
  <2>2. to \in Targets
    BY <1>13, TargetsAreTyped
  <2> HIDE DEF n, to
  <2>3. ScanOK(n)
    BY <2>1, <2>2, ScanStops
  <2> QED
    BY <2>3 DEF n
<1>14. CASE e.k = "verdict"
  <2>1. CASE e.kind \in {"jump", "goto"}
    <3>1. n = Stops(s, "walks", e.chain)
      BY <1>14, <2>1 DEF ReadExpr
    <3> QED
      BY <3>1, ScanStops
  <2>2. CASE e.kind \notin {"jump", "goto"}
    <3>1. n = Stops(s, "nothing", Blank)
      BY <1>14, <2>2 DEF ReadExpr, Blank
    <3> QED
      BY <3>1, ScanStops
  <2> QED
    BY <2>1, <2>2
<1>15. CASE e.k \notin {"payload", "meta", "ct", "fib", "bitwise", "cmp", "range", "lookup",
                        "immediate", "verdict"} /\ ~IsRewrite(e)
  <2>1. n = s
    BY <1>15 DEF ReadExpr, IsRewrite
  <2> QED
    BY <2>1
<1> QED
  BY <1>4, <1>5, <1>6, <1>7, <1>8, <1>9, <1>10, <1>11, <1>12, <1>13, <1>14, <1>15 DEF IsRewrite

\* The whole rule, by induction over its expressions.
LEMMA ReadTyped ==
    ASSUME NEW rule, NEW family, FromKernel(family, rule), NEW sets, SetsOK(sets), NEW f \in Knowledge
    PROVE  ScanOK(ReadRule(rule, sets, f))
<1>1. Len(rule) \in Nat /\ DOMAIN rule = 1 .. Len(rule)
  BY DEF FromKernel
<1>2. PICK g : /\ ReadRule(rule, sets, f) = g[Len(rule)]
               /\ \A i \in 0 .. Len(rule) : g[i] = NextRead(rule, sets, f, g, i)
  BY <1>1, ReadSteps
<1> DEFINE D == {i \in Nat : i <= Len(rule) => ScanOK(g[i])}
<1>3. 0 \in D
  <2> DEFINE s == Unread(f)
  <2>1. 0 \in 0 .. Len(rule)
    BY <1>1
  <2>2. g[0] = s
    BY <1>2, <2>1 DEF NextRead
  <2>3. DOMAIN s = ScanFields /\ s.imm = <<>> /\ s.f = f /\ s.end = Blank
    BY UnreadIs
  <2>4. ScanOK(s)
    BY UnreadTyped
  <2> QED
    BY <2>2, <2>4
<1>4. ASSUME NEW i \in Nat, i \in D
      PROVE  i + 1 \in D
  <2> SUFFICES ASSUME i + 1 <= Len(rule)
               PROVE  ScanOK(g[i + 1])
    OBVIOUS
  <2>1. i + 1 \in 0 .. Len(rule) /\ i + 1 \in DOMAIN rule /\ (i + 1) - 1 = i /\ i + 1 # 0
    BY <1>1
  <2>2. ScanOK(g[i])
    BY <1>1, <1>4
  <2>3. HasOperands(rule[i + 1])
    BY <2>1 DEF FromKernel
  <2>4. g[i + 1] = IF g[i].end # Blank THEN g[i] ELSE ReadExpr(g[i], rule[i + 1], sets)
    BY <1>2, <2>1 DEF NextRead, Blank
  <2> QED
    BY <2>2, <2>3, <2>4, ReadExprTyped
<1>5. Len(rule) \in D
  <2> HIDE DEF D
  <2> QED
    BY <1>1, <1>3, <1>4, Induction
<1> QED
  BY <1>1, <1>2, <1>5

(***************************************************************************)
(* What a rule and a chain emit is typed                                   *)
(***************************************************************************)
\* The rows, and what one rewrite emits: all its rows have one target.
Endpoints == [family : {"ip", "ip6"}, proto : {"tcp", "udp"}, port : Ports, to : Targets]
Emissions == {m \in [eps : SUBSET Endpoints, notes : SUBSET (Nat \X Nat)] :
                 \A d, e \in m.eps : d.to = e.to}

\* One table of RulesetsAssumption.
TableOK(t) ==
    /\ t.chains \in Seq(Range(t.chains)) /\ t.sets \in Seq(Range(t.sets))
    /\ SetsOK(t.sets)
    /\ \A c \in Range(t.chains) :
          /\ c.rules \in Seq(Range(c.rules))
          /\ \A rule \in Range(c.rules) : FromKernel(t.family, rule)

\* RulesetsAssumption, one table of it.
LEMMA TablesAreOK ==
    ASSUME NEW rs \in Rulesets
    PROVE  /\ rs \in Seq(Range(rs)) /\ Len(rs) \in Nat /\ DOMAIN rs = 1 .. Len(rs)
           /\ \A i \in DOMAIN rs : TableOK(rs[i])
<1>1. rs \in Seq(Range(rs)) /\ \A t \in Range(rs) : TableOK(t)
  BY RulesetsAssumption DEF TableOK, SetsOK
<1> QED
  BY <1>1 DEF Range

\* The same, one chain of it.
LEMMA ChainsAreOK ==
    ASSUME NEW t, TableOK(t)
    PROVE  /\ DOMAIN t.chains = 1 .. Len(t.chains) /\ Len(t.chains) \in Nat
           /\ \A c \in DOMAIN t.chains :
                 /\ DOMAIN t.chains[c].rules = 1 .. Len(t.chains[c].rules)
                 /\ Len(t.chains[c].rules) \in Nat
                 /\ \A r \in DOMAIN t.chains[c].rules : FromKernel(t.family, t.chains[c].rules[r])
<1>1. DOMAIN t.chains = 1 .. Len(t.chains) /\ Len(t.chains) \in Nat
  BY DEF TableOK
<1>2. ASSUME NEW c \in DOMAIN t.chains
      PROVE  /\ DOMAIN t.chains[c].rules = 1 .. Len(t.chains[c].rules)
             /\ Len(t.chains[c].rules) \in Nat
             /\ \A r \in DOMAIN t.chains[c].rules : FromKernel(t.family, t.chains[c].rules[r])
  <2> DEFINE rules == t.chains[c].rules
  <2>1. t.chains[c] \in Range(t.chains)
    BY DEF Range
  <2>2. rules \in Seq(Range(rules)) /\ \A rule \in Range(rules) : FromKernel(t.family, rule)
    BY <2>1 DEF TableOK
  <2> HIDE DEF rules
  <2>3. /\ DOMAIN rules = 1 .. Len(rules) /\ Len(rules) \in Nat
        /\ \A r \in DOMAIN rules : FromKernel(t.family, rules[r])
    BY <2>2 DEF Range
  <2> QED
    BY <2>3 DEF rules
<1> QED
  BY <1>1, <1>2

\* A row is for IPv4 or IPv6.
LEMMA FamiliesAre ==
    ASSUME NEW family, NEW to
    PROVE  /\ TableFamilies(family) \subseteq {"ip", "ip6"}
           /\ Families(family, to) \subseteq {"ip", "ip6"}
BY DEF TableFamilies, Families

\* What a rewrite emits goes to one target (forwards.go:354-386).
LEMMA EmitTyped ==
    ASSUME NEW family, NEW where \in Nat \X Nat, NEW f \in Knowledge, NEW to \in Targets
    PROVE  Emit(family, where, f, to) \in Emissions
<1> DEFINE rows == [family : Families(family, to), proto : Protos(f.proto), port : f.ports, to : {to}]
           m    == Emit(family, where, f, to)
<1>1. CASE f.proto = "other"
  <2>1. m = [eps |-> {}, notes |-> {}]
    BY <1>1 DEF Emit
  <2> QED
    BY <2>1 DEF Emissions
<1>2. CASE f.proto # "other" /\ (f.refuse \/ f.ports = {})
  <2>1. m = [eps |-> {}, notes |-> {where}]
    BY <1>2 DEF Emit
  <2> QED
    BY <2>1 DEF Emissions
<1>3. CASE f.proto # "other" /\ ~(f.refuse \/ f.ports = {})
  <2>1. m = [eps |-> rows, notes |-> {}]
    BY <1>3 DEF Emit
  <2>2. Protos(f.proto) \subseteq {"tcp", "udp"} /\ f.ports \subseteq Ports
    BY <1>3 DEF Knowledge, Protos
  <2>3. rows \subseteq Endpoints
    BY <2>2, FamiliesAre DEF Endpoints
  <2>4. \A d, e \in rows : d.to = e.to
    OBVIOUS
  <2> HIDE DEF rows, m
  <2>5. m \in Emissions
    BY <2>1, <2>3, <2>4 DEF Emissions
  <2> QED
    BY <2>5 DEF m
<1> QED
  BY <1>1, <1>2, <1>3

\* A name finds one chain of the table, or none.
LEMMA FoundChain ==
    ASSUME NEW t, TableOK(t), NEW name
    PROVE  /\ FindChain(t, name) \subseteq DOMAIN t.chains
           /\ \A d \in FindChain(t, name) : FindChain(t, name) = {d}
<1>1. DOMAIN t.chains \subseteq Int
  BY ChainsAreOK
<1>2. FindChain(t, name) \subseteq DOMAIN t.chains
  BY DEF FindChain
<1>3. \A c, d \in FindChain(t, name) : c <= d /\ d <= c
  BY DEF FindChain
<1>4. \A c, d \in FindChain(t, name) : c = d
  BY <1>1, <1>2, <1>3
<1> QED
  BY <1>2, <1>4

\* The three ends of a rule's scan, taken apart.
LEMMA RuleYieldsIs ==
    ASSUME NEW t, TableOK(t), NEW c \in DOMAIN t.chains, NEW r \in DOMAIN t.chains[c].rules,
           NEW f \in Knowledge, NEW deeper
    PROVE  LET s == ReadRule(t.chains[c].rules[r], t.sets, f)
           IN  /\ s.end = "rewrites" =>
                     RuleYields(t, c, r, f, deeper) = <<Emit(t.family, <<c, r>>, s.f, s.arg)>>
               /\ s.end = "walks" => \A d \in FindChain(t, s.arg) :
                     RuleYields(t, c, r, f, deeper) = deeper[d][s.f]
               /\ s.end # "rewrites" /\ ~(s.end = "walks" /\ FindChain(t, s.arg) # {}) =>
                     RuleYields(t, c, r, f, deeper) = <<>>
<1> DEFINE s  == ReadRule(t.chains[c].rules[r], t.sets, f)
           to == FindChain(t, s.arg)
           y  == RuleYields(t, c, r, f, deeper)
<1>1. s.end = "rewrites" => y = <<Emit(t.family, <<c, r>>, s.f, s.arg)>>
  BY DEF RuleYields
<1>2. ASSUME s.end = "walks", NEW d \in to
      PROVE  y = deeper[d][s.f]
  <2>1. to = {d}
    BY FoundChain
  <2>2. (CHOOSE x \in to : TRUE) = d
    BY <2>1
  <2>3. y = deeper[CHOOSE x \in to : TRUE][s.f]
    BY <1>2, <2>1 DEF RuleYields
  <2> HIDE DEF y, to, s
  <2> QED
    BY <2>2, <2>3
<1>3. s.end # "rewrites" /\ ~(s.end = "walks" /\ to # {}) => y = <<>>
  BY DEF RuleYields
<1> QED
  BY <1>1, <1>2, <1>3

\* A rule yields emissions when the chains it jumps to do.
LEMMA RuleYieldsTyped ==
    ASSUME NEW t, TableOK(t), NEW c \in DOMAIN t.chains, NEW r \in DOMAIN t.chains[c].rules,
           NEW f \in Knowledge, NEW deeper,
           \A d \in DOMAIN t.chains : \A g \in Knowledge : deeper[d][g] \in Seq(Emissions)
    PROVE  RuleYields(t, c, r, f, deeper) \in Seq(Emissions)
<1> DEFINE s == ReadRule(t.chains[c].rules[r], t.sets, f)
           y == RuleYields(t, c, r, f, deeper)
           m == Emit(t.family, <<c, r>>, s.f, s.arg)
<1>1. ScanOK(s)
  BY ChainsAreOK, ReadTyped DEF TableOK
<1>2. <<c, r>> \in Nat \X Nat
  BY ChainsAreOK
<1>3. CASE s.end = "rewrites"
  <2>1. m \in Emissions
    BY <1>1, <1>2, <1>3, EmitTyped DEF ScanOK
  <2>2. y = <<m>>
    BY <1>3, RuleYieldsIs
  <2> HIDE DEF m, y
  <2>3. y \in Seq(Emissions)
    BY <2>1, <2>2
  <2> QED
    BY <2>3 DEF y
<1>4. ASSUME s.end = "walks", NEW d \in FindChain(t, s.arg)
      PROVE  y \in Seq(Emissions)
  <2>1. d \in DOMAIN t.chains /\ s.f \in Knowledge
    BY <1>1, <1>4, FoundChain DEF ScanOK
  <2>2. y = deeper[d][s.f]
    BY <1>4, RuleYieldsIs
  <2> HIDE DEF y, s
  <2> QED
    BY <2>1, <2>2
<1>5. CASE s.end # "rewrites" /\ ~(s.end = "walks" /\ FindChain(t, s.arg) # {})
  <2>1. y = <<>>
    BY <1>5 DEF RuleYields
  <2> HIDE DEF y
  <2>2. y \in Seq(Emissions)
    BY <2>1
  <2> QED
    BY <2>2 DEF y
<1>6. CASE s.end = "walks" /\ FindChain(t, s.arg) # {}
  <2>1. PICK d \in FindChain(t, s.arg) : TRUE
    BY <1>6
  <2> HIDE DEF s, y
  <2>2. y \in Seq(Emissions)
    BY <1>4, <1>6, <2>1, Zenon
  <2> QED
    BY <2>2 DEF y
<1> QED
  BY <1>3, <1>5, <1>6

WalkOK(t, w) == \A c \in DOMAIN t.chains : \A f \in Knowledge : w[c][f] \in Seq(Emissions)

\* One jump further: a chain is the list of what its rules yield.
LEMMA WalkStep ==
    ASSUME NEW t, NEW g, NEW i \in Nat, g[i + 1] = NextWalk(t, g, i + 1),
           NEW c \in DOMAIN t.chains, NEW f \in Knowledge
    PROVE  g[i + 1][c][f] =
              FlattenSeq([r \in DOMAIN t.chains[c].rules |-> RuleYields(t, c, r, f, g[i])])
<1> DEFINE flat(d, k) == FlattenSeq([r \in DOMAIN t.chains[d].rules |-> RuleYields(t, d, r, k, g[i])])
           w == g[i + 1]
<1>1. (i + 1) - 1 = i /\ i + 1 # 0
  OBVIOUS
<1>2. w = [d \in DOMAIN t.chains |-> [k \in Knowledge |-> flat(d, k)]]
  BY <1>1 DEF NextWalk
<1> HIDE DEF flat, w
<1>3. w[c] = [k \in Knowledge |-> flat(c, k)]
  BY <1>2
<1>4. w[c][f] = flat(c, f)
  BY <1>3
<1> QED
  BY <1>4 DEF flat, w

\* Every depth of the walk is typed, by induction over the jumps.
LEMMA WalkTyped ==
    ASSUME NEW t, TableOK(t), NEW g, \A i \in 0 .. MaxJumpDepth + 1 : g[i] = NextWalk(t, g, i)
    PROVE  \A i \in 0 .. MaxJumpDepth + 1 : WalkOK(t, g[i])
<1>1. MaxJumpDepth \in Nat
  BY RulesetsAssumption
<1> DEFINE D == {i \in Nat : i <= MaxJumpDepth + 1 => WalkOK(t, g[i])}
<1>2. 0 \in D
  <2> DEFINE w == g[0]
  <2>1. w = [c \in DOMAIN t.chains |-> [f \in Knowledge |-> <<>>]]
    BY <1>1 DEF NextWalk
  <2> HIDE DEF w
  <2>2. \A c \in DOMAIN t.chains : w[c] = [f \in Knowledge |-> <<>>]
    BY <2>1
  <2>3. \A c \in DOMAIN t.chains : \A f \in Knowledge : w[c][f] = <<>>
    BY <2>2
  <2>4. <<>> \in Seq(Emissions)
    OBVIOUS
  <2>5. WalkOK(t, w)
    BY <2>3, <2>4, Zenon DEF WalkOK
  <2>6. WalkOK(t, g[0])
    BY <2>5 DEF w
  <2> QED
    BY <2>6
<1>3. ASSUME NEW i \in Nat, i \in D
      PROVE  i + 1 \in D
  <2> SUFFICES ASSUME i + 1 <= MaxJumpDepth + 1
               PROVE  WalkOK(t, g[i + 1])
    OBVIOUS
  <2>1. i + 1 \in 0 .. MaxJumpDepth + 1 /\ (i + 1) - 1 = i /\ i + 1 # 0
    BY <1>1
  <2>2. WalkOK(t, g[i])
    BY <1>1, <1>3
  <2> SUFFICES ASSUME NEW c \in DOMAIN t.chains, NEW f \in Knowledge
               PROVE  g[i + 1][c][f] \in Seq(Emissions)
    BY DEF WalkOK
  <2> DEFINE rules == t.chains[c].rules
             y(r)  == RuleYields(t, c, r, f, g[i])
             ys    == [r \in DOMAIN rules |-> y(r)]
  <2>3. g[i + 1][c][f] = FlattenSeq(ys)
    BY <1>1, <2>1, WalkStep
  <2>4. \A r \in DOMAIN rules : y(r) \in Seq(Emissions)
    BY <2>2, RuleYieldsTyped DEF WalkOK
  <2>5. DOMAIN rules = 1 .. Len(rules) /\ Len(rules) \in Nat
    BY ChainsAreOK
  <2> HIDE DEF rules, y
  <2>6. ys \in Seq(Seq(Emissions))
    BY <2>4, <2>5
  <2> HIDE DEF ys
  <2> QED
    BY <2>3, <2>6, FlattenIsSeq
<1>4. \A i \in Nat : i \in D
  <2> HIDE DEF D
  <2> QED
    BY <1>2, <1>3, Induction
<1> QED
  BY <1>1, <1>4

\* What the scan of a base chain finds is typed.
LEMMA FoundTyped ==
    ASSUME NEW t, TableOK(t), NEW c \in DOMAIN t.chains
    PROVE  WalkFrom(t, c) \in Seq(Emissions)
<1>1. MaxJumpDepth \in Nat /\ MaxJumpDepth + 1 \in 0 .. MaxJumpDepth + 1
  BY RulesetsAssumption
<1>2. PICK g : /\ WalkFrom(t, c) = g[MaxJumpDepth + 1][c][NoMatchYet]
               /\ \A i \in 0 .. MaxJumpDepth + 1 : g[i] = NextWalk(t, g, i)
  BY <1>1, WalkSteps
<1>3. WalkOK(t, g[MaxJumpDepth + 1])
  BY <1>1, <1>2, WalkTyped
<1>4. NoMatchYet \in Knowledge
  <2> DEFINE empty == ""
  <2>1. empty \in {"", "tcp", "udp", "other"}
    OBVIOUS
  <2>2. NoMatchYet = [proto |-> empty, ports |-> {}, refuse |-> FALSE]
    BY DEF NoMatchYet
  <2> HIDE DEF empty
  <2> QED
    BY <2>1, <2>2 DEF Knowledge
<1> QED
  BY <1>2, <1>3, <1>4 DEF WalkOK

(***************************************************************************)
(* The scan of a ruleset is typed, and a port has one row                  *)
(***************************************************************************)
SameRow(S) == \A e, f \in S : Key(e) = Key(f) => e = f

\* A row is its key and its target.
LEMMA KeysAndTargets ==
    ASSUME NEW d \in Endpoints, NEW e \in Endpoints, Key(d) = Key(e), d.to = e.to
    PROVE  d = e
<1>1. d.family = e.family /\ d.proto = e.proto /\ d.port = e.port
  BY DEF Key
<1> QED
  BY <1>1 DEF Endpoints

\* One emission has one row for each port.
LEMMA RowsOfEmission ==
    ASSUME NEW m \in Emissions
    PROVE  m.eps \subseteq Endpoints /\ SameRow(m.eps) /\ m.notes \subseteq Nat \X Nat
<1>1. m.eps \subseteq Endpoints /\ m.notes \subseteq Nat \X Nat /\ \A d, e \in m.eps : d.to = e.to
  BY DEF Emissions
<1> QED
  BY <1>1, KeysAndTargets DEF SameRow

\* The first row of each port is kept, and it is the only one.
LEMMA FirstOfEachIs ==
    ASSUME NEW found \in Seq(Emissions), NEW known \in SUBSET Endpoints, SameRow(known)
    PROVE  /\ FirstOfEach(found, known) \subseteq Endpoints
           /\ SameRow(known \union FirstOfEach(found, known))
           /\ \A i \in DOMAIN found : \A e \in found[i].eps :
                 \E k \in known \union FirstOfEach(found, known) : Key(k) = Key(e)
<1> DEFINE Fresh(i, e) ==
               /\ \A k \in known : Key(k) # Key(e)
               /\ \A j \in 1 .. i - 1 : \A k \in found[j].eps : Key(k) # Key(e)
           new == FirstOfEach(found, known)
<1>1. DOMAIN found = 1 .. Len(found) /\ Len(found) \in Nat /\ \A i \in DOMAIN found : found[i] \in Emissions
  OBVIOUS
<1>2. \A e : e \in new <=> \E i \in DOMAIN found : e \in found[i].eps /\ Fresh(i, e)
  BY DEF FirstOfEach
<1> HIDE DEF new
<1>3. new \subseteq Endpoints
  BY <1>1, <1>2, RowsOfEmission
<1>4. ASSUME NEW d \in new, NEW e \in new, Key(d) = Key(e)
      PROVE  d = e
  <2>1. PICK i \in DOMAIN found : d \in found[i].eps /\ Fresh(i, d)
    BY <1>2
  <2>2. PICK j \in DOMAIN found : e \in found[j].eps /\ Fresh(j, e)
    BY <1>2
  <2>3. ~(i < j)
    <3>1. i < j => i \in 1 .. j - 1
      BY <1>1
    <3> QED
      BY <1>4, <2>1, <2>2, <3>1
  <2>4. ~(j < i)
    <3>1. j < i => j \in 1 .. i - 1
      BY <1>1
    <3> QED
      BY <1>4, <2>1, <2>2, <3>1
  <2>5. i = j
    BY <1>1, <2>3, <2>4
  <2>6. SameRow(found[i].eps)
    BY <1>1, RowsOfEmission
  <2> HIDE DEF Fresh
  <2> QED
    BY <1>4, <2>1, <2>2, <2>5, <2>6 DEF SameRow
<1>5. \A d \in known : \A e \in new : Key(d) # Key(e)
  BY <1>2
<1>6. SameRow(known \union new)
  <2> SUFFICES ASSUME NEW d \in known \union new, NEW e \in known \union new, Key(d) = Key(e)
               PROVE  d = e
    BY DEF SameRow
  <2> HIDE DEF Fresh
  <2> QED
    BY <1>4, <1>5 DEF SameRow
<1>7. \A i \in DOMAIN found : \A e \in found[i].eps : \E k \in known \union new : Key(k) = Key(e)
  <2> DEFINE Kept(e) == \E k \in known \union new : Key(k) = Key(e)
             D == {n \in Nat : \A i \in DOMAIN found : i <= n => \A e \in found[i].eps : Kept(e)}
  <2>1. 0 \in D
    BY <1>1
  <2>2. ASSUME NEW n \in Nat, n \in D
        PROVE  n + 1 \in D
    <3> SUFFICES ASSUME NEW i \in DOMAIN found, i = n + 1, NEW e \in found[i].eps
                 PROVE  Kept(e)
      BY <1>1, <2>2
    <3>1. CASE Fresh(i, e)
      <4>1. e \in new
        BY <1>2, <3>1
      <4> QED
        BY <4>1
    <3>2. CASE \E k \in known : Key(k) = Key(e)
      BY <3>2
    <3>3. CASE \E j \in 1 .. i - 1 : \E k \in found[j].eps : Key(k) = Key(e)
      <4>1. PICK j \in 1 .. i - 1 : \E k \in found[j].eps : Key(k) = Key(e)
        BY <3>3
      <4>2. PICK k \in found[j].eps : Key(k) = Key(e)
        BY <4>1
      <4>3. j \in DOMAIN found /\ j <= n
        BY <1>1
      <4>4. Kept(k)
        BY <2>2, <4>3
      <4> QED
        BY <4>2, <4>4
    <3> QED
      BY <3>1, <3>2, <3>3
  <2>3. \A n \in Nat : n \in D
    <3> HIDE DEF D
    <3> QED
      BY <2>1, <2>2, Induction
  <2>4. ASSUME NEW i \in DOMAIN found, NEW e \in found[i].eps
        PROVE  Kept(e)
    <3>1. i \in Nat /\ i <= i
      BY <1>1
    <3> QED
      BY <2>3, <3>1
  <2> QED
    BY <2>4
<1> QED
  BY <1>3, <1>6, <1>7 DEF new

\* The inductive invariant behind TypeOK and OneRowPerPort.
TypeInv ==
    /\ tables \in Rulesets
    /\ at = <<at[1], at[2]>> /\ at[1] \in 1 .. Len(tables) + 1 /\ at[2] \in Nat \ {0}
    /\ eps \subseteq Endpoints
    /\ notes \subseteq Nat \X Nat \X Nat
    /\ OneRowPerPort

\* What one chain adds.
LEMMA ScannedChain ==
    ASSUME TypeInv, InTable
    PROVE  LET found == WalkFrom(tables[at[1]], at[2])
           IN  /\ TableOK(tables[at[1]])
               /\ at[1] \in DOMAIN tables /\ at[2] \in DOMAIN tables[at[1]].chains
               /\ found \in Seq(Emissions)
               /\ FirstOfEach(found, eps) \subseteq Endpoints
               /\ SameRow(eps \union FirstOfEach(found, eps))
               /\ \A i \in DOMAIN found : \A e \in found[i].eps :
                     \E k \in eps \union FirstOfEach(found, eps) : Key(k) = Key(e)
<1> DEFINE t     == tables[at[1]]
           found == WalkFrom(t, at[2])
<1>1. at[1] \in DOMAIN tables
  BY TablesAreOK DEF TypeInv, InTable, More
<1>2. TableOK(t)
  BY <1>1, TablesAreOK DEF TypeInv
<1>3. at[2] \in DOMAIN t.chains
  BY <1>2, ChainsAreOK DEF TypeInv, InTable
<1>4. found \in Seq(Emissions)
  BY <1>2, <1>3, FoundTyped
<1>5. eps \in SUBSET Endpoints /\ SameRow(eps)
  BY DEF TypeInv, OneRowPerPort, SameRow
<1> HIDE DEF found
<1> QED
  BY <1>1, <1>2, <1>3, <1>4, <1>5, FirstOfEachIs DEF found

\* The notes of one chain.
LEMMA NotesAreTyped ==
    ASSUME NEW t \in Nat, NEW found \in Seq(Emissions)
    PROVE  UNION {{<<t, n[1], n[2]>> : n \in found[i].notes} : i \in DOMAIN found}
              \subseteq Nat \X Nat \X Nat
<1>1. ASSUME NEW i \in DOMAIN found, NEW n \in found[i].notes
      PROVE  <<t, n[1], n[2]>> \in Nat \X Nat \X Nat
  <2>1. found[i] \in Emissions
    OBVIOUS
  <2>2. n \in Nat \X Nat
    BY <2>1, RowsOfEmission
  <2> QED
    BY <2>2
<1> QED
  BY <1>1

\* No chain is scanned yet.
LEMMA TypeInvInit == Init => TypeInv
<1> SUFFICES ASSUME Init
             PROVE  TypeInv
  OBVIOUS
<1>1. tables \in Rulesets /\ at = <<1, 1>> /\ eps = {} /\ notes = {}
  BY DEF Init
<1>2. Len(tables) \in Nat
  BY <1>1, TablesAreOK
<1> QED
  BY <1>1, <1>2 DEF TypeInv, OneRowPerPort

\* One case for each action.
LEMMA TypeInvNext == TypeInv /\ [Next]_vars => TypeInv'
<1> SUFFICES ASSUME TypeInv, [Next]_vars
             PROVE  TypeInv'
  OBVIOUS
<1>1. /\ tables \in Rulesets /\ Len(tables) \in Nat
      /\ at = <<at[1], at[2]>> /\ at[1] \in 1 .. Len(tables) + 1 /\ at[2] \in Nat \ {0}
      /\ eps \subseteq Endpoints /\ notes \subseteq Nat \X Nat \X Nat
      /\ \A e, f \in eps : Key(e) = Key(f) => e = f
  BY TablesAreOK DEF TypeInv, OneRowPerPort
<1>2. CASE ScanChain
  <2> DEFINE found == WalkFrom(tables[at[1]], at[2])
             more  == UNION {{<<at[1], n[1], n[2]>> : n \in found[i].notes} : i \in DOMAIN found}
  <2>1. /\ eps' = eps \union FirstOfEach(found, eps) /\ notes' = notes \union more
        /\ tables' = tables /\ at' = <<at[1], at[2] + 1>>
    BY <1>2 DEF ScanChain, NextChain
  <2>2. /\ found \in Seq(Emissions) /\ FirstOfEach(found, eps) \subseteq Endpoints
        /\ SameRow(eps \union FirstOfEach(found, eps))
    BY <1>2, ScannedChain DEF ScanChain
  <2>3. more \subseteq Nat \X Nat \X Nat
    BY <1>1, <2>2, NotesAreTyped
  <2> HIDE DEF found, more
  <2>4. at' = <<at'[1], at'[2]>> /\ at'[1] \in 1 .. Len(tables') + 1 /\ at'[2] \in Nat \ {0}
    BY <1>1, <2>1
  <2>5. eps' \subseteq Endpoints /\ notes' \subseteq Nat \X Nat \X Nat
    BY <1>1, <2>1, <2>2, <2>3
  <2>6. OneRowPerPort'
    BY <2>1, <2>2 DEF OneRowPerPort, SameRow
  <2> QED
    BY <1>1, <2>1, <2>4, <2>5, <2>6 DEF TypeInv
<1>3. CASE SkipChain
  <2>1. eps' = eps /\ notes' = notes /\ tables' = tables /\ at' = <<at[1], at[2] + 1>>
    BY <1>3 DEF SkipChain, NextChain
  <2> QED
    BY <1>1, <2>1 DEF TypeInv, OneRowPerPort
<1>4. CASE NextTable
  <2>1. eps' = eps /\ notes' = notes /\ tables' = tables /\ at' = <<at[1] + 1, 1>> /\ at[1] <= Len(tables)
    BY <1>4 DEF NextTable, More
  <2> QED
    BY <1>1, <2>1 DEF TypeInv, OneRowPerPort
<1>5. CASE Done \/ UNCHANGED vars
  <2>1. eps' = eps /\ notes' = notes /\ tables' = tables /\ at' = at
    BY <1>5 DEF Done, vars
  <2> QED
    BY <1>1, <2>1 DEF TypeInv, OneRowPerPort
<1> QED
  BY <1>2, <1>3, <1>4, <1>5 DEF Next

(* The scan keeps to what its types say (forwards.go:103-114, 301-307), for *)
(* every ruleset the kernel can hold.                                       *)
THEOREM Types == Spec => []TypeOK
<1>1. TypeInv => TypeOK
  BY DEF TypeInv, TypeOK, Endpoints, Targets
<1> QED
  BY <1>1, TypeInvInit, TypeInvNext, PTL DEF Spec

(* Two rules that forward one port are one row (forwards.go:70-76).        *)
THEOREM PortsHaveOneRow == Spec => []OneRowPerPort
<1>1. TypeInv => OneRowPerPort
  BY DEF TypeInv
<1> QED
  BY <1>1, TypeInvInit, TypeInvNext, PTL DEF Spec

(***************************************************************************)
(* The scan of a rule follows the match of a packet: while the rule        *)
(* matches, what is known of the packets holds of this one, a register is  *)
(* said to hold what it holds, and both end with the same action.          *)
(***************************************************************************)
MachineFields == {"regs", "act", "out"}
Leaving       == {"jump", "goto", "dnat"}

MachineOK(m) ==
    /\ DOMAIN m = MachineFields
    /\ m.out \in {Blank, "NoMatch", "Unknown", "Skipped"}

\* What is known of the packets is true of this one.
Admits(f, pkt) ==
    /\ f.proto \in {Blank, pkt.proto}
    /\ f.ports = {} \/ pkt.dport \in f.ports \/ f.refuse

\* A register the scan says holds a field holds the packet's.
FieldsFollow(pkt, fields, regs) ==
    \A r \in DOMAIN fields :
        /\ fields[r] = "dport" => r \in DOMAIN regs /\ regs[r] = PortBytes(pkt.dport)
        /\ fields[r] = "l4proto" => r \in DOMAIN regs /\ regs[r] = ProtoNumber(pkt.proto)

\* An immediate that was not overwritten is in its register.
ImmediatesFollow(rule, i, imm, regs) ==
    \A r \in DOMAIN imm :
        /\ \E j \in 1 .. i : rule[j].k = "immediate" /\ rule[j].reg = r
        /\ ~Overwritten(rule, r, i + 1) => r \in DOMAIN regs /\ regs[r] = imm[r]

\* What the rule does with the packet is the end the scan came to.
ActFollows(pkt, family, s, act) ==
    /\ act.kind \in {"jump", "goto"} => s.end = "walks" /\ s.arg = act.chain
    /\ act.kind = "dnat" /\ Fits(pkt, act.dnat.ip) =>
          s.end = "rewrites" /\ RowFamily(family, pkt, act.dnat.ip) \in Families(family, s.arg)

\* After i expressions: while neither side has ended the scan follows the
\* registers, and the scan ends only with the rule.
Follows(pkt, family, rule, i, s, m) ==
    /\ ScanOK(s) /\ MachineOK(m)
    /\ Admits(s.f, pkt)
    /\ s.end = Blank => /\ FieldsFollow(pkt, s.fields, m.regs)
                     /\ ImmediatesFollow(rule, i, s.imm, m.regs)
                     /\ m.act.kind \notin Leaving
    /\ s.end # Blank => i = Len(rule) /\ ActFollows(pkt, family, s, m.act)

\* The machine changes one of its parts.
LEMMA EndsIs ==
    ASSUME NEW m, DOMAIN m = MachineFields, NEW x
    PROVE  DOMAIN Ends(m, x) = MachineFields /\ Ends(m, x).out = x
BY DEF Ends, MachineFields

LEMMA ActsIs ==
    ASSUME NEW m, DOMAIN m = MachineFields, NEW x
    PROVE  /\ DOMAIN [m EXCEPT !.act = x] = MachineFields
           /\ [m EXCEPT !.act = x].regs = m.regs
           /\ [m EXCEPT !.act = x].act = x /\ [m EXCEPT !.act = x].out = m.out
BY DEF MachineFields

\* The machine of a rule that is not yet read.
LEMMA StartIs ==
    DOMAIN Start = MachineFields /\ Start.regs = <<>> /\ Start.act = Nothing /\ Start.out = Blank
<1>1. Start = [regs |-> <<>>, act |-> Nothing, out |-> Blank]
  BY DEF Start, Blank
<1>2. DOMAIN Start = MachineFields /\ Start.regs = <<>> /\ Start.act = Nothing /\ Start.out = Blank
  BY <1>1 DEF MachineFields
<1> QED
  BY <1>2

LEMMA ActIs ==
    ASSUME NEW kind, NEW chain, NEW dnat
    PROVE  /\ Act(kind, chain, dnat).kind = kind
           /\ Act(kind, chain, dnat).chain = chain
           /\ Act(kind, chain, dnat).dnat = dnat
BY DEF Act

(* Registers *)
\* A load keeps the registers' fields true when its own field is.
LEMMA FieldsStayFilled ==
    ASSUME NEW pkt, NEW fields, NEW regs, FieldsFollow(pkt, fields, regs), NEW r, NEW field, NEW v,
           field = "dport" => v = PortBytes(pkt.dport),
           field = "l4proto" => v = ProtoNumber(pkt.proto)
    PROVE  FieldsFollow(pkt, Filling(fields, r, field), Filling(regs, r, v))
<1> DEFINE F == Filling(fields, r, field)
           R == Filling(regs, r, v)
<1>1. /\ DOMAIN F = DOMAIN fields \union {r} /\ F[r] = field
      /\ \A x \in DOMAIN fields : x # r => F[x] = fields[x]
  BY DEF Filling
<1>2. /\ DOMAIN R = DOMAIN regs \union {r} /\ R[r] = v
      /\ \A x \in DOMAIN regs : x # r => R[x] = regs[x]
  BY DEF Filling
<1> HIDE DEF F, R
<1>3. ASSUME NEW x \in DOMAIN F
      PROVE  /\ F[x] = "dport" => x \in DOMAIN R /\ R[x] = PortBytes(pkt.dport)
             /\ F[x] = "l4proto" => x \in DOMAIN R /\ R[x] = ProtoNumber(pkt.proto)
  <2>1. CASE x = r
    BY <1>1, <1>2, <2>1
  <2>2. CASE x # r
    BY <1>1, <1>2, <2>2 DEF FieldsFollow
  <2> QED
    BY <2>1, <2>2
<1>4. FieldsFollow(pkt, F, R)
  BY <1>3 DEF FieldsFollow
<1> QED
  BY <1>4 DEF F, R

\* An overwritten register stays so until an immediate fills it again.
LEMMA OverwrittenStays ==
    ASSUME NEW rule, NEW r, NEW i \in Nat, ~(rule[i + 1].k = "immediate" /\ rule[i + 1].reg = r),
           Overwritten(rule, r, i + 1)
    PROVE  Overwritten(rule, r, i + 2)
<1>1. /\ (i + 1) - 1 = i /\ (i + 2) - 1 = i + 1
      /\ \A a \in Int : \A k \in a .. i : k \in a .. i + 1
      /\ \A a \in Int : \A k \in a .. i + 1 : k = i + 1 \/ k \in a .. i
  OBVIOUS
<1>2. PICK j \in 1 .. i : \E k \in j + 1 .. i :
          /\ rule[j].k = "immediate" /\ rule[j].reg = r
          /\ rule[k].k \in Loading /\ rule[k].reg = r
          /\ \A l \in k + 1 .. i : ~(rule[l].k = "immediate" /\ rule[l].reg = r)
  BY <1>1 DEF Overwritten
<1>3. PICK k \in j + 1 .. i :
          /\ rule[j].k = "immediate" /\ rule[j].reg = r
          /\ rule[k].k \in Loading /\ rule[k].reg = r
          /\ \A l \in k + 1 .. i : ~(rule[l].k = "immediate" /\ rule[l].reg = r)
  BY <1>2
<1>4. \A l \in k + 1 .. i + 1 : ~(rule[l].k = "immediate" /\ rule[l].reg = r)
  <2>1. \A l \in k + 1 .. i + 1 : l = i + 1 \/ l \in k + 1 .. i
    BY <1>1
  <2> QED
    BY <1>3, <2>1
<1>5. j \in 1 .. i + 1 /\ k \in j + 1 .. i + 1
  OBVIOUS
<1> QED
  BY <1>1, <1>3, <1>4, <1>5 DEF Overwritten

\* An expression that fills no register leaves the immediates.
LEMMA ImmediatesStay ==
    ASSUME NEW rule, NEW i \in Nat, NEW imm, NEW regs, ImmediatesFollow(rule, i, imm, regs),
           rule[i + 1].k # "immediate"
    PROVE  ImmediatesFollow(rule, i + 1, imm, regs)
<1>1. (i + 1) + 1 = i + 2 /\ \A j \in 1 .. i : j \in 1 .. i + 1
  OBVIOUS
<1> SUFFICES ASSUME NEW r \in DOMAIN imm
             PROVE  /\ \E j \in 1 .. i + 1 : rule[j].k = "immediate" /\ rule[j].reg = r
                    /\ ~Overwritten(rule, r, i + 2) => r \in DOMAIN regs /\ regs[r] = imm[r]
  BY <1>1 DEF ImmediatesFollow
<1>2. \E j \in 1 .. i : rule[j].k = "immediate" /\ rule[j].reg = r
  BY DEF ImmediatesFollow
<1>3. ~Overwritten(rule, r, i + 2) => ~Overwritten(rule, r, i + 1)
  BY OverwrittenStays
<1> QED
  BY <1>1, <1>2, <1>3 DEF ImmediatesFollow

\* A load over an immediate makes it one that was overwritten.
LEMMA ImmediatesStayLoaded ==
    ASSUME NEW rule, NEW i \in Nat, NEW imm, NEW regs, ImmediatesFollow(rule, i, imm, regs),
           rule[i + 1].k \in Loading, NEW v
    PROVE  ImmediatesFollow(rule, i + 1, imm, Filling(regs, rule[i + 1].reg, v))
<1>1. /\ (i + 1) + 1 = i + 2 /\ \A j \in 1 .. i : j \in 1 .. i + 1
      /\ (i + 2) - 1 = i + 1 /\ (i + 1) + 1 .. i + 1 = {}
      /\ \A j \in 1 .. i : i + 1 \in j + 1 .. i + 1
  OBVIOUS
<1>2. rule[i + 1].k # "immediate"
  BY DEF Loading
<1> DEFINE R == Filling(regs, rule[i + 1].reg, v)
<1>3. \A x \in DOMAIN regs : x \in DOMAIN R /\ (x # rule[i + 1].reg => R[x] = regs[x])
  BY DEF Filling
<1> HIDE DEF R
<1>4. ASSUME NEW r \in DOMAIN imm
      PROVE  /\ \E j \in 1 .. i + 1 : rule[j].k = "immediate" /\ rule[j].reg = r
             /\ ~Overwritten(rule, r, i + 2) => r \in DOMAIN R /\ R[r] = imm[r]
  <2>1. PICK j \in 1 .. i : rule[j].k = "immediate" /\ rule[j].reg = r
    BY DEF ImmediatesFollow
  <2>2. CASE r = rule[i + 1].reg
    <3>1. j \in 1 .. i + 1 /\ i + 1 \in j + 1 .. i + 1
      BY <1>1
    <3>2. \A l \in (i + 1) + 1 .. i + 1 : ~(rule[l].k = "immediate" /\ rule[l].reg = r)
      BY <1>1
    <3>3. Overwritten(rule, r, i + 2)
      BY <1>1, <2>1, <2>2, <3>1, <3>2 DEF Overwritten
    <3> QED
      BY <1>1, <2>1, <3>3
  <2>3. CASE r # rule[i + 1].reg
    <3>1. ~Overwritten(rule, r, i + 2) => ~Overwritten(rule, r, i + 1)
      BY <1>2, OverwrittenStays
    <3> QED
      BY <1>1, <1>3, <2>1, <2>3, <3>1 DEF ImmediatesFollow
  <2> QED
    BY <2>2, <2>3
<1>5. ImmediatesFollow(rule, i + 1, imm, R)
  BY <1>1, <1>4 DEF ImmediatesFollow
<1> QED
  BY <1>5 DEF R

\* An immediate holds what it filled its register with.
LEMMA ImmediatesStayFilled ==
    ASSUME NEW rule, NEW i \in Nat, NEW imm, NEW regs, ImmediatesFollow(rule, i, imm, regs),
           rule[i + 1].k = "immediate", NEW v
    PROVE  ImmediatesFollow(rule, i + 1, Filling(imm, rule[i + 1].reg, v),
                            Filling(regs, rule[i + 1].reg, v))
<1>1. (i + 1) + 1 = i + 2 /\ i + 1 \in 1 .. i + 1 /\ \A j \in 1 .. i : j \in 1 .. i + 1
  OBVIOUS
<1> DEFINE reg == rule[i + 1].reg
           R   == Filling(regs, reg, v)
           I   == Filling(imm, reg, v)
<1>2. /\ DOMAIN R = DOMAIN regs \union {reg} /\ R[reg] = v
      /\ \A x \in DOMAIN regs : x # reg => R[x] = regs[x]
  BY DEF Filling
<1>3. /\ DOMAIN I = DOMAIN imm \union {reg} /\ I[reg] = v
      /\ \A x \in DOMAIN imm : x # reg => I[x] = imm[x]
  BY DEF Filling
<1> HIDE DEF R, I
<1>4. ASSUME NEW r \in DOMAIN I
      PROVE  /\ \E j \in 1 .. i + 1 : rule[j].k = "immediate" /\ rule[j].reg = r
             /\ ~Overwritten(rule, r, i + 2) => r \in DOMAIN R /\ R[r] = I[r]
  <2>1. CASE r = reg
    BY <1>1, <1>2, <1>3, <2>1
  <2>2. CASE r # reg
    <3>1. r \in DOMAIN imm /\ I[r] = imm[r]
      BY <1>3, <2>2
    <3>2. ~Overwritten(rule, r, i + 2) => ~Overwritten(rule, r, i + 1)
      BY <2>2, OverwrittenStays
    <3>3. \E j \in 1 .. i : rule[j].k = "immediate" /\ rule[j].reg = r
      BY <3>1 DEF ImmediatesFollow
    <3> HIDE DEF reg
    <3> QED
      BY <1>1, <1>2, <2>2, <3>1, <3>2, <3>3 DEF ImmediatesFollow
  <2> QED
    BY <2>1, <2>2
<1>5. ImmediatesFollow(rule, i + 1, I, R)
  BY <1>1, <1>4 DEF ImmediatesFollow
<1> QED
  BY <1>5 DEF R, I

(* Knowledge *)
PacketOK(pkt) ==
    /\ pkt.proto \in {"tcp", "udp"} /\ pkt.dport \in Ports
    /\ pkt.family \in {"ip", "ip6"}
    /\ Len(pkt.dst) = (IF pkt.family = "ip" THEN 4 ELSE 16)

\* A port's bytes are read back as the port.
LEMMA PortBytesAre ==
    ASSUME NEW p \in Ports
    PROVE  /\ PortBytes(p) \in Seq(Nat) /\ Len(PortBytes(p)) = 2 /\ PortBytes(p) # Refused
           /\ PortOf(PortBytes(p)) = p
           /\ Truncate(PortBytes(p), 2) = PortBytes(p)
<1> DEFINE a == p \div 256
           b == p % 256
<1>1. a \in Nat /\ b \in Nat /\ p = a * 256 + b
  <2>1. p \in Int /\ 0 <= p
    BY PortsAre, SMT
  <2> QED
    BY <2>1, SMT
<1>2. PortBytes(p) = <<a, b>>
  BY DEF PortBytes
<1> HIDE DEF a, b
<1> DEFINE s == <<a, b>>
<1>3. s \in Seq(Nat) /\ Len(s) = 2 /\ s # <<>> /\ s[1] = a /\ s[2] = b
  BY <1>1
<1>4. PortOf(s) = p
  <2>1. PortOf(s) = s[1] * 256 + s[2]
    BY DEF PortOf
  <2> HIDE DEF s
  <2> QED
    BY <1>1, <1>3, <2>1
<1>5. SubSeq(s, 1, 2) = s
  <2> HIDE DEF s
  <2> QED
    BY <1>3
<1> QED
  BY <1>2, <1>3, <1>4, <1>5 DEF Truncate, Refused

LEMMA TruncatedIs ==
    ASSUME NEW v \in Seq(Nat), NEW n \in Nat, n <= Len(v)
    PROVE  Len(Truncate(v, n)) = n /\ (n = Len(v) => Truncate(v, n) = v)
BY DEF Truncate

\* A protocol's number is read back as the protocol.
LEMMA ProtoNumberIs ==
    ASSUME NEW pr \in {"tcp", "udp"}
    PROVE  /\ ProtoNumber(pr) \in Seq(Nat) /\ Len(ProtoNumber(pr)) = 1 /\ ProtoNumber(pr) # Refused
           /\ ProtoOf(ProtoNumber(pr)) = pr
<1>1. CASE pr = "tcp"
  <2>1. ProtoNumber(pr) = <<6>>
    BY <1>1 DEF ProtoNumber
  <2>2. ProtoOf(<<6>>) = "tcp"
    BY DEF ProtoOf
  <2>3. <<6>> \in Seq(Nat) /\ Len(<<6>>) = 1 /\ <<6>> # <<>>
    OBVIOUS
  <2> QED
    BY <1>1, <2>1, <2>2, <2>3 DEF Refused
<1>2. CASE pr = "udp"
  <2>1. ProtoNumber(pr) = <<17>>
    BY <1>2 DEF ProtoNumber
  <2>2. <<17>> # <<6>>
    <3>1. <<17>>[1] = 17 /\ <<6>>[1] = 6
      OBVIOUS
    <3> QED
      BY <3>1
  <2>3. ProtoOf(<<17>>) = "udp"
    BY <2>2 DEF ProtoOf
  <2>4. <<17>> \in Seq(Nat) /\ Len(<<17>>) = 1 /\ <<17>> # <<>>
    OBVIOUS
  <2> QED
    BY <1>2, <2>1, <2>3, <2>4 DEF Refused
<1> QED
  BY <1>1, <1>2

\* Giving up admits every packet.
LEMMA AdmitsRefuse ==
    ASSUME NEW f \in Knowledge, NEW pkt, Admits(f, pkt)
    PROVE  Admits(Refuse(f), pkt)
BY KnowledgeParts DEF Admits

\* A set of ports that has the packet's may be added.
LEMMA AdmitsPorts ==
    ASSUME NEW f \in Knowledge, NEW pkt, Admits(f, pkt), NEW P \in SUBSET Ports, pkt.dport \in P
    PROVE  Admits([f EXCEPT !.ports = @ \union P], pkt)
<1> DEFINE g == [f EXCEPT !.ports = @ \union P]
<1>1. g.proto = f.proto /\ g.ports = f.ports \union P
  BY KnowledgeParts
<1> HIDE DEF g
<1>2. Admits(g, pkt)
  BY <1>1 DEF Admits
<1> QED
  BY <1>2 DEF g

\* So may the packet's protocol.
LEMMA AdmitsProto ==
    ASSUME NEW f \in Knowledge, NEW pkt, Admits(f, pkt), pkt.proto \in {"tcp", "udp"}
    PROVE  Admits([f EXCEPT !.proto = pkt.proto], pkt)
<1> DEFINE g == [f EXCEPT !.proto = pkt.proto]
<1>1. g.proto = pkt.proto /\ g.ports = f.ports /\ g.refuse = f.refuse
  BY KnowledgeParts
<1> HIDE DEF g
<1>2. Admits(g, pkt)
  BY <1>1 DEF Admits
<1> QED
  BY <1>2 DEF g

\* A compare that held.
LEMMA AdmitsCmp ==
    ASSUME NEW f \in Knowledge, NEW pkt, PacketOK(pkt), Admits(f, pkt),
           NEW e, e.data \in Operands, e.data # Undecodable,
           NEW v, Len(v) >= Len(e.data), e.op = "eq" => Truncate(v, Len(e.data)) = e.data,
           NEW field, field = "dport" => v = PortBytes(pkt.dport),
           field = "l4proto" => v = ProtoNumber(pkt.proto)
    PROVE  Admits(CmpConstraint(f, field, e), pkt)
<1>1. e.data \in Seq(Byte) /\ Len(e.data) \in Nat /\ Len(e.data) >= 1
  <2> DEFINE d == e.data
  <2>1. d \in Seq(Byte) /\ d # <<>>
    BY DEF Operands
  <2> HIDE DEF d
  <2>2. Len(d) \in Nat /\ Len(d) >= 1
    BY <2>1
  <2> QED
    BY <2>1, <2>2 DEF d
<1>2. Admits(Refuse(f), pkt)
  BY AdmitsRefuse
<1>3. CASE field = "dport" /\ e.op = "eq" /\ IsPort(e.data)
  <2>1. v = PortBytes(pkt.dport) /\ Truncate(v, 2) = e.data
    BY <1>3 DEF IsPort
  <2>2. PortOf(e.data) = pkt.dport
    BY <2>1, PortBytesAre DEF PacketOK
  <2>3. {pkt.dport} \in SUBSET Ports
    BY DEF PacketOK
  <2>4. Admits([f EXCEPT !.ports = @ \union {pkt.dport}], pkt)
    BY <2>3, AdmitsPorts
  <2> QED
    BY <1>3, <2>2, <2>4 DEF CmpConstraint
<1>4. CASE field = "dport" /\ ~(e.op = "eq" /\ IsPort(e.data))
  BY <1>2, <1>4 DEF CmpConstraint
<1>5. CASE field = "l4proto" /\ e.op = "eq"
  <2>1. /\ v = ProtoNumber(pkt.proto) /\ v \in Seq(Nat) /\ Len(v) = 1
        /\ ProtoOf(v) = pkt.proto
    BY <1>5, ProtoNumberIs DEF PacketOK
  <2>2. Len(e.data) = 1
    BY <1>1, <2>1
  <2>3. e.data = v
    BY <1>5, <2>1, <2>2, TruncatedIs
  <2>4. Admits([f EXCEPT !.proto = pkt.proto], pkt)
    BY AdmitsProto DEF PacketOK
  <2> QED
    BY <1>5, <2>1, <2>3, <2>4 DEF CmpConstraint
<1>6. CASE field = "l4proto" /\ e.op # "eq"
  BY <1>2, <1>6 DEF CmpConstraint
<1>7. CASE field \notin {"dport", "l4proto"}
  BY <1>7 DEF CmpConstraint
<1> QED
  BY <1>3, <1>4, <1>5, <1>6, <1>7

\* A lookup finds one set of the table, or none.
LEMMA FoundSet ==
    ASSUME NEW sets, sets \in Seq(Range(sets)), NEW e
    PROVE  /\ FindSet(e, sets) \subseteq Range(sets)
           /\ \A x, y \in FindSet(e, sets) : x = y
<1> DEFINE named == {i \in DOMAIN sets : IF e.set # "" THEN sets[i].name = e.set
                                         ELSE e.setID # 0 /\ sets[i].id = e.setID}
<1>1. FindSet(e, sets) = {sets[i] : i \in {j \in named : \A k \in named : j <= k}}
  BY DEF FindSet
<1>2. named \subseteq DOMAIN sets /\ DOMAIN sets \subseteq Int
  <2>1. DOMAIN sets = 1 .. Len(sets)
    OBVIOUS
  <2>2. named \subseteq DOMAIN sets
    OBVIOUS
  <2> HIDE DEF named
  <2> QED
    BY <2>1, <2>2
<1> HIDE DEF named
<1>3. \A i, j \in named : i <= j /\ j <= i => i = j
  BY <1>2
<1> QED
  BY <1>1, <1>2, <1>3 DEF Range

\* A lookup that hit.
LEMMA AdmitsLookup ==
    ASSUME NEW f \in Knowledge, NEW pkt, PacketOK(pkt), Admits(f, pkt),
           NEW sets, SetsOK(sets), sets \in Seq(Range(sets)), NEW e, e.invert \in BOOLEAN,
           NEW v, LookupMatch(v, e, sets) = "hit",
           NEW field, field = "dport" => v = PortBytes(pkt.dport)
    PROVE  Admits(LookupConstraint(f, field, sets, e), pkt)
<1> DEFINE P == SetPorts(sets, e)
<1>1. CASE field # "dport"
  BY <1>1 DEF LookupConstraint
<1>2. CASE field = "dport" /\ P = {}
  <2>1. Admits(Refuse(f), pkt)
    BY AdmitsRefuse
  <2> QED
    BY <1>2, <2>1 DEF LookupConstraint
<1>3. CASE field = "dport" /\ P # {}
  <2> DEFINE flat(x) == /\ ~e.invert /\ ~e.dest
                        /\ ~x.interval /\ ~x.isMap /\ ~x.concat /\ x.elements # <<>>
                        /\ \A el \in Range(x.elements) :
                              ~el.val /\ ~el.keyEnd /\ ~el.end /\ IsPort(el.key)
  <2>1. PICK s \in FindSet(e, sets) : flat(s)
    BY <1>3 DEF SetPorts
  <2>2. {PortOf(el.key) : el \in Range(s.elements)} \in P
    BY <2>1 DEF SetPorts
  <2>3. s \in Range(sets) /\ (CHOOSE x \in FindSet(e, sets) : TRUE) = s
    BY FoundSet
  <2>4. PICK el \in Range(s.elements) : el.key = Truncate(v, Len(s.elements[1].key))
    <3> DEFINE w       == Truncate(v, Len(s.elements[1].key))
               between == IntervalMember(w, s)
    <3>1. (IF s.interval THEN between ELSE FlatMember(w, s)) # e.invert
      BY <2>3 DEF LookupMatch
    <3>2. ~s.interval /\ e.invert = FALSE
      BY <2>1
    <3>3. FlatMember(w, s) \in BOOLEAN
      BY DEF FlatMember
    <3> HIDE DEF w, between
    <3>4. FlatMember(w, s) # FALSE
      BY <3>1, <3>2
    <3>5. FlatMember(w, s)
      BY <3>3, <3>4
    <3> QED
      BY <3>5 DEF FlatMember, w
  <2>5. Len(s.elements[1].key) = 2
    <3>1. s.elements \in Seq(Range(s.elements)) /\ s.elements # <<>>
      BY <2>1, <2>3 DEF SetsOK
    <3>2. s.elements[1] \in Range(s.elements)
      BY <3>1
    <3> QED
      BY <2>1, <3>2 DEF IsPort
  <2>6. PortOf(el.key) = pkt.dport
    BY <1>3, <2>4, <2>5, PortBytesAre DEF PacketOK
  <2>7. pkt.dport \in UNION P
    BY <2>2, <2>6
  <2>8. UNION P \in SUBSET Ports
    BY SetPortsAre
  <2> HIDE DEF P
  <2>9. Admits([f EXCEPT !.ports = @ \union UNION P], pkt)
    BY <2>7, <2>8, AdmitsPorts
  <2> QED
    BY <1>3, <2>9 DEF LookupConstraint, P
<1> QED
  BY <1>1, <1>2, <1>3

(* What both sides do at once *)
\* Neither side moves.
LEMMA StayFollows ==
    ASSUME NEW pkt, NEW family, NEW rule, NEW i \in Nat, NEW s, NEW m,
           Follows(pkt, family, rule, i, s, m), s.end = Blank, rule[i + 1].k # "immediate"
    PROVE  Follows(pkt, family, rule, i + 1, s, m)
<1>1. ImmediatesFollow(rule, i + 1, s.imm, m.regs)
  BY ImmediatesStay DEF Follows
<1> QED
  BY <1>1 DEF Follows

\* The scan learns what is true of the packet.
LEMMA KnowFollows ==
    ASSUME NEW pkt, NEW family, NEW rule, NEW i, NEW s, NEW m,
           Follows(pkt, family, rule, i, s, m), s.end = Blank,
           NEW f \in Knowledge, Admits(f, pkt)
    PROVE  Follows(pkt, family, rule, i, [s EXCEPT !.f = f], m)
<1> DEFINE n == [s EXCEPT !.f = f]
<1>1. DOMAIN s = ScanFields /\ ScanOK(n)
  BY ScanKnows DEF Follows, ScanOK
<1>2. n.f = f /\ n.fields = s.fields /\ n.imm = s.imm /\ n.end = s.end
  BY <1>1, KnowsIs
<1> HIDE DEF n
<1>3. Follows(pkt, family, rule, i, n, m)
  BY <1>1, <1>2 DEF Follows
<1> QED
  BY <1>3 DEF n

\* Both fill a register, with a field and with the packet's bytes.
LEMMA LoadFollows ==
    ASSUME NEW pkt, NEW family, NEW rule, NEW i \in Nat, NEW s, NEW m,
           Follows(pkt, family, rule, i, s, m), s.end = Blank, m.out = Blank,
           NEW e, e = rule[i + 1], e.k \in Loading,
           NEW field, NEW v,
           field = "dport" => v = PortBytes(pkt.dport),
           field = "l4proto" => v = ProtoNumber(pkt.proto)
    PROVE  Follows(pkt, family, rule, i + 1, Reads(s, e, field), Loads(m, e.reg, v))
<1> DEFINE n == Reads(s, e, field)
           l == Loads(m, e.reg, v)
<1>1. DOMAIN s = ScanFields /\ DOMAIN m = MachineFields
  BY DEF Follows, ScanOK, MachineOK
<1>2. ScanOK(n)
  BY ScanReads DEF Follows
<1>3. /\ n.fields = Filling(s.fields, e.reg, field) /\ n.imm = s.imm /\ n.f = s.f
      /\ n.end = s.end
  BY <1>1 DEF Reads, ScanFields
<1>4. /\ DOMAIN l = MachineFields /\ l.regs = Filling(m.regs, e.reg, v)
      /\ l.act = m.act /\ l.out = m.out
  BY <1>1 DEF Loads, MachineFields
<1>5. FieldsFollow(pkt, Filling(s.fields, e.reg, field), Filling(m.regs, e.reg, v))
  BY FieldsStayFilled DEF Follows
<1>6. ImmediatesFollow(rule, i + 1, s.imm, Filling(m.regs, e.reg, v))
  BY ImmediatesStayLoaded DEF Follows
<1> HIDE DEF n, l
<1>7. Follows(pkt, family, rule, i + 1, n, l)
  BY <1>2, <1>3, <1>4, <1>5, <1>6 DEF Follows, MachineOK
<1> QED
  BY <1>7 DEF n, l

\* Both fill a register with an immediate.
LEMMA FillFollows ==
    ASSUME NEW pkt, NEW family, NEW rule, NEW i \in Nat, NEW s, NEW m,
           Follows(pkt, family, rule, i, s, m), s.end = Blank, m.out = Blank,
           NEW e, e = rule[i + 1], e.k = "immediate", e.data \in Operands
    PROVE  Follows(pkt, family, rule, i + 1,
                   [Reads(s, e, "other") EXCEPT !.imm = Filling(@, e.reg, e.data)],
                   Loads(m, e.reg, e.data))
<1> DEFINE g == Reads(s, e, "other")
           n == [g EXCEPT !.imm = Filling(g.imm, e.reg, e.data)]
           l == Loads(m, e.reg, e.data)
<1>1. DOMAIN s = ScanFields /\ DOMAIN m = MachineFields
  BY DEF Follows, ScanOK, MachineOK
<1>2. ScanOK(g) /\ DOMAIN g = ScanFields
  BY ScanReads DEF Follows, ScanOK
<1>3. /\ g.fields = Filling(s.fields, e.reg, "other") /\ g.imm = s.imm /\ g.f = s.f
      /\ g.end = s.end
  BY <1>1 DEF Reads, ScanFields
<1>4. /\ DOMAIN l = MachineFields /\ l.regs = Filling(m.regs, e.reg, e.data)
      /\ l.act = m.act /\ l.out = m.out
  BY <1>1 DEF Loads, MachineFields
<1>5. FieldsFollow(pkt, Filling(s.fields, e.reg, "other"), Filling(m.regs, e.reg, e.data))
  BY FieldsStayFilled DEF Follows
<1>6. ImmediatesFollow(rule, i + 1, Filling(s.imm, e.reg, e.data), Filling(m.regs, e.reg, e.data))
  BY ImmediatesStayFilled DEF Follows
<1> HIDE DEF g, l
<1>7. ScanOK(n)
  BY <1>2, ScanHolds
<1>8. /\ n.imm = Filling(g.imm, e.reg, e.data) /\ n.fields = g.fields /\ n.f = g.f
      /\ n.end = g.end
  BY <1>2 DEF ScanFields
<1> HIDE DEF n
<1>9. Follows(pkt, family, rule, i + 1, n, l)
  BY <1>3, <1>4, <1>5, <1>6, <1>7, <1>8 DEF Follows, MachineOK
<1> QED
  BY <1>9 DEF n, g, l

\* The machine takes an action that leaves the packet in its chain.
LEMMA DoFollows ==
    ASSUME NEW pkt, NEW family, NEW rule, NEW i, NEW s, NEW m,
           Follows(pkt, family, rule, i, s, m), s.end = Blank,
           NEW act, act.kind \notin Leaving
    PROVE  Follows(pkt, family, rule, i, s, [m EXCEPT !.act = act])
<1> DEFINE l == [m EXCEPT !.act = act]
<1>1. DOMAIN m = MachineFields
  BY DEF Follows, MachineOK
<1>2. DOMAIN l = MachineFields /\ l.regs = m.regs /\ l.act = act /\ l.out = m.out
  BY <1>1, ActsIs
<1> HIDE DEF l
<1>3. Follows(pkt, family, rule, i, s, l)
  BY <1>2 DEF Follows, MachineOK
<1> QED
  BY <1>3 DEF l

\* The scan ends and the machine acts, at the rule's last expression.
LEMMA StopFollows ==
    ASSUME NEW pkt, NEW family, NEW rule, NEW i, NEW s, NEW m,
           ScanOK(s), MachineOK(m), Admits(s.f, pkt), i = Len(rule),
           NEW end \in {"walks", "nothing", "rewrites"}, NEW arg, end = "rewrites" => arg \in Targets,
           NEW act,
           act.kind \in {"jump", "goto"} => end = "walks" /\ arg = act.chain,
           act.kind = "dnat" /\ Fits(pkt, act.dnat.ip) =>
               end = "rewrites" /\ RowFamily(family, pkt, act.dnat.ip) \in Families(family, arg)
    PROVE  Follows(pkt, family, rule, i, Stops(s, end, arg), [m EXCEPT !.act = act])
<1> DEFINE n == Stops(s, end, arg)
           l == [m EXCEPT !.act = act]
<1>1. DOMAIN s = ScanFields /\ DOMAIN m = MachineFields
  BY DEF ScanOK, MachineOK
<1>2. ScanOK(n)
  BY ScanStops
<1>3. n.end = end /\ n.arg = arg /\ n.f = s.f
  BY <1>1, StopsIs
<1>4. DOMAIN l = MachineFields /\ l.regs = m.regs /\ l.act = act /\ l.out = m.out
  BY <1>1, ActsIs
<1> HIDE DEF n, l
<1>5. n.end # Blank
  BY <1>3, BlankIsNone
<1>6. ActFollows(pkt, family, n, l.act)
  BY <1>3, <1>4 DEF ActFollows
<1>7. MachineOK(l)
  BY <1>4 DEF MachineOK
<1>8. Follows(pkt, family, rule, i, n, l)
  BY <1>2, <1>3, <1>5, <1>6, <1>7 DEF Follows
<1> QED
  BY <1>8 DEF n, l

\* A load the machine could do.
LEMMA KnownIs ==
    ASSUME NEW m, DOMAIN m = MachineFields, NEW r, NEW v, LoadsKnown(m, r, v).out = Blank
    PROVE  v # Refused /\ LoadsKnown(m, r, v) = Loads(m, r, v)
<1>1. Ends(m, "Unknown").out = "Unknown"
  BY EndsIs
<1> QED
  BY <1>1, BlankIsNone DEF LoadsKnown

\* A load whose field the scan names holds that field of the packet.
LEMMA PayloadIs ==
    ASSUME NEW pkt, PacketOK(pkt), NEW e, PayloadBytes(pkt, e) # Refused,
           e.base = "network" /\ e.off = 9 /\ e.len = 1 => pkt.family = "ip"
    PROVE  /\ PayloadField(e) = "dport" => PayloadBytes(pkt, e) = PortBytes(pkt.dport)
           /\ PayloadField(e) = "l4proto" => PayloadBytes(pkt, e) = ProtoNumber(pkt.proto)
<1>1. ASSUME PayloadField(e) = "dport"
      PROVE  PayloadBytes(pkt, e) = PortBytes(pkt.dport)
  <2>1. e.base = "transport" /\ e.off = 2 /\ e.len = 2
    BY <1>1 DEF PayloadField
  <2> QED
    BY <2>1 DEF PayloadBytes, TransportBytes
<1>2. ASSUME PayloadField(e) = "l4proto"
      PROVE  PayloadBytes(pkt, e) = ProtoNumber(pkt.proto)
  <2>1. e.base = "network" /\ e.len = 1 /\ e.off \in {6, 9}
    BY <1>2 DEF PayloadField
  <2>2. PayloadBytes(pkt, e) = NetworkBytes(pkt, e)
    BY <2>1 DEF PayloadBytes
  <2>3. CASE pkt.family = "ip" /\ e.off = 9
    BY <2>1, <2>2, <2>3 DEF NetworkBytes
  <2>4. CASE pkt.family = "ip" /\ e.off = 6
    <3>1. AddrWindow(pkt.src, 4, 12, e) = Refused /\ AddrWindow(pkt.dst, 4, 16, e) = Refused
      BY <2>4 DEF AddrWindow
    <3>2. NetworkBytes(pkt, e) = Refused
      BY <2>4, <3>1 DEF NetworkBytes
    <3> QED
      BY <2>2, <3>2
  <2>5. CASE pkt.family = "ip6" /\ e.off = 6
    BY <2>1, <2>2, <2>5 DEF NetworkBytes
  <2> QED
    BY <2>1, <2>3, <2>4, <2>5 DEF PacketOK
<1> QED
  BY <1>1, <1>2

\* A target that fits the packet is listed under the family of its row.
LEMMA FamilyIsKept ==
    ASSUME NEW pkt, PacketOK(pkt), NEW family, pkt.family \in TableFamilies(family),
           NEW ip, Fits(pkt, ip), NEW to, to.ip = Unresolved \/ to.ip = ip
    PROVE  RowFamily(family, pkt, ip) \in Families(family, to)
<1>1. CASE family # "inet" \/ to.ip = Unresolved
  <2>1. Families(family, to) = TableFamilies(family)
    BY <1>1 DEF Families
  <2>2. RowFamily(family, pkt, ip) = pkt.family \/ (family = "inet" /\ RowFamily(family, pkt, ip) = "ip")
    BY DEF RowFamily
  <2> QED
    BY <2>1, <2>2 DEF TableFamilies
<1>2. CASE family = "inet" /\ to.ip = ip
  <2>1. Families(family, to) = IF to.ip = Unresolved THEN TableFamilies(family)
                               ELSE IF Len(ip) = 4 \/ Is4In6(ip) THEN {"ip"} ELSE {"ip6"}
    BY <1>2 DEF Families
  <2>2. CASE Is4In6(ip)
    BY <1>2, <2>1, <2>2 DEF RowFamily, TableFamilies
  <2>3. CASE ~Is4In6(ip)
    <3>1. RowFamily(family, pkt, ip) = pkt.family /\ Len(ip) = Len(pkt.dst)
      BY <2>3 DEF RowFamily, Fits
    <3> QED
      BY <1>2, <2>1, <2>3, <3>1 DEF PacketOK
  <2> QED
    BY <2>2, <2>3
<1> QED
  BY <1>1, <1>2

\* An iptables-nft expression that is no rewrite sends a packet nowhere.
LEMMA XtActs ==
    ASSUME NEW pkt, NEW e, ~(e.kind = "target" /\ e.name = "DNAT" /\ e.decoded),
           XtExpr(pkt, e).ok
    PROVE  XtExpr(pkt, e).act.kind \notin Leaving
<1> DEFINE empty == ""
           act(kind) == Act(kind, empty, NoDNAT)
<1>1. \A kind : act(kind).kind = kind
  BY DEF Act
<1>2. Nothing = act("none")
  BY DEF Nothing
<1>3. /\ \A hit : XtMatches(hit).act = Nothing
      /\ \A a : XtDoes(a).act = a
      /\ ~XtUnresolved.ok
  BY DEF XtMatches, XtDoes, XtUnresolved
<1>4. CASE e.kind = "target"
  <2>1. XtTarget(e) \in {XtUnresolved, XtDoes(act("drop")), XtMatches(TRUE), XtDoes(act("accept"))}
    BY <1>4 DEF XtTarget
  <2>2. XtTarget(e).ok
    BY <1>4 DEF XtExpr
  <2> HIDE DEF act
  <2>3. XtTarget(e).act \in {act("drop"), act("none"), act("accept")}
    BY <1>2, <1>3, <2>1, <2>2
  <2>4. XtTarget(e).act.kind \in {"drop", "none", "accept"}
    BY <1>1, <2>3
  <2> QED
    BY <1>4, <2>4 DEF XtExpr, Leaving
<1>5. CASE e.kind # "target"
  <2>1. XtMatch(pkt, e) = XtUnresolved \/ \E hit : XtMatch(pkt, e) = XtMatches(hit)
    BY DEF XtMatch
  <2>2. XtMatch(pkt, e).ok
    BY <1>5 DEF XtExpr
  <2> HIDE DEF act
  <2>3. XtMatch(pkt, e).act = act("none")
    BY <1>2, <1>3, <2>1, <2>2
  <2>4. XtMatch(pkt, e).act.kind = "none"
    BY <1>1, <2>3
  <2> QED
    BY <1>5, <2>4 DEF XtExpr, Leaving
<1> QED
  BY <1>4, <1>5

\* A nat expression rewrites to what its register holds.
LEMMA ActingIs ==
    ASSUME NEW e, NEW regs, NEW pkt
    PROVE  /\ NatAction(pkt, e, regs).kind = "dnat"
           /\ NatAction(pkt, e, regs).dnat.ip = regs[e.addr]
<1> DEFINE empty == ""
           to == [ip |-> regs[e.addr], port |-> IF e.proto = 0 THEN pkt.dport ELSE PortOf(regs[e.proto])]
<1>1. NatAction(pkt, e, regs) = Act("dnat", empty, to)
  BY DEF NatAction
<1>2. to.ip = regs[e.addr]
  OBVIOUS
<1> HIDE DEF empty, to
<1>3. NatAction(pkt, e, regs).kind = "dnat" /\ NatAction(pkt, e, regs).dnat = to
  BY <1>1, ActIs
<1> QED
  BY <1>2, <1>3

LEMMA RulesAreOK ==
    ASSUME NEW family, NEW rule, FromKernel(family, rule)
    PROVE  DOMAIN rule = 1 .. Len(rule) /\ Len(rule) \in Nat
BY DEF FromKernel

\* The simulation: one expression, of every kind, on both sides.
LEMMA StepFollows ==
    ASSUME NEW pkt, PacketOK(pkt), NEW family, pkt.family \in TableFamilies(family),
           NEW rule, FromKernel(family, rule), NEW sets, SetsOK(sets), sets \in Seq(Range(sets)),
           NEW i \in Nat, i + 1 <= Len(rule), NEW s, NEW m,
           Follows(pkt, family, rule, i, s, m), s.end = Blank, m.out = Blank,
           Exec(pkt, rule, sets, i + 1, m).out = Blank,
           rule[i + 1].k = "payload" /\ rule[i + 1].base = "network" /\ rule[i + 1].off = 9
               /\ rule[i + 1].len = 1 => pkt.family = "ip"
    PROVE  Follows(pkt, family, rule, i + 1, ReadExpr(s, rule[i + 1], sets),
                   Exec(pkt, rule, sets, i + 1, m))
<1> DEFINE e    == rule[i + 1]
           n    == ReadExpr(s, e, sets)
           l    == Exec(pkt, rule, sets, i + 1, m)
           read == Field(s.fields, e.reg)
<1>1. /\ DOMAIN m = MachineFields /\ MachineOK(m) /\ ScanOK(s) /\ DOMAIN s = ScanFields
      /\ s.f \in Knowledge /\ Admits(s.f, pkt) /\ Admits(Refuse(s.f), pkt) /\ Refuse(s.f) \in Knowledge
      /\ FieldsFollow(pkt, s.fields, m.regs)
  BY AdmitsRefuse, KnowledgeParts DEF Follows, MachineOK, ScanOK
<1>2. /\ i + 1 \in DOMAIN rule /\ HasOperands(e)
      /\ IsRewrite(e) \/ e.k = "verdict" => i + 1 = Len(rule)
      /\ e.k = "nat" => ~Overwritten(rule, e.addr, i + 1)
  <2>1. i + 1 \in DOMAIN rule
    <3>1. DOMAIN rule = 1 .. Len(rule) /\ Len(rule) \in Nat
      BY RulesAreOK
    <3> DEFINE len == Len(rule)
    <3> HIDE DEF len
    <3>2. i + 1 \in 1 .. len
      BY <3>1 DEF len
    <3> QED
      BY <3>1, <3>2
  <2> QED
    BY <2>1 DEF FromKernel
<1>3. \A x \in {"NoMatch", "Unknown", "Skipped"} : Ends(m, x).out # Blank
  <2>1. \A x : Ends(m, x).out = x
    BY <1>1 DEF Ends, MachineFields
  <2> QED
    BY <2>1, BlankIsNone
<1>4. \A r : /\ Field(s.fields, r) = "dport" => r \in DOMAIN m.regs /\ m.regs[r] = PortBytes(pkt.dport)
             /\ Field(s.fields, r) = "l4proto" => r \in DOMAIN m.regs /\ m.regs[r] = ProtoNumber(pkt.proto)
  BY <1>1 DEF Field, FieldsFollow
<1>6. ASSUME e.k # "immediate"
      PROVE  Follows(pkt, family, rule, i + 1, s, m)
  BY <1>6, StayFollows
<1>7. CASE e.k = "payload"
  <2> DEFINE v == PayloadBytes(pkt, e)
  <2>1. n = Reads(s, e, PayloadField(e))
    BY <1>7 DEF ReadExpr
  <2>2. l = LoadsKnown(m, e.reg, v)
    BY <1>7 DEF Exec
  <2>3. v # Refused /\ l = Loads(m, e.reg, v)
    BY <1>1, <2>2, KnownIs
  <2>4. /\ PayloadField(e) = "dport" => v = PortBytes(pkt.dport)
        /\ PayloadField(e) = "l4proto" => v = ProtoNumber(pkt.proto)
    BY <1>7, <2>3, PayloadIs
  <2> DEFINE field == PayloadField(e)
  <2>5. e.k \in Loading
    BY <1>7 DEF Loading
  <2> HIDE DEF n, l, v, field
  <2>6. Follows(pkt, family, rule, i + 1, n, l)
    BY <2>1, <2>3, <2>4, <2>5, LoadFollows DEF field
  <2> QED
    BY <2>6 DEF n, l
<1>8. CASE e.k = "meta"
  <2> DEFINE v     == MetaBytes(pkt, e.key)
             field == IF e.key = "l4proto" THEN "l4proto" ELSE "other"
  <2>1. n = Reads(s, e, field)
    BY <1>8 DEF ReadExpr
  <2>2. l = ExecMeta(pkt, e, m)
    BY <1>8 DEF Exec
  <2>3. l = LoadsKnown(m, e.reg, v)
    BY <1>3, <2>2 DEF ExecMeta
  <2>4. l = Loads(m, e.reg, v)
    BY <1>1, <2>3, KnownIs
  <2>5. field # "dport" /\ (field = "l4proto" => v = ProtoNumber(pkt.proto))
    BY DEF MetaBytes
  <2>6. e.k \in Loading
    BY <1>8 DEF Loading
  <2> HIDE DEF n, l, v, field
  <2>7. Follows(pkt, family, rule, i + 1, n, l)
    BY <2>1, <2>4, <2>5, <2>6, LoadFollows
  <2> QED
    BY <2>7 DEF n, l
<1>9. CASE e.k \in {"ct", "fib"}
  <2> DEFINE v == IF e.k = "ct" THEN CtBytes(pkt, e.key) ELSE FibBytes(pkt, e)
  <2>1. n = Reads(s, e, "other")
    BY <1>9 DEF ReadExpr
  <2>2. l = LoadsKnown(m, e.reg, v)
    BY <1>9 DEF Exec
  <2>3. l = Loads(m, e.reg, v)
    BY <1>1, <2>2, KnownIs
  <2>4. e.k \in Loading
    BY <1>9 DEF Loading
  <2> HIDE DEF n, l, v
  <2>5. Follows(pkt, family, rule, i + 1, n, l)
    BY <2>1, <2>3, <2>4, LoadFollows
  <2> QED
    BY <2>5 DEF n, l
<1>10. CASE e.k = "bitwise"
  <2> DEFINE g == Reads(s, e, "other")
             f == IF Field(s.fields, e.src) = "dport" THEN Refuse(g.f) ELSE g.f
  <2>1. n = [g EXCEPT !.f = f]
    BY <1>10 DEF ReadExpr
  <2>2. l = ExecBitwise(e, m)
    BY <1>10 DEF Exec
  <2>3. \E v : l = Loads(m, e.reg, v)
    BY <1>3, <2>2 DEF ExecBitwise
  <2>4. PICK v : l = Loads(m, e.reg, v)
    BY <2>3
  <2>5. Follows(pkt, family, rule, i + 1, g, l)
    <3>1. e.k \in Loading
      BY <1>10 DEF Loading
    <3> HIDE DEF l
    <3> QED
      BY <2>4, <3>1, LoadFollows
  <2>6. g.end = Blank /\ g.f = s.f
    BY <1>1 DEF Reads, ScanFields
  <2>7. f \in Knowledge /\ Admits(f, pkt)
    BY <1>1, <2>6
  <2> HIDE DEF n, l, g, f
  <2>8. Follows(pkt, family, rule, i + 1, n, l)
    BY <2>1, <2>5, <2>6, <2>7, KnowFollows
  <2> QED
    BY <2>8 DEF n, l
<1>11. CASE e.k = "cmp"
  <2> DEFINE f == CmpConstraint(s.f, read, e)
             v == m.regs[e.reg]
  <2>1. n = [s EXCEPT !.f = f]
    BY <1>11 DEF ReadExpr
  <2>2. l = ExecCmp(e, m)
    BY <1>11 DEF Exec
  <2>3. /\ e.data # Undecodable /\ Holds(m, e.reg, Len(e.data))
        /\ l = Requires(m, CmpHolds(e.op, Truncate(v, Len(e.data)), e.data))
    BY <1>3, <2>2 DEF ExecCmp
  <2>4. l = m /\ CmpHolds(e.op, Truncate(v, Len(e.data)), e.data)
    BY <1>3, <2>3 DEF Requires
  <2>5. e.op = "eq" => Truncate(v, Len(e.data)) = e.data
    BY <2>4 DEF CmpHolds
  <2>6. Len(v) >= Len(e.data) /\ e.data \in Operands
    BY <1>2, <1>11, <2>3 DEF Holds, HasOperands
  <2>7. /\ read = "dport" => v = PortBytes(pkt.dport)
        /\ read = "l4proto" => v = ProtoNumber(pkt.proto)
    BY <1>4
  <2>8. f \in Knowledge
    BY <1>1, <1>2, <1>11, ConstraintsAreKnowledge
  <2>9. Admits(f, pkt)
    <3> HIDE DEF v, read, e
    <3> QED
      BY <1>1, <2>3, <2>5, <2>6, <2>7, AdmitsCmp
  <2>10. Follows(pkt, family, rule, i + 1, s, m)
    BY <1>6, <1>11
  <2> HIDE DEF n, l, f
  <2>11. Follows(pkt, family, rule, i + 1, n, l)
    BY <2>1, <2>4, <2>8, <2>9, <2>10, KnowFollows
  <2> QED
    BY <2>11 DEF n, l
<1>12. CASE e.k = "range"
  <2> DEFINE f == IF read = "dport" THEN Refuse(s.f) ELSE s.f
  <2>1. n = [s EXCEPT !.f = f]
    BY <1>12 DEF ReadExpr
  <2>2. l = ExecRange(e, m)
    BY <1>12 DEF Exec
  <2>3. l = m
    BY <1>3, <2>2 DEF ExecRange, Requires
  <2>4. f \in Knowledge /\ Admits(f, pkt)
    BY <1>1
  <2>5. Follows(pkt, family, rule, i + 1, s, m)
    BY <1>6, <1>12
  <2> HIDE DEF n, l, f
  <2>6. Follows(pkt, family, rule, i + 1, n, l)
    BY <2>1, <2>3, <2>4, <2>5, KnowFollows
  <2> QED
    BY <2>6 DEF n, l
<1>13. CASE e.k = "lookup"
  <2> DEFINE f == LookupConstraint(s.f, read, sets, e)
             v == m.regs[e.reg]
  <2>1. n = [s EXCEPT !.f = f]
    BY <1>13 DEF ReadExpr
  <2>2. l = ExecLookup(e, sets, m)
    BY <1>13 DEF Exec
  <2>3. l = m /\ LookupMatch(v, e, sets) = "hit"
    BY <1>3, <2>2 DEF ExecLookup
  <2>4. e.invert \in BOOLEAN
    BY <1>2, <1>13 DEF HasOperands
  <2>5. read = "dport" => v = PortBytes(pkt.dport)
    BY <1>4
  <2>6. f \in Knowledge
    BY <1>1, ConstraintsAreKnowledge
  <2>7. Admits(f, pkt)
    <3> DEFINE known == s.f
    <3>1. known \in Knowledge /\ Admits(known, pkt)
      BY <1>1
    <3> HIDE DEF v, read, e, known, l
    <3>2. Admits(LookupConstraint(known, read, sets, e), pkt)
      BY <2>3, <2>4, <2>5, <3>1, AdmitsLookup
    <3> QED
      BY <3>2 DEF known, v, read, e
  <2>8. Follows(pkt, family, rule, i + 1, s, m)
    BY <1>6, <1>13
  <2> HIDE DEF n, l, f
  <2>9. Follows(pkt, family, rule, i + 1, n, l)
    BY <2>1, <2>3, <2>6, <2>7, <2>8, KnowFollows
  <2> QED
    BY <2>9 DEF n, l
<1>14. CASE e.k = "immediate"
  <2>1. n = [Reads(s, e, "other") EXCEPT !.imm = Filling(@, e.reg, e.data)]
    BY <1>14 DEF ReadExpr
  <2>2. l = IF e.data = Undecodable THEN Ends(m, "Unknown") ELSE Loads(m, e.reg, e.data)
    BY <1>14 DEF Exec
  <2>3. l = Loads(m, e.reg, e.data)
    BY <1>3, <2>2
  <2>4. e.data \in Operands
    BY <1>2, <1>14 DEF HasOperands
  <2> HIDE DEF n, l
  <2>5. Follows(pkt, family, rule, i + 1, n, l)
    BY <1>14, <2>1, <2>3, <2>4, FillFollows
  <2> QED
    BY <2>5 DEF n, l
<1>15. CASE e.k = "nat"
  <2> DEFINE to  == NativeTarget(e, s.imm)
             act == NatAction(pkt, e, m.regs)
  <2>1. l = ExecNAT(pkt, e, m)
    BY <1>15 DEF Exec
  <2>2. NatResolves(e, m.regs) /\ l = [m EXCEPT !.act = act]
    BY <1>3, <2>1 DEF ExecNAT
  <2>3. e.type = "dnat" /\ Len(m.regs[e.addr]) \in {4, 16}
    BY <2>2 DEF NatResolves
  <2>4. n = Stops(s, "rewrites", to) /\ i + 1 = Len(rule)
    BY <1>2, <1>15, <2>3 DEF ReadExpr, IsRewrite
  <2>5. to \in Targets
    BY <1>1, <1>2, TargetsAreTyped DEF ScanOK
  <2>6. act.kind = "dnat" /\ act.dnat.ip = m.regs[e.addr]
    BY ActingIs
  <2>7. e.addr \in DOMAIN s.imm => m.regs[e.addr] = s.imm[e.addr]
    BY <1>2, <1>15 DEF Follows, ImmediatesFollow
  <2>8. to.ip = Unresolved \/ to.ip = m.regs[e.addr]
    BY <2>7 DEF NativeTarget
  <2> HIDE DEF n, l, to, act
  <2>9. Fits(pkt, act.dnat.ip) => RowFamily(family, pkt, act.dnat.ip) \in Families(family, to)
    BY <2>6, <2>8, FamilyIsKept
  <2>10. Follows(pkt, family, rule, i + 1, n, l)
    BY <1>1, <2>2, <2>4, <2>5, <2>6, <2>9, StopFollows
  <2> QED
    BY <2>10 DEF n, l
<1>16. CASE e.k = "xt" /\ e.kind = "target" /\ e.name = "DNAT" /\ e.decoded
  <2> DEFINE to  == XtDNATTarget(e)
             x   == XtExpr(pkt, e)
             act == x.act
  <2>1. l = ExecXt(pkt, rule, i + 1, m)
    BY <1>16 DEF Exec
  <2>2. x.ok /\ x.hit
    BY <1>3, <2>1 DEF ExecXt
  <2>3. l = IF act.kind = "none" THEN m ELSE [m EXCEPT !.act = act]
    BY <2>1, <2>2 DEF ExecXt
  <2>4. e.arg.minIP # Undecodable /\ act.kind = "dnat" /\ act.dnat.ip = e.arg.minIP
    <3> DEFINE goes == [ip |-> e.arg.minIP, port |-> e.arg.minPort]
               does == Act("dnat", Blank, goes)
    <3>1. ~XtUnresolved.ok
      BY DEF XtUnresolved
    <3>2. x = XtTarget(e)
      BY <1>16 DEF XtExpr
    <3>3. e.arg.minIP # Undecodable /\ x = XtDoes(does)
      BY <1>16, <2>2, <3>1, <3>2 DEF XtTarget, Blank
    <3>4. goes.ip = e.arg.minIP
      OBVIOUS
    <3> HIDE DEF goes
    <3>5. does.kind = "dnat" /\ does.dnat = goes
      BY DEF Act
    <3> HIDE DEF x, does
    <3>6. x.act = does
      BY <3>3 DEF XtDoes
    <3> QED
      BY <3>3, <3>4, <3>5, <3>6
  <2>5. n = Stops(s, "rewrites", to) /\ i + 1 = Len(rule)
    BY <1>2, <1>16 DEF ReadExpr, IsRewrite
  <2>6. to \in Targets
    BY <1>2, <1>16, TargetsAreTyped
  <2>7. to.ip = e.arg.minIP
    BY <2>4 DEF XtDNATTarget
  <2> HIDE DEF n, l, to, x
  <2>8. Fits(pkt, act.dnat.ip) => RowFamily(family, pkt, act.dnat.ip) \in Families(family, to)
    BY <2>4, <2>7, FamilyIsKept
  <2> HIDE DEF act
  <2>9. Follows(pkt, family, rule, i + 1, n, l)
    BY <1>1, <2>3, <2>4, <2>5, <2>6, <2>8, StopFollows
  <2> QED
    BY <2>9 DEF n, l
<1>17. CASE e.k = "xt" /\ ~(e.kind = "target" /\ e.name = "DNAT" /\ e.decoded)
  <2> DEFINE x   == XtExpr(pkt, e)
             act == x.act
  <2>1. l = ExecXt(pkt, rule, i + 1, m)
    BY <1>17 DEF Exec
  <2>2. x.ok /\ x.hit
    BY <1>3, <2>1 DEF ExecXt
  <2>3. l = IF act.kind = "none" THEN m ELSE [m EXCEPT !.act = act]
    BY <2>1, <2>2 DEF ExecXt
  <2>4. n = s
    BY <1>17 DEF ReadExpr
  <2>5. act.kind \notin Leaving
    BY <1>17, <2>2, XtActs
  <2>6. Follows(pkt, family, rule, i + 1, s, m)
    BY <1>6, <1>17
  <2> HIDE DEF n, l, act
  <2>7. Follows(pkt, family, rule, i + 1, n, l)
    BY <2>3, <2>4, <2>5, <2>6, DoFollows
  <2> QED
    BY <2>7 DEF n, l
<1>18. CASE e.k = "verdict"
  <2> DEFINE act == Act(e.kind, e.chain, NoDNAT)
  <2>1. l = [m EXCEPT !.act = act] /\ i + 1 = Len(rule)
    BY <1>2, <1>18 DEF Exec
  <2>2. act.kind = e.kind /\ act.chain = e.chain
    BY DEF Act
  <2>3. e.kind # "dnat"
    BY <1>2, <1>18 DEF HasOperands
  <2> HIDE DEF act
  <2>4. CASE e.kind \in {"jump", "goto"}
    <3>1. n = Stops(s, "walks", e.chain)
      BY <1>18, <2>4 DEF ReadExpr
    <3> HIDE DEF n, l
    <3>2. Follows(pkt, family, rule, i + 1, n, l)
      BY <1>1, <2>1, <2>2, <2>3, <3>1, StopFollows
    <3> QED
      BY <3>2 DEF n, l
  <2>5. CASE e.kind \notin {"jump", "goto"}
    <3>1. n = Stops(s, "nothing", Blank)
      BY <1>18, <2>5 DEF ReadExpr, Blank
    <3> HIDE DEF n, l
    <3>2. Follows(pkt, family, rule, i + 1, n, l)
      BY <1>1, <2>1, <2>2, <2>3, <2>5, <3>1, StopFollows
    <3> QED
      BY <3>2 DEF n, l
  <2> QED
    BY <2>4, <2>5
<1>19. CASE e.k = "other"
  <2>1. n = s
    BY <1>19 DEF ReadExpr
  <2>2. l = m
    BY <1>19 DEF Exec
  <2> QED
    BY <1>6, <1>19, <2>1, <2>2
<1>20. CASE e.k \notin {"payload", "meta", "ct", "fib", "bitwise", "cmp", "range", "lookup",
                        "immediate", "nat", "xt", "verdict", "other"}
  <2>1. l = Ends(m, "Unknown")
    BY <1>20 DEF Exec
  <2> QED
    BY <1>3, <2>1
<1> QED
  BY <1>7, <1>8, <1>9, <1>10, <1>11, <1>12, <1>13, <1>14, <1>15, <1>16, <1>17, <1>18, <1>19, <1>20

(* A whole rule *)
\* The machine keeps its form.
LEMMA ExecOK ==
    ASSUME NEW pkt, NEW rule, NEW sets, NEW i, NEW m, MachineOK(m), m.out = Blank
    PROVE  MachineOK(Exec(pkt, rule, sets, i, m))
<1> DEFINE e == rule[i]
           l == Exec(pkt, rule, sets, i, m)
<1>1. DOMAIN m = MachineFields
  BY DEF MachineOK
<1>2. \A x \in {"NoMatch", "Unknown", "Skipped"} : MachineOK(Ends(m, x))
  BY <1>1, EndsIs DEF MachineOK
<1>3. \A r, v : MachineOK(Loads(m, r, v))
  <2> SUFFICES ASSUME NEW r, NEW v
               PROVE  MachineOK(Loads(m, r, v))
    OBVIOUS
  <2> DEFINE k == Loads(m, r, v)
  <2>1. DOMAIN k = MachineFields /\ k.out = m.out
    BY <1>1 DEF Loads, MachineFields
  <2> HIDE DEF k
  <2>2. MachineOK(k)
    BY <2>1 DEF MachineOK
  <2> QED
    BY <2>2 DEF k
<1>4. \A a : MachineOK([m EXCEPT !.act = a])
  <2> SUFFICES ASSUME NEW a
               PROVE  MachineOK([m EXCEPT !.act = a])
    OBVIOUS
  <2> DEFINE k == [m EXCEPT !.act = a]
  <2>1. DOMAIN k = MachineFields /\ k.out = m.out
    BY <1>1 DEF MachineFields
  <2> HIDE DEF k
  <2>2. MachineOK(k)
    BY <2>1 DEF MachineOK
  <2> QED
    BY <2>2 DEF k
<1>5. \A r, v : MachineOK(LoadsKnown(m, r, v))
  BY <1>2, <1>3 DEF LoadsKnown
<1>6. \A holds : MachineOK(Requires(m, holds))
  BY <1>2 DEF Requires
<1>7. CASE e.k \in {"payload", "ct", "fib"}
  BY <1>5, <1>7 DEF Exec
<1>8. CASE e.k = "meta"
  BY <1>2, <1>5, <1>8 DEF Exec, ExecMeta
<1>9. CASE e.k = "immediate"
  BY <1>2, <1>3, <1>9 DEF Exec
<1>10. CASE e.k = "bitwise"
  <2>1. l = ExecBitwise(e, m)
    BY <1>10 DEF Exec
  <2>2. l = Ends(m, "Unknown") \/ \E v : l = Loads(m, e.reg, v)
    BY <2>1 DEF ExecBitwise
  <2> QED
    BY <1>2, <1>3, <2>2
<1>11. CASE e.k = "cmp"
  BY <1>2, <1>6, <1>11 DEF Exec, ExecCmp
<1>12. CASE e.k = "range"
  <2>1. l = ExecRange(e, m)
    BY <1>12 DEF Exec
  <2>2. l = Ends(m, "Unknown") \/ \E holds : l = Requires(m, holds)
    BY <2>1 DEF ExecRange
  <2> QED
    BY <1>2, <1>6, <2>2
<1>13. CASE e.k = "lookup"
  BY <1>2, <1>13 DEF Exec, ExecLookup
<1>14. CASE e.k = "xt"
  <2>1. l = ExecXt(pkt, rule, i, m)
    BY <1>14 DEF Exec
  <2>2. l \in {m, Ends(m, "Skipped"), Ends(m, "Unknown"), Ends(m, "NoMatch")}
            \/ \E a : l = [m EXCEPT !.act = a]
    BY <2>1 DEF ExecXt
  <2> QED
    BY <1>2, <1>4, <2>2
<1>15. CASE e.k = "nat"
  BY <1>2, <1>4, <1>15 DEF Exec, ExecNAT
<1>16. CASE e.k = "verdict"
  BY <1>4, <1>16 DEF Exec
<1>17. CASE e.k = "other"
  BY <1>17 DEF Exec
<1>18. CASE e.k \notin {"payload", "meta", "ct", "fib", "bitwise", "cmp", "range", "lookup",
                        "immediate", "nat", "xt", "verdict", "other"}
  BY <1>2, <1>18 DEF Exec
<1> QED
  BY <1>7, <1>8, <1>9, <1>10, <1>11, <1>12, <1>13, <1>14, <1>15, <1>16, <1>17, <1>18

\* Behind `meta nfproto ipv4` a packet is IPv4: the load ...
LEMMA NfprotoIsLoaded ==
    ASSUME NEW pkt, NEW rule, NEW sets, NEW i, NEW m, MachineOK(m),
           rule[i].k = "meta", rule[i].key = "nfproto", Exec(pkt, rule, sets, i, m).out = Blank
    PROVE  Exec(pkt, rule, sets, i, m).regs[rule[i].reg] =
              IF pkt.family = "ip" THEN <<2>> ELSE <<10>>
<1> DEFINE e == rule[i]
           v == MetaBytes(pkt, "nfproto")
           l == Exec(pkt, rule, sets, i, m)
<1>1. DOMAIN m = MachineFields
  BY DEF MachineOK
<1>2. l = ExecMeta(pkt, e, m)
  BY DEF Exec
<1>3. ~MetaAbsent("nfproto")
  BY DEF MetaAbsent
<1>4. l = LoadsKnown(m, e.reg, v)
  BY <1>2, <1>3 DEF ExecMeta
<1>5. l = Loads(m, e.reg, v)
  BY <1>1, <1>4, KnownIs
<1>6. v = IF pkt.family = "ip" THEN <<2>> ELSE <<10>>
  BY DEF MetaBytes
<1> HIDE DEF v, l
<1>7. l.regs = Filling(m.regs, e.reg, v)
  BY <1>1, <1>5 DEF Loads, MachineFields
<1>8. l.regs[e.reg] = v
  BY <1>7 DEF Filling
<1> QED
  BY <1>6, <1>8 DEF l

\* ... and the compare that held.
LEMMA NfprotoIsCompared ==
    ASSUME NEW pkt, NEW rule, NEW sets, NEW i, NEW m, MachineOK(m),
           m.regs[rule[i].reg] = (IF pkt.family = "ip" THEN << 2 >> ELSE << 10 >>),
           rule[i].k = "cmp", rule[i].op = "eq", rule[i].data = << 2 >>,
           Exec(pkt, rule, sets, i, m).out = Blank
    PROVE  pkt.family = "ip"
<1> DEFINE e == rule[i]
           v == m.regs[e.reg]
           w == Truncate(v, Len(e.data))
           l == Exec(pkt, rule, sets, i, m)
<1>1. DOMAIN m = MachineFields
  BY DEF MachineOK
<1>2. Ends(m, "Unknown").out # Blank /\ Ends(m, "NoMatch").out # Blank
  BY <1>1, EndsIs, BlankIsNone
<1>3. l = ExecCmp(e, m)
  BY DEF Exec
<1>4. l = Requires(m, CmpHolds(e.op, w, e.data))
  <2> HIDE DEF w
  <2> QED
    BY <1>2, <1>3 DEF ExecCmp, w
<1>5. CmpHolds(e.op, w, e.data)
  <2> HIDE DEF w
  <2> QED
    BY <1>2, <1>4 DEF Requires
<1>6. w = <<2>>
  BY <1>5 DEF CmpHolds
<1>7. Len(<<2>>) = 1 /\ Truncate(<<10>>, 1) = <<10>> /\ <<10>> # <<2>>
  <2>1. <<10>> \in Seq(Nat) /\ Len(<<10>>) = 1 /\ <<10>>[1] = 10 /\ <<2>>[1] = 2 /\ Len(<<2>>) = 1
    OBVIOUS
  <2>2. Truncate(<<10>>, 1) = <<10>>
    <3> DEFINE ten == <<10>>
           one == 1
    <3>1. ten \in Seq(Nat) /\ one \in Nat /\ one = Len(ten)
      BY <2>1
    <3> HIDE DEF ten, one
    <3>2. one <= Len(ten)
      BY <3>1
    <3>3. Truncate(ten, one) = ten
      BY <3>1, <3>2, TruncatedIs
    <3> QED
      BY <3>3 DEF ten, one
  <2>3. <<10>> # <<2>>
    BY <2>1
  <2> QED
    BY <2>1, <2>2, <2>3
<1>8. pkt.family # "ip" => w = <<10>>
  BY <1>7
<1> QED
  BY <1>6, <1>7, <1>8

\* The simulation of a whole rule, by induction over its expressions.
LEMMA RuleFollows ==
    ASSUME NEW pkt, PacketOK(pkt), NEW family, pkt.family \in TableFamilies(family),
           NEW rule, FromKernel(family, rule), NEW sets, SetsOK(sets), sets \in Seq(Range(sets)),
           NEW f \in Knowledge, Admits(f, pkt), MatchRule(pkt, rule, sets).out = "Match"
    PROVE  LET s == ReadRule(rule, sets, f)
           IN  /\ ScanOK(s) /\ Admits(s.f, pkt)
               /\ ActFollows(pkt, family, s, MatchRule(pkt, rule, sets).act)
<1> DEFINE len == Len(rule)
           x   == MatchRule(pkt, rule, sets)
           s   == ReadRule(rule, sets, f)
<1>1. len \in Nat /\ DOMAIN rule = 1 .. len
  BY RulesAreOK
<1>2. PICK g : s = g[len] /\ \A i \in 0 .. len : g[i] = NextRead(rule, sets, f, g, i)
  BY <1>1, ReadSteps
<1>3. PICK a : /\ x.out = (IF a[len].out = Blank THEN "Match" ELSE a[len].out)
               /\ x.act = a[len].act
               /\ \A i \in 0 .. len : a[i] = NextAfter(pkt, rule, sets, a, i)
  BY <1>1, MatchSteps
<1> HIDE DEF len, x, s
<1>4. g[0] = Unread(f) /\ a[0] = Start
  <2>1. 0 \in 0 .. len
    BY <1>1
  <2>2. g[0] = NextRead(rule, sets, f, g, 0) /\ a[0] = NextAfter(pkt, rule, sets, a, 0)
    BY <1>2, <1>3, <2>1
  <2> QED
    BY <2>2, Zenon DEF NextRead, NextAfter
<1>5. ASSUME NEW i \in Nat, i + 1 <= len
      PROVE  /\ g[i + 1] = IF g[i].end # Blank THEN g[i] ELSE ReadExpr(g[i], rule[i + 1], sets)
             /\ a[i + 1] = IF a[i].out # Blank THEN a[i] ELSE Exec(pkt, rule, sets, i + 1, a[i])
  <2>1. i + 1 \in 0 .. len /\ i + 1 # 0 /\ (i + 1) - 1 = i
    BY <1>1, <1>5
  <2> QED
    BY <1>2, <1>3, <2>1, Zenon DEF NextRead, NextAfter, Blank
<1> DEFINE Fine(i)   == MachineOK(a[i]) /\ \A j \in 0 .. i : a[i].out = Blank => a[j].out = Blank
           Okay      == {i \in Nat : i <= len => Fine(i)}
           Alike     == {i \in Nat : i <= len /\ a[i].out = Blank =>
                                        Follows(pkt, family, rule, i, g[i], a[i])}
<1>6. \A i \in Nat : i \in Okay
  <2>1. 0 \in Okay
    <3>1. MachineOK(a[0])
      BY <1>4, StartIs DEF MachineOK
    <3> QED
      BY <3>1
  <2>2. ASSUME NEW i \in Nat, i \in Okay
        PROVE  i + 1 \in Okay
    <3> SUFFICES ASSUME i + 1 <= len
                 PROVE  Fine(i + 1)
      OBVIOUS
    <3>1. i <= len
      BY <1>1
    <3>2. Fine(i)
      BY <2>2, <3>1
    <3>3. MachineOK(a[i + 1])
      BY <1>5, <3>2, ExecOK
    <3>4. a[i + 1].out = Blank => a[i].out = Blank
      BY <1>5
    <3>5. \A j \in 0 .. i + 1 : j = i + 1 \/ j \in 0 .. i
      OBVIOUS
    <3> QED
      BY <3>2, <3>3, <3>4, <3>5
  <2> HIDE DEF Okay
  <2> QED
    BY <2>1, <2>2, Induction
<1>7. \A i \in 0 .. len : Fine(i)
  BY <1>1, <1>6
<1>8. \A i \in Nat : i \in Alike
  <2>1. 0 \in Alike
    <3> DEFINE u == Unread(f)
    <3>1. ScanOK(u) /\ u.f = f /\ u.end = Blank /\ DOMAIN u.fields = {} /\ DOMAIN u.imm = {}
      <4>1. \A y : y = <<>> => DOMAIN y = {}
        OBVIOUS
      <4> QED
        BY <4>1, UnreadIs, UnreadTyped, Zenon
    <3>2. MachineOK(Start) /\ Start.act.kind = "none"
      <4>1. Nothing.kind = "none"
        <5>1. Nothing = [kind |-> "none", chain |-> Blank, dnat |-> NoDNAT]
          BY DEF Nothing, Act, Blank
        <5> QED
          BY <5>1
      <4> QED
        BY <4>1, StartIs, Zenon DEF MachineOK
    <3> HIDE DEF u
    <3>3. FieldsFollow(pkt, u.fields, Start.regs) /\ ImmediatesFollow(rule, 0, u.imm, Start.regs)
      BY <3>1 DEF FieldsFollow, ImmediatesFollow
    <3>4. "none" \notin Leaving
      BY DEF Leaving
    <3>5. Follows(pkt, family, rule, 0, u, Start)
      BY <3>1, <3>2, <3>3, <3>4, Zenon DEF Follows
    <3>6. Follows(pkt, family, rule, 0, g[0], a[0])
      BY <1>4, <3>5 DEF u
    <3> QED
      BY <3>6
  <2>2. ASSUME NEW i \in Nat, i \in Alike
        PROVE  i + 1 \in Alike
    <3> SUFFICES ASSUME i + 1 <= len, a[i + 1].out = Blank
                 PROVE  Follows(pkt, family, rule, i + 1, g[i + 1], a[i + 1])
      OBVIOUS
    <3> DEFINE e == rule[i + 1]
    <3>1. i + 1 \in 0 .. len /\ i \in 0 .. i + 1 /\ i <= len /\ i # len
      BY <1>1
    <3>2. a[i].out = Blank /\ MachineOK(a[i])
      <4>1. i \in 0 .. len
        BY <1>1
      <4> QED
        BY <1>7, <3>1, <4>1
    <3>3. Follows(pkt, family, rule, i, g[i], a[i])
      BY <2>2, <3>1, <3>2
    <3>4. g[i].end = Blank
      BY <3>1, <3>3 DEF Follows, len
    <3>5. g[i + 1] = ReadExpr(g[i], e, sets) /\ a[i + 1] = Exec(pkt, rule, sets, i + 1, a[i])
      BY <1>5, <3>2, <3>4
    <3>6. e.k = "payload" /\ e.base = "network" /\ e.off = 9 /\ e.len = 1 => pkt.family = "ip"
      <4> SUFFICES ASSUME e.k = "payload", e.base = "network", e.off = 9, e.len = 1
                   PROVE  pkt.family = "ip"
        OBVIOUS
      <4>1. i + 1 \in DOMAIN rule
        BY <1>1
      <4>2. family = "ip" \/ AfterIPv4(rule, i + 1)
        BY <4>1 DEF FromKernel
      <4>3. CASE family = "ip"
        BY <4>3 DEF TableFamilies
      <4>4. CASE AfterIPv4(rule, i + 1)
        <5>1. (i + 1) - 1 = i
          OBVIOUS
        <5>2. PICK j \in 2 .. i :
                  /\ rule[j - 1].k = "meta" /\ rule[j - 1].key = "nfproto"
                  /\ rule[j].k = "cmp" /\ rule[j].reg = rule[j - 1].reg
                  /\ rule[j].op = "eq" /\ rule[j].data = <<2>>
          BY <4>4, <5>1 DEF AfterIPv4
        <5>3. PICK b \in Nat : j = b + 2
          <6>1. j - 2 \in Nat /\ j = (j - 2) + 2
            OBVIOUS
          <6> QED
            BY <6>1
        <5>4. /\ b + 1 \in Nat /\ b + 1 + 1 <= len /\ b + 1 <= len /\ b + 1 + 1 = j /\ b + 1 = j - 1
              /\ {b, b + 1, j} \subseteq 0 .. i + 1 /\ {b, b + 1, j} \subseteq 0 .. len
          BY <1>1, <5>3
        <5>5. /\ a[b].out = Blank /\ a[b + 1].out = Blank /\ a[j].out = Blank
              /\ MachineOK(a[b]) /\ MachineOK(a[b + 1])
          BY <1>7, <3>1, <5>4
        <5>6. a[b + 1] = Exec(pkt, rule, sets, b + 1, a[b]) /\ a[j] = Exec(pkt, rule, sets, j, a[b + 1])
          <6>1. a[b + 1] = Exec(pkt, rule, sets, b + 1, a[b])
            BY <1>5, <5>4, <5>5
          <6>2. a[b + 1 + 1] = Exec(pkt, rule, sets, b + 1 + 1, a[b + 1])
            BY <1>5, <5>4, <5>5
          <6> QED
            BY <5>4, <6>1, <6>2
        <5>7. a[b + 1].regs[rule[b + 1].reg] = IF pkt.family = "ip" THEN <<2>> ELSE <<10>>
          BY <5>2, <5>4, <5>5, <5>6, NfprotoIsLoaded
        <5> QED
          BY <5>2, <5>4, <5>5, <5>6, <5>7, NfprotoIsCompared
      <4> QED
        BY <4>2, <4>3, <4>4
    <3> QED
      BY <3>2, <3>3, <3>4, <3>5, <3>6, StepFollows DEF len
  <2> HIDE DEF Alike
  <2> QED
    BY <2>1, <2>2, Induction
<1>9. a[len].out = Blank
  <2>1. MachineOK(a[len])
    BY <1>1, <1>7
  <2>2. a[len].out # "Match"
    BY <2>1, BlankIsNone DEF MachineOK
  <2> QED
    BY <1>3, <2>2 DEF x
<1>10. Follows(pkt, family, rule, len, s, a[len])
  BY <1>1, <1>2, <1>8, <1>9
<1>11. s.end = Blank => a[len].act.kind \notin Leaving
  BY <1>10 DEF Follows
<1>12. ActFollows(pkt, family, s, x.act)
  <2>1. CASE s.end = Blank
    BY <1>3, <1>11, <2>1 DEF ActFollows, Leaving
  <2>2. CASE s.end # Blank
    BY <1>3, <1>10, <2>2 DEF Follows
  <2> QED
    BY <2>1, <2>2
<1> QED
  BY <1>10, <1>12 DEF Follows, s, x

(***************************************************************************)
(* Every rewrite a packet can reach has a row or a note                    *)
(***************************************************************************)
\* The packet's port has its row, or the rule a note.
Speaks(m, key, where) == where \in m.notes \/ \E e \in m.eps : Key(e) = key

\* An emission that admits a packet names its port, or notes the rule.
LEMMA EmitSpeaks ==
    ASSUME NEW pkt, PacketOK(pkt), NEW f \in Knowledge, Admits(f, pkt),
           NEW family, NEW to, NEW fam \in Families(family, to), NEW where
    PROVE  Speaks(Emit(family, where, f, to), <<fam, pkt.proto, pkt.dport>>, where)
<1> DEFINE rows == [family : Families(family, to), proto : Protos(f.proto), port : f.ports, to : {to}]
           m    == Emit(family, where, f, to)
           key  == <<fam, pkt.proto, pkt.dport>>
           row  == [family |-> fam, proto |-> pkt.proto, port |-> pkt.dport, to |-> to]
<1>1. f.proto # "other"
  <2>1. Blank # "other" /\ pkt.proto # "other"
    BY DEF Blank, PacketOK
  <2> QED
    BY <2>1 DEF Admits
<1>2. CASE f.refuse \/ f.ports = {}
  <2>1. m = [eps |-> {}, notes |-> {where}]
    BY <1>1, <1>2 DEF Emit
  <2>2. where \in m.notes
    BY <2>1
  <2> QED
    BY <2>2 DEF Speaks
<1>3. CASE ~(f.refuse \/ f.ports = {})
  <2>1. m = [eps |-> rows, notes |-> {}]
    BY <1>1, <1>3 DEF Emit
  <2>2. pkt.dport \in f.ports
    BY <1>3 DEF Admits
  <2>3. pkt.proto \in Protos(f.proto)
    BY DEF Admits, Protos, Blank, PacketOK
  <2>4. row \in rows
    BY <2>2, <2>3
  <2>5. Key(row) = key
    BY DEF Key
  <2> HIDE DEF rows, row, m, key
  <2>6. m.eps = rows
    BY <2>1
  <2>7. Speaks(m, key, where)
    BY <2>4, <2>5, <2>6 DEF Speaks
  <2> QED
    BY <2>7 DEF m, key
<1> QED
  BY <1>2, <1>3

\* A walk holds whatever each of its rules yields.
LEMMA WalkHas ==
    ASSUME NEW t, TableOK(t), NEW g, \A i \in 0 .. MaxJumpDepth + 1 : g[i] = NextWalk(t, g, i),
           NEW left \in Nat, left + 1 <= MaxJumpDepth + 1,
           NEW c \in DOMAIN t.chains, NEW r \in DOMAIN t.chains[c].rules, NEW f \in Knowledge
    PROVE  ToSet(RuleYields(t, c, r, f, g[left])) \subseteq ToSet(g[left + 1][c][f])
<1> DEFINE rules == t.chains[c].rules
           y(k)  == RuleYields(t, c, k, f, g[left])
           ys    == [k \in DOMAIN rules |-> y(k)]
<1>1. MaxJumpDepth \in Nat
  BY RulesetsAssumption
<1>2. left \in 0 .. MaxJumpDepth + 1 /\ left + 1 \in 0 .. MaxJumpDepth + 1
  BY <1>1
<1>3. g[left + 1][c][f] = FlattenSeq(ys)
  BY <1>2, WalkStep
<1>4. WalkOK(t, g[left])
  BY <1>2, WalkTyped
<1>5. \A k \in DOMAIN rules : y(k) \in Seq(Emissions)
  BY <1>4, RuleYieldsTyped DEF WalkOK
<1>6. DOMAIN rules = 1 .. Len(rules) /\ Len(rules) \in Nat
  BY ChainsAreOK
<1>7. r \in DOMAIN rules
  OBVIOUS
<1> HIDE DEF rules, y
<1>8. ys \in Seq(Seq(Emissions)) /\ r \in 1 .. Len(ys) /\ ys[r] = y(r)
  BY <1>5, <1>6, <1>7
<1> HIDE DEF ys
<1>9. ToSet(y(r)) \subseteq ToSet(FlattenSeq(ys))
  BY <1>8, FlattenHasAll
<1> QED
  BY <1>3, <1>9 DEF y

\* Every packet may be one a base chain's rules are about.
LEMMA NothingIsKnownYet ==
    ASSUME NEW pkt
    PROVE  NoMatchYet \in Knowledge /\ Admits(NoMatchYet, pkt)
<1>1. NoMatchYet = [proto |-> Blank, ports |-> {}, refuse |-> FALSE]
  BY DEF NoMatchYet, Blank
<1>2. Blank \in {"", "tcp", "udp", "other"}
  BY DEF Blank
<1>3. NoMatchYet \in Knowledge
  BY <1>1, <1>2 DEF Knowledge
<1>4. Admits(NoMatchYet, pkt)
  BY <1>1 DEF Admits
<1> QED
  BY <1>3, <1>4

\* A rule that matches, as the scan reads it: FromKernel and the rest come
\* with the table.
LEMMA TableRuleFollows ==
    ASSUME NEW t, TableOK(t), NEW pkt, PacketOK(pkt), pkt.family \in TableFamilies(t.family),
           NEW c \in DOMAIN t.chains, NEW r \in DOMAIN t.chains[c].rules,
           NEW f \in Knowledge, Admits(f, pkt),
           MatchRule(pkt, t.chains[c].rules[r], t.sets).out = "Match"
    PROVE  LET s == ReadRule(t.chains[c].rules[r], t.sets, f)
           IN  /\ s.f \in Knowledge /\ Admits(s.f, pkt)
               /\ ActFollows(pkt, t.family, s, MatchRule(pkt, t.chains[c].rules[r], t.sets).act)
<1>1. FromKernel(t.family, t.chains[c].rules[r])
  BY ChainsAreOK
<1>2. SetsOK(t.sets) /\ t.sets \in Seq(Range(t.sets))
  BY DEF TableOK
<1> DEFINE rule == t.chains[c].rules[r]
           sets == t.sets
           family == t.family
<1>3. /\ FromKernel(family, rule) /\ SetsOK(sets) /\ sets \in Seq(Range(sets))
      /\ MatchRule(pkt, rule, sets).out = "Match" /\ pkt.family \in TableFamilies(family)
  BY <1>1, <1>2
<1> HIDE DEF rule, sets, family
<1>4. LET s == ReadRule(rule, sets, f)
      IN  /\ ScanOK(s) /\ Admits(s.f, pkt)
          /\ ActFollows(pkt, family, s, MatchRule(pkt, rule, sets).act)
  BY <1>3, RuleFollows
<1> QED
  BY <1>4 DEF rule, sets, family, ScanOK

\* By induction over the jumps: at the depth where a packet reaches a
\* chain, the walk reads that chain knowing only what holds of the packet.
LEMMA ChainSpeaks ==
    ASSUME NEW t, TableOK(t), NEW pkt, PacketOK(pkt), pkt.family \in TableFamilies(t.family),
           NEW b \in DOMAIN t.chains, NEW w \in Rewriting(t, b, pkt)
    PROVE  /\ w = <<w[1], w[2]>>
           /\ \E m \in ToSet(WalkFrom(t, b)) : Speaks(m, RowOf(t, pkt, w), w)
<1> DEFINE n     == MaxJumpDepth
           found == WalkFrom(t, b)
<1>1. n \in Nat
  BY RulesetsAssumption
<1>2. PICK g : /\ found = g[n + 1][b][NoMatchYet]
               /\ \A i \in 0 .. n + 1 : g[i] = NextWalk(t, g, i)
  BY <1>1, WalkSteps
<1>3. PICK in : /\ Reached(t, b, pkt) = in[n]
                /\ \A d \in 0 .. n : in[d] = NextIn(t, b, pkt, in, d)
  BY <1>1, ReachedSteps
<1> DEFINE Within(c, left) ==
               \E f \in Knowledge : Admits(f, pkt) /\ ToSet(g[left + 1][c][f]) \subseteq ToSet(found)
           Seen(c, d) == c \in DOMAIN t.chains /\ \E left \in n - d .. n : Within(c, left)
           D == {d \in Nat : d <= n => \A c \in in[d] : Seen(c, d)}
<1>4. 0 \in D
  <2>1. in[0] = {b}
    <3>1. 0 \in 0 .. n
      BY <1>1
    <3>2. in[0] = NextIn(t, b, pkt, in, 0)
      BY <1>3, <3>1
    <3> QED
      BY <3>2, Zenon DEF NextIn
  <2>2. Within(b, n)
    BY <1>2, NothingIsKnownYet
  <2>3. n \in n - 0 .. n
    BY <1>1
  <2>4. Seen(b, 0)
    BY <2>2, <2>3
  <2> HIDE DEF Seen
  <2> QED
    BY <2>1, <2>4
<1>5. ASSUME NEW d \in Nat, d \in D
      PROVE  d + 1 \in D
  <2> SUFFICES ASSUME d + 1 <= n, NEW c \in in[d + 1]
               PROVE  Seen(c, d + 1)
    OBVIOUS
  <2>1. d + 1 \in 0 .. n /\ (d + 1) - 1 = d /\ d + 1 # 0 /\ d <= n
    BY <1>1
  <2>2. \A a \in in[d] : Seen(a, d)
    BY <1>5, <2>1
  <2>3. \/ c \in in[d]
        \/ \E a \in in[d] : \E rule \in Range(t.chains[a].rules) :
              LET x == MatchRule(pkt, rule, t.sets)
              IN  x.out = "Match" /\ x.act.kind \in {"jump", "goto"} /\ c \in FindChain(t, x.act.chain)
    <3>1. in[d + 1] = NextIn(t, b, pkt, in, d + 1)
      BY <1>3, <2>1
    <3> QED
      BY <2>1, <3>1 DEF NextIn
  <2>4. CASE c \in in[d]
    <3>1. c \in DOMAIN t.chains
      BY <2>2, <2>4
    <3>2. PICK left \in n - d .. n : Within(c, left)
      BY <2>2, <2>4
    <3>3. left \in n - (d + 1) .. n
      BY <1>1
    <3> HIDE DEF Within
    <3> QED
      BY <3>1, <3>2, <3>3
  <2>5. ASSUME NEW a \in in[d], NEW rule \in Range(t.chains[a].rules),
               MatchRule(pkt, rule, t.sets).out = "Match",
               MatchRule(pkt, rule, t.sets).act.kind \in {"jump", "goto"},
               c \in FindChain(t, MatchRule(pkt, rule, t.sets).act.chain)
        PROVE  Seen(c, d + 1)
    <3>1. a \in DOMAIN t.chains /\ c \in DOMAIN t.chains
      BY <2>2, <2>5, FoundChain
    <3>2. PICK up \in n - d .. n : Within(a, up)
      BY <2>2
    <3>3. PICK left \in Nat : up = left + 1 /\ left \in n - (d + 1) .. n /\ left + 1 <= n
      <4>1. up - 1 \in Nat /\ up = (up - 1) + 1 /\ up - 1 \in n - (d + 1) .. n /\ (up - 1) + 1 <= n
        BY <1>1
      <4> QED
        BY <4>1
    <3>4. PICK f \in Knowledge : Admits(f, pkt) /\ ToSet(g[up + 1][a][f]) \subseteq ToSet(found)
      BY <3>2
    <3>5. PICK r \in DOMAIN t.chains[a].rules : rule = t.chains[a].rules[r]
      BY DEF Range
    <3> DEFINE s == ReadRule(t.chains[a].rules[r], t.sets, f)
               act == MatchRule(pkt, rule, t.sets).act
    <3>6. s.f \in Knowledge /\ Admits(s.f, pkt) /\ ActFollows(pkt, t.family, s, act)
      BY <2>5, <3>1, <3>4, <3>5, TableRuleFollows
    <3>7. s.end = "walks" /\ s.arg = act.chain
      BY <2>5, <3>6 DEF ActFollows
    <3>8. RuleYields(t, a, r, f, g[up]) = g[up][c][s.f]
      <4> HIDE DEF act
      <4>1. c \in FindChain(t, s.arg)
        BY <2>5, <3>7 DEF act
      <4>2. s.end = "walks" => \A k \in FindChain(t, s.arg) :
               RuleYields(t, a, r, f, g[up]) = g[up][k][s.f]
        BY <3>1, RuleYieldsIs
      <4> HIDE DEF s
      <4> QED
        BY <3>7, <4>1, <4>2
    <3>9. ToSet(RuleYields(t, a, r, f, g[up])) \subseteq ToSet(g[up + 1][a][f])
      <4>1. up \in Nat /\ up + 1 <= n + 1
        BY <1>1, <3>3
      <4> QED
        BY <1>2, <3>1, <3>4, <3>5, <4>1, WalkHas
    <3> HIDE DEF s, found
    <3>10. Within(c, left)
      BY <3>3, <3>4, <3>6, <3>8, <3>9
    <3> HIDE DEF Within
    <3> QED
      BY <3>1, <3>3, <3>10
  <2> HIDE DEF Seen
  <2> QED
    BY <2>3, <2>4, <2>5
<1>6. n \in D
  <2> HIDE DEF D
  <2> QED
    BY <1>1, <1>4, <1>5, Induction
<1>7. PICK c \in Reached(t, b, pkt) : \E r \in DOMAIN t.chains[c].rules :
          LET x == MatchRule(pkt, t.chains[c].rules[r], t.sets)
          IN  /\ w = <<c, r>> /\ x.out = "Match" /\ x.act.kind = "dnat"
              /\ Fits(pkt, x.act.dnat.ip)
  BY DEF Rewriting
<1>8. PICK r \in DOMAIN t.chains[c].rules :
          LET x == MatchRule(pkt, t.chains[c].rules[r], t.sets)
          IN  /\ w = <<c, r>> /\ x.out = "Match" /\ x.act.kind = "dnat"
              /\ Fits(pkt, x.act.dnat.ip)
  BY <1>7
<1>9. Seen(c, n)
  <2> HIDE DEF Seen
  <2> QED
    BY <1>1, <1>3, <1>6, <1>7
<1>10. c \in DOMAIN t.chains
  BY <1>9
<1>11. PICK left \in n - n .. n : Within(c, left)
  BY <1>9
<1>12. left \in Nat /\ left + 1 <= n + 1
  BY <1>1
<1>13. PICK f \in Knowledge : Admits(f, pkt) /\ ToSet(g[left + 1][c][f]) \subseteq ToSet(found)
  BY <1>11
<1> DEFINE s   == ReadRule(t.chains[c].rules[r], t.sets, f)
           act == MatchRule(pkt, t.chains[c].rules[r], t.sets).act
           m   == Emit(t.family, <<c, r>>, s.f, s.arg)
<1>14. s.f \in Knowledge /\ Admits(s.f, pkt) /\ ActFollows(pkt, t.family, s, act)
  BY <1>8, <1>10, <1>13, TableRuleFollows
<1> DEFINE fam == RowFamily(t.family, pkt, act.dnat.ip)
<1>15. s.end = "rewrites" /\ fam \in Families(t.family, s.arg)
  BY <1>8, <1>14 DEF ActFollows
<1>16. RuleYields(t, c, r, f, g[left]) = <<m>>
  BY <1>10, <1>13, <1>15, RuleYieldsIs
<1>17. ToSet(RuleYields(t, c, r, f, g[left])) \subseteq ToSet(g[left + 1][c][f])
  BY <1>2, <1>10, <1>12, <1>13, WalkHas
<1>18. Speaks(m, RowOf(t, pkt, w), w)
  <2>1. w[1] = c /\ w[2] = r
    BY <1>8
  <2>2. RowOf(t, pkt, w) = <<fam, pkt.proto, pkt.dport>>
    BY <2>1 DEF RowOf
  <2> HIDE DEF fam, act
  <2>3. Speaks(m, <<fam, pkt.proto, pkt.dport>>, <<c, r>>)
    BY <1>14, <1>15, EmitSpeaks
  <2> QED
    BY <1>8, <2>2, <2>3
<1> HIDE DEF m, found
<1>19. m \in ToSet(<<m>>)
  BY DEF ToSet
<1>20. m \in ToSet(found)
  BY <1>13, <1>16, <1>17, <1>19
<1>21. w = <<w[1], w[2]>>
  BY <1>8
<1> QED
  BY <1>18, <1>20, <1>21 DEF found

(***************************************************************************)
(* The chains behind the scan are accounted for                            *)
(***************************************************************************)
\* Chain b of table t is accounted for.
Spoken(t, i, b, rows, remarks) ==
    \A pkt \in Packets :
        /\ pkt.family \in TableFamilies(t.family)
        /\ t.chains[b].base
        /\ t.chains[b].hook = "prerouting"
        => \A w \in Rewriting(t, b, pkt) :
              \/ RowOf(t, pkt, w) \in {Key(e) : e \in rows}
              \/ <<i, w[1], w[2]>> \in remarks

\* The position <<i, b>> is behind <<x, y>>.
Behind(i, b, x, y) == i < x \/ (i = x /\ b < y)

\* One chain further.
LEMMA BehindNext ==
    ASSUME NEW i \in Nat, NEW b \in Nat, NEW x \in Nat, NEW y \in Nat
    PROVE  /\ Behind(i, b, x, y + 1) => Behind(i, b, x, y) \/ (i = x /\ b = y)
           /\ i < x => Behind(i, b, x, y)
           /\ i = x /\ b < y => Behind(i, b, x, y)
BY DEF Behind

\* The inductive invariant: every chain behind the scan is.
SpokenInv ==
    \A i \in DOMAIN tables : \A b \in DOMAIN tables[i].chains :
        Behind(i, b, at[1], at[2]) => Spoken(tables[i], i, b, eps, notes)

\* What has been said stays said.
LEMMA SpokenStays ==
    ASSUME NEW t, NEW i, NEW b, NEW rows, NEW remarks, Spoken(t, i, b, rows, remarks),
           NEW rows2, rows \subseteq rows2, NEW remarks2, remarks \subseteq remarks2
    PROVE  Spoken(t, i, b, rows2, remarks2)
BY DEF Spoken

\* The chain that is scanned speaks for every packet.
LEMMA SpokenChain ==
    ASSUME TypeInv, InTable
    PROVE  LET found == WalkFrom(tables[at[1]], at[2])
           IN  Spoken(tables[at[1]], at[1], at[2], eps \union FirstOfEach(found, eps),
                      notes \union UNION {{<<at[1], n[1], n[2]>> : n \in found[i].notes} :
                                             i \in DOMAIN found})
<1> DEFINE t       == tables[at[1]]
           b       == at[2]
           found   == WalkFrom(t, b)
           rows    == eps \union FirstOfEach(found, eps)
           remarks == notes \union UNION {{<<at[1], n[1], n[2]>> : n \in found[i].notes} :
                                             i \in DOMAIN found}
<1>1. TableOK(t) /\ b \in DOMAIN t.chains
  BY ScannedChain
<1>2. \A i \in DOMAIN found : \A e \in found[i].eps : \E k \in rows : Key(k) = Key(e)
  BY ScannedChain
<1>3. \A i \in DOMAIN found : \A n \in found[i].notes : <<at[1], n[1], n[2]>> \in remarks
  OBVIOUS
<1> SUFFICES ASSUME NEW pkt \in Packets, pkt.family \in TableFamilies(t.family),
                    NEW w \in Rewriting(t, b, pkt)
             PROVE  \/ RowOf(t, pkt, w) \in {Key(e) : e \in rows}
                    \/ <<at[1], w[1], w[2]>> \in remarks
  BY DEF Spoken
<1>4. PacketOK(pkt)
  BY PacketsAssumption DEF PacketOK
<1>5. PICK m \in ToSet(found) : Speaks(m, RowOf(t, pkt, w), w)
  BY <1>1, <1>4, ChainSpeaks
<1>6. PICK i \in DOMAIN found : m = found[i]
  BY DEF ToSet
<1> HIDE DEF rows, remarks, found, t, b
<1>7. CASE w \in m.notes
  BY <1>3, <1>6, <1>7
<1>8. CASE \E e \in m.eps : Key(e) = RowOf(t, pkt, w)
  BY <1>2, <1>6, <1>8
<1> QED
  BY <1>5, <1>7, <1>8 DEF Speaks

\* Nothing is behind the scan yet.
LEMMA SpokenInvInit == Init => SpokenInv
<1> SUFFICES ASSUME Init, NEW i \in DOMAIN tables, NEW b \in DOMAIN tables[i].chains
             PROVE  ~Behind(i, b, at[1], at[2])
  BY DEF SpokenInv
<1>1. tables \in Rulesets /\ at = <<1, 1>>
  BY DEF Init
<1>2. i \in Nat /\ i >= 1 /\ b \in Nat /\ b >= 1
  BY <1>1, TablesAreOK, ChainsAreOK
<1> QED
  BY <1>1, <1>2 DEF Behind

\* One case for each action.
LEMMA SpokenInvNext == TypeInv /\ SpokenInv /\ [Next]_vars => SpokenInv'
<1> SUFFICES ASSUME TypeInv, SpokenInv, [Next]_vars
             PROVE  SpokenInv'
  OBVIOUS
<1>1. /\ tables \in Rulesets /\ at[1] \in Nat /\ at[2] \in Nat
      /\ DOMAIN tables = 1 .. Len(tables) /\ Len(tables) \in Nat
      /\ \A i \in DOMAIN tables : TableOK(tables[i])
  BY TablesAreOK DEF TypeInv
<1>2. \A i \in DOMAIN tables : \A b \in DOMAIN tables[i].chains : i \in Nat /\ b \in Nat
  BY <1>1, ChainsAreOK
<1>n. ASSUME NEW i \in Nat, NEW b \in Nat, Behind(i, b, at[1], at[2] + 1)
      PROVE  Behind(i, b, at[1], at[2]) \/ (i = at[1] /\ b = at[2])
  BY <1>1, <1>n, BehindNext
<1>3. \A i \in DOMAIN tables : \A b \in DOMAIN tables[i].chains :
         Behind(i, b, at[1], at[2]) => Spoken(tables[i], i, b, eps, notes)
  BY DEF SpokenInv
<1>4. CASE ScanChain
  <2> DEFINE found   == WalkFrom(tables[at[1]], at[2])
             rows    == eps \union FirstOfEach(found, eps)
             remarks == notes \union UNION {{<<at[1], n[1], n[2]>> : n \in found[i].notes} :
                                               i \in DOMAIN found}
  <2>1. eps' = rows /\ notes' = remarks /\ tables' = tables /\ at'[1] = at[1] /\ at'[2] = at[2] + 1
    BY <1>4 DEF ScanChain, NextChain
  <2>2. Spoken(tables[at[1]], at[1], at[2], rows, remarks)
    BY <1>4, SpokenChain DEF ScanChain
  <2>3. eps \subseteq rows /\ notes \subseteq remarks
    OBVIOUS
  <2> HIDE DEF rows, remarks
  <2>4. ASSUME NEW i \in DOMAIN tables, NEW b \in DOMAIN tables[i].chains,
               Behind(i, b, at[1], at[2] + 1)
        PROVE  Spoken(tables[i], i, b, rows, remarks)
    <3>1. Behind(i, b, at[1], at[2]) \/ (i = at[1] /\ b = at[2])
      BY <1>2, <1>n, <2>4
    <3>2. CASE Behind(i, b, at[1], at[2])
      BY <1>3, <2>3, <3>2, SpokenStays
    <3> QED
      BY <2>2, <3>1, <3>2
  <2> QED
    BY <2>1, <2>4 DEF SpokenInv
<1>5. CASE SkipChain
  <2>1. /\ eps' = eps /\ notes' = notes /\ tables' = tables
        /\ at'[1] = at[1] /\ at'[2] = at[2] + 1 /\ ~Walked
    BY <1>5 DEF SkipChain, NextChain
  <2>2. ASSUME NEW i \in DOMAIN tables, NEW b \in DOMAIN tables[i].chains,
               Behind(i, b, at[1], at[2] + 1)
        PROVE  Spoken(tables[i], i, b, eps, notes)
    <3>1. Behind(i, b, at[1], at[2]) \/ (i = at[1] /\ b = at[2])
      BY <1>2, <1>n, <2>2
    <3>2. CASE i = at[1] /\ b = at[2]
      BY <2>1, <3>2 DEF Walked, Here, Spoken
    <3> QED
      BY <1>3, <3>1, <3>2
  <2> QED
    BY <2>1, <2>2 DEF SpokenInv
<1>6. CASE NextTable
  <2>1. /\ eps' = eps /\ notes' = notes /\ tables' = tables
        /\ at'[1] = at[1] + 1 /\ at'[2] = 1
        /\ More /\ ~InTable
    BY <1>6 DEF NextTable
  <2>2. ASSUME NEW i \in DOMAIN tables, NEW b \in DOMAIN tables[i].chains,
               Behind(i, b, at[1] + 1, 1)
        PROVE  Spoken(tables[i], i, b, eps, notes)
    <3>1. b \in Nat /\ b >= 1 /\ b <= Len(tables[i].chains) /\ Len(tables[i].chains) \in Nat
      BY <1>1, ChainsAreOK
    <3>2. i < at[1] \/ i = at[1]
      BY <1>1, <1>2, <2>2, <3>1 DEF Behind
    <3>3. CASE i < at[1]
      <4>1. Behind(i, b, at[1], at[2])
        BY <3>3 DEF Behind
      <4> QED
        BY <1>3, <4>1
    <3>4. CASE i = at[1] /\ TableFamilies(tables[i].family) = {}
      BY <3>4 DEF Spoken
    <3>5. CASE i = at[1] /\ TableFamilies(tables[i].family) # {}
      <4>1. ~(at[2] <= Len(tables[i].chains))
        BY <2>1, <3>5 DEF InTable
      <4>2. b < at[2]
        BY <1>1, <3>1, <4>1
      <4>3. Behind(i, b, at[1], at[2])
        BY <1>1, <1>2, <3>5, <4>2, BehindNext
      <4> QED
        BY <1>3, <4>3
    <3> QED
      BY <3>2, <3>3, <3>4, <3>5
  <2> QED
    BY <2>1, <2>2 DEF SpokenInv
<1>7. CASE Done \/ UNCHANGED vars
  <2>1. eps' = eps /\ notes' = notes /\ tables' = tables /\ at' = at
    BY <1>7 DEF Done, vars
  <2> QED
    BY <1>3, <2>1 DEF SpokenInv
<1> QED
  BY <1>4, <1>5, <1>6, <1>7 DEF Next

(* No forwarded port is passed over in silence (forwards.go:36-48): for     *)
(* every ruleset, however its chains call each other, and every packet, a  *)
(* rule that would rewrite the packet has given its port a row of the      *)
(* family its target stands for (forwards.go:392-405), or a note names it. *)
THEOREM ForwardsAreNeverSilent == Spec => []NoForwardIsSilent
<1>1. TypeInv /\ SpokenInv => NoForwardIsSilent
  <2> SUFFICES ASSUME TypeInv, SpokenInv, ~More,
                      NEW i \in DOMAIN tables, NEW pkt \in Packets, NEW b \in DOMAIN tables[i].chains,
                      pkt.family \in TableFamilies(tables[i].family),
                      tables[i].chains[b].base, tables[i].chains[b].hook = "prerouting",
                      NEW w \in Rewriting(tables[i], b, pkt)
               PROVE  \/ RowOf(tables[i], pkt, w) \in {Key(e) : e \in eps}
                      \/ <<i, w[1], w[2]>> \in notes
    BY DEF NoForwardIsSilent
  <2>1. DOMAIN tables = 1 .. Len(tables) /\ Len(tables) \in Nat /\ at[1] \in Nat
    BY TablesAreOK DEF TypeInv
  <2>2. i < at[1]
    BY <2>1 DEF More
  <2>3. Behind(i, b, at[1], at[2])
    BY <2>2 DEF Behind
  <2>4. Spoken(tables[i], i, b, eps, notes)
    BY <2>3 DEF SpokenInv
  <2> QED
    BY <2>4 DEF Spoken
<1>2. Init => TypeInv /\ SpokenInv
  BY TypeInvInit, SpokenInvInit
<1>3. (TypeInv /\ SpokenInv) /\ [Next]_vars => (TypeInv /\ SpokenInv)'
  BY TypeInvNext, SpokenInvNext
<1> QED
  BY <1>1, <1>2, <1>3, PTL DEF Spec
=============================================================================
