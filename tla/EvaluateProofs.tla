---------------------------- MODULE EvaluateProofs ---------------------------
(***************************************************************************)
(* What a verdict means: the row under evaluation carries, for every       *)
(* address it is bound to, either the destination still to try or what the *)
(* kernel's own path does with the packet (Fate), so the verdict picked at *)
(* the end is the best of all of them, whatever the rules say.             *)
(***************************************************************************)
EXTENDS Evaluate, ListProofs

Results == {"reachable", "filtered", "unknown"}
Outcome(kind) == IF kind = "accept" THEN "reachable" ELSE IF kind = "drop" THEN "filtered" ELSE "unknown"

\* What the row r says of the destination c.
Judged(r, c) ==
    LET fate == Fate(r[2], r[1].proto, r[1].port, c)
    IN  IF fate.to = "here" /\ r[1].kind = "forward" THEN "filtered" ELSE Outcome(fate.kind)

Names(f) == {i.name : i \in Range(f.ifaces)}

RowsInv ==
    /\ facts \in Inputs
    /\ todo \subseteq Rows(facts)
    /\ pc # "rows" => \A r \in Rows(facts) :
           r \in todo \/ \E v \in verdicts : v.ep = r[1] /\ v.family = r[2]

Idle == row = NoRow /\ left = <<>> /\ Range(results) \subseteq Results

OnRow ==
    /\ row \in todo
    /\ ~Blind(facts)
    /\ Covered(row) # <<>>
    /\ left \in Seq(Range(Covered(row)))
    /\ results \in Seq(Results)
    /\ \A c \in Range(Covered(row)) : c \in Range(left) \/ Judged(row, c) \in Range(results)

Sending == left # <<>> /\ pkt = SentFor(facts, row, left)

Walking ==
    /\ left # <<>>
    /\ hook \in {"input", "forward"}
    /\ Judged(row, left[1]) = Outcome(HookResult(facts.ruleset, hook, pkt).kind)
    /\ pkt.iif = left[1].iface
    /\ hook = "forward" => pkt.oif \in Names(facts)

\* A verdict says filtered only when every destination is, and reachable as
\* soon as one is.
Earned(v) ==
    LET r == <<v.ep, v.family>>
    IN  /\ r \in Rows(facts)
        /\ v.result \in Results
        /\ Blind(facts) => v.result = "unknown"
        /\ \A c \in Range(Covered(r)) :
              /\ v.result = "filtered" => Judged(r, c) = "filtered"
              /\ ~Blind(facts) /\ Judged(r, c) = "reachable" => v.result = "reachable"

IInv ==
    /\ RowsInv
    /\ hook \in {"", "input", "forward"}
    /\ pc \in {"rows", "row", "done"} => Idle
    /\ pc = "done" => todo = {}
    /\ pc \in {"prerouting", "second", "pick"} => OnRow
    /\ pc = "prerouting" => Sending
    /\ pc = "second" => Walking
    /\ pc = "pick" => left = <<>>
    /\ pc \in {"rows", "row", "prerouting", "second", "pick", "done"}
    /\ \A v \in verdicts : Earned(v)

-----------------------------------------------------------------------------
(***************************************************************************)
(* The addresses                                                           *)
(***************************************************************************)

LEMMA PublicAddrsIsSeq ==
    ASSUME NEW f \in Inputs, NEW fam
    PROVE  PublicAddrs(f, fam) \in Seq(Range(PublicAddrs(f, fam)))
<1> DEFINE S == UNION {{[ip |-> a.ip, iface |-> i.name] : a \in Range(i.addrs)} : i \in Range(f.ifaces)}
           Of(i) == IF ~f.ifaces[i].up THEN <<>>
                    ELSE LET public == Sublist(f.ifaces[i].addrs, PublicOf(f.ifaces[i], fam))
                         IN  [j \in DOMAIN public |-> [ip |-> public[j].ip, iface |-> f.ifaces[i].name]]
           ss == [i \in DOMAIN f.ifaces |-> Of(i)]
<1>1. f.ifaces \in Seq(Range(f.ifaces))
  BY SnapshotsAssumption
<1>2. ASSUME NEW i \in DOMAIN f.ifaces
      PROVE  Of(i) \in Seq(S)
  <2> DEFINE iface == f.ifaces[i]
             public == Sublist(iface.addrs, PublicOf(iface, fam))
             T == Range(iface.addrs)
  <2>1. iface \in Range(f.ifaces)
    BY DEF Range
  <2>2. iface.addrs \in Seq(T)
    BY <2>1, SnapshotsAssumption
  <2>3. public \in Seq(T)
    <3> HIDE DEF T, iface
    <3> QED
      BY <2>2, SublistSelects
  <2>4. \A a \in T : [ip |-> a.ip, iface |-> iface.name] \in S
    BY <2>1
  <2> HIDE DEF public, T, S
  <2>5. DOMAIN public = 1 .. Len(public) /\ Len(public) \in Nat /\ \A j \in DOMAIN public : public[j] \in T
    BY <2>3
  <2>6. [j \in DOMAIN public |-> [ip |-> public[j].ip, iface |-> iface.name]] \in Seq(S)
    BY <2>4, <2>5
  <2> QED
    BY <2>6 DEF public
<1> HIDE DEF Of, S
<1>3. DOMAIN f.ifaces = 1 .. Len(f.ifaces) /\ Len(f.ifaces) \in Nat
  BY <1>1
<1>4. ss \in Seq(Seq(S))
  BY <1>2, <1>3
<1>5. FlattenSeq(ss) \in Seq(S)
  BY <1>4, FlattenIsSeq
<1>6. PublicAddrs(f, fam) = FlattenSeq(ss)
  BY DEF PublicAddrs, Of
<1> QED
  BY <1>5, <1>6, SeqOfItsElements, RangeIsToSet

LEMMA CoveredIs ==
    ASSUME facts \in Inputs, NEW r
    PROVE  /\ Covered(r) \in Seq(Range(Covered(r)))
           /\ Range(Covered(r)) = {c \in Range(PublicAddrs(facts, r[2])) : BindCovers(r[1].bind, c.ip)}
<1> DEFINE public == PublicAddrs(facts, r[2])
           T == {c \in Range(public) : BindCovers(r[1].bind, c.ip)}
<1>1. public \in Seq(Range(public))
  BY PublicAddrsIsSeq
<1>2. Covered(r) = Sublist(public, T)
  BY DEF Covered
<1> HIDE DEF public
<1>3. /\ Sublist(public, T) \in Seq(Range(public))
      /\ ToSet(Sublist(public, T)) = ToSet(public) \intersect T
  BY <1>1, SublistSelects
<1>4. ToSet(public) \intersect T = T
  BY RangeIsToSet
<1> QED
  BY <1>2, <1>3, <1>4, SeqOfItsElements, RangeIsToSet DEF public

LEMMA CoveredStays ==
    ASSUME facts' = facts, NEW r
    PROVE  Covered(r)' = Covered(r)
BY DEF Covered

LEMMA JudgedStays ==
    ASSUME facts' = facts, NEW r, NEW c
    PROVE  Judged(r, c)' = Judged(r, c)
BY DEF Judged, Fate, MayForward

LEMMA EarnedStays ==
    ASSUME facts' = facts, NEW v, Earned(v)
    PROVE  Earned(v)'
BY CoveredStays, JudgedStays DEF Earned

(***************************************************************************)
(* The best of the results                                                 *)
(***************************************************************************)
\* A list that has a reachable result yields it, and filtered is picked only
\* from a list of nothing else.
LEMMA BestIs ==
    ASSUME NEW rs \in Seq(Results), rs # <<>>
    PROVE  /\ Best(rs) \in Results
           /\ "reachable" \in Range(rs) => Best(rs) = "reachable"
           /\ Best(rs) = "filtered" => Range(rs) = {"filtered"}
<1> DEFINE B == {i \in DOMAIN rs : \A j \in DOMAIN rs : Rank(rs[j]) <= Rank(rs[i])}
           n == Len(rs)
           k == CHOOSE i \in B : \A j \in B : i <= j
<1>1. DOMAIN rs = 1 .. n /\ n \in Nat /\ n # 0 /\ \A i \in 1 .. n : rs[i] \in Results
  OBVIOUS
<1>2. \A r \in Results : /\ Rank(r) \in 0 .. 2
                         /\ Rank(r) = 2 <=> r = "reachable"
                         /\ Rank(r) = 0 <=> r = "filtered"
  BY DEF Rank, Results
<1> HIDE DEF n
<1>3. B # {}
  <2>0. \A i \in 1 .. n : (\A j \in 1 .. n : Rank(rs[j]) <= Rank(rs[i])) => i \in B
    BY <1>1
  <2> HIDE DEF B
  <2>1. CASE \E i \in 1 .. n : rs[i] = "reachable"
    <3>1. PICK i \in 1 .. n : rs[i] = "reachable"
      BY <2>1
    <3>2. \A j \in 1 .. n : Rank(rs[j]) \in 0 .. 2 /\ Rank(rs[i]) = 2
      BY <1>1, <1>2, <3>1
    <3>3. \A j \in 1 .. n : Rank(rs[j]) <= Rank(rs[i])
      BY <3>2
    <3> QED
      BY <2>0, <3>3
  <2>2. CASE ~\E i \in 1 .. n : rs[i] = "reachable"
    <3>1. \A i \in 1 .. n : Rank(rs[i]) \in 0 .. 1
      <4>1. \A i \in 1 .. n : Rank(rs[i]) \in 0 .. 2 /\ Rank(rs[i]) # 2
        BY <1>1, <1>2, <2>2
      <4> QED
        BY <4>1
    <3>2. CASE \E i \in 1 .. n : Rank(rs[i]) = 1
      <4>1. PICK i \in 1 .. n : Rank(rs[i]) = 1
        BY <3>2
      <4>2. \A j \in 1 .. n : Rank(rs[j]) <= Rank(rs[i])
        BY <3>1, <4>1
      <4> QED
        BY <2>0, <4>2
    <3>3. CASE ~\E i \in 1 .. n : Rank(rs[i]) = 1
      <4>1. \A i \in 1 .. n : Rank(rs[i]) = 0
        BY <3>1, <3>3
      <4>2. 1 \in 1 .. n
        BY <1>1
      <4>3. \A j \in 1 .. n : Rank(rs[j]) <= Rank(rs[1])
        BY <4>1, <4>2
      <4> QED
        BY <2>0, <4>2, <4>3
    <3> QED
      BY <3>2, <3>3
  <2> QED
    BY <2>1, <2>2
<1>4. k \in B
  <2>1. \E i \in B : \A j \in B : i <= j
    <3>1. B \subseteq Nat
      BY <1>1
    <3> HIDE DEF B
    <3>2. \E x \in B : \A y \in B : <<y, x>> \notin OpToRel(<, Nat)
      BY <1>3, <3>1, NatLessThanWellFounded, WFMin
    <3>3. PICK x \in B : \A y \in B : ~(y < x)
      BY <3>1, <3>2 DEF OpToRel
    <3>4. \A y \in B : x <= y
      BY <3>1, <3>3
    <3> QED
      BY <3>4
  <2> HIDE DEF B
  <2> QED
    BY <2>1
<1>5. Best(rs) = rs[k]
  BY DEF Best
<1> HIDE DEF k
<1>6. k \in 1 .. n /\ \A j \in 1 .. n : Rank(rs[j]) <= Rank(rs[k])
  BY <1>1, <1>4
<1>7. rs[k] \in Results
  BY <1>1, <1>6
<1>8. ASSUME "reachable" \in Range(rs)
      PROVE  rs[k] = "reachable"
  <2>1. PICK j \in 1 .. n : rs[j] = "reachable"
    BY <1>1, <1>8 DEF Range
  <2>2. Rank(rs[j]) = 2 /\ Rank(rs[j]) <= Rank(rs[k]) /\ Rank(rs[k]) \in 0 .. 2
    BY <1>1, <1>2, <1>6, <1>7, <2>1
  <2> QED
    BY <1>2, <1>7, <2>2
<1>9. ASSUME rs[k] = "filtered"
      PROVE  Range(rs) = {"filtered"}
  <2>1. \A j \in 1 .. n : Rank(rs[j]) = 0
    <3> SUFFICES ASSUME NEW j \in 1 .. n
                 PROVE  Rank(rs[j]) = 0
      OBVIOUS
    <3>1. Rank(rs[k]) = 0 /\ Rank(rs[j]) <= Rank(rs[k]) /\ Rank(rs[j]) \in 0 .. 2
      BY <1>1, <1>2, <1>6, <1>7, <1>9
    <3> QED
      BY <3>1
  <2>2. \A j \in 1 .. n : rs[j] = "filtered"
    BY <1>1, <1>2, <2>1
  <2> QED
    BY <1>1, <1>6, <2>2 DEF Range
<1> QED
  BY <1>5, <1>7, <1>8, <1>9

(***************************************************************************)
(* The rows                                                                *)
(***************************************************************************)
LEMMA RowIs ==
    ASSUME NEW f, NEW e \in Endpoints(f), NEW fam \in FamiliesFor(f, e)
    PROVE  <<e, fam>> \in Rows(f)
BY DEF Rows

\* Whatever replaces a socket or serves a family for it covers every address
\* the socket does.
LEMMA RowOfSocket ==
    ASSUME NEW f \in Inputs, NEW s \in f.sockets, NEW ip, BindCovers(s.bind, ip),
           NEW fam \in IF s.bind = "::" /\ ~f.v6only /\ s \notin f.publishes
                       THEN {"ip", "ip6"} ELSE {s.family}
    PROVE  \E e : /\ <<e, fam>> \in Rows(f)
                  /\ e.kind # "forward"
                  /\ e.proto = s.proto /\ e.port = s.port
                  /\ BindCovers(e.bind, ip)
<1> DEFINE es == Endpoint("socket", s.family, s.proto, s.bind, s.port)
<1>1. es \in Sockets(f) /\ OnThisHost(f) \subseteq Endpoints(f) /\ Publishes(f) \subseteq OnThisHost(f)
  BY DEF Sockets, OnThisHost, Endpoints
<1>2. /\ es.kind = "socket" /\ es.family = s.family /\ es.proto = s.proto
      /\ es.bind = s.bind /\ es.port = s.port
  BY DEF Endpoint
<1> HIDE DEF es
<1>3. CASE fam = s.family
  <2>1. CASE \E p \in Publishes(f) : SameKey(es, p)
    <3>1. PICK p \in Publishes(f) : SameKey(es, p)
      BY <2>1
    <3>2. p.kind = "publish"
      BY DEF Publishes, Endpoint
    <3>3. p.family = s.family /\ p.proto = s.proto /\ p.port = s.port /\ p.bind = s.bind
      BY <1>2, <3>1 DEF SameKey, SamePort
    <3>4. fam \in FamiliesFor(f, p)
      BY <1>3, <3>2, <3>3 DEF FamiliesFor, DualStack
    <3>5. <<p, fam>> \in Rows(f)
      BY <1>1, <3>4, RowIs
    <3> QED
      BY <3>2, <3>3, <3>5
  <2>2. CASE ~\E p \in Publishes(f) : SameKey(es, p)
    <3>1. es \in Endpoints(f)
      BY <1>1, <2>2 DEF OnThisHost
    <3>2. fam \in FamiliesFor(f, es)
      BY <1>2, <1>3 DEF FamiliesFor, DualStack
    <3>3. <<es, fam>> \in Rows(f)
      BY <3>1, <3>2, RowIs
    <3> QED
      BY <1>2, <3>3
  <2> QED
    BY <2>1, <2>2
<1>4. CASE fam # s.family
  <2>1. s.bind = "::" /\ ~f.v6only /\ s \notin f.publishes /\ fam \in {"ip", "ip6"}
    BY <1>4
  <2>2. s.family = "ip6" /\ fam = "ip"
    BY <1>4, <2>1, SnapshotsAssumption
  <2>3. \A p \in Publishes(f) : ~SameKey(es, p)
    <3> SUFFICES ASSUME NEW p \in f.publishes,
                        SameKey(es, Endpoint("publish", p.family, p.proto, p.bind, p.port))
                 PROVE  FALSE
      BY DEF Publishes
    <3>1. p.family = s.family /\ p.proto = s.proto /\ p.bind = s.bind /\ p.port = s.port
      BY <1>2 DEF SameKey, SamePort, Endpoint
    <3>2. /\ p = [family |-> p.family, proto |-> p.proto, bind |-> p.bind, port |-> p.port]
          /\ s = [family |-> s.family, proto |-> s.proto, bind |-> s.bind, port |-> s.port]
      BY SnapshotsAssumption
    <3>3. p = s
      BY <3>1, <3>2
    <3> QED
      BY <2>1, <3>3
  <2>4. es \in Endpoints(f)
    BY <1>1, <2>3 DEF OnThisHost
  <2>5. DualStack(f, es)
    BY <1>2, <2>1, <2>2 DEF DualStack
  <2>6. CASE ~WildcardIPv4(f, es)
    <3>1. fam \in FamiliesFor(f, es)
      BY <2>2, <2>5, <2>6 DEF FamiliesFor
    <3>2. <<es, fam>> \in Rows(f)
      BY <2>4, <3>1, RowIs
    <3> QED
      BY <1>2, <3>2
  <2>7. CASE WildcardIPv4(f, es)
    <3>1. PICK w \in Endpoints(f) :
              w.kind = "socket" /\ w.family = "ip" /\ w.bind = "0.0.0.0" /\ SamePort(w, es)
      BY <2>7 DEF WildcardIPv4
    <3>2. fam \in FamiliesFor(f, w)
      BY <2>2, <3>1 DEF FamiliesFor, DualStack
    <3>3. <<w, fam>> \in Rows(f)
      BY <3>2, RowIs
    <3>4. w.proto = s.proto /\ w.port = s.port /\ BindCovers(w.bind, ip)
      BY <1>2, <3>1 DEF SamePort, BindCovers, Wildcards
    <3> QED
      BY <3>1, <3>3, <3>4
  <2> QED
    BY <2>6, <2>7
<1> QED
  BY <1>3, <1>4

LEMMA RowIsAPair ==
    ASSUME NEW f, NEW r \in Rows(f)
    PROVE  r = <<r[1], r[2]>>
<1>1. PICK e \in Endpoints(f) : r \in {e} \X FamiliesFor(f, e)
  BY DEF Rows
<1> QED
  BY <1>1

(***************************************************************************)
(* The steps                                                               *)
(***************************************************************************)
LEMMA InitIsIInv == Init => IInv
<1> SUFFICES ASSUME Init
             PROVE  IInv
  OBVIOUS
<1>1. Range(results) = {} /\ verdicts = {} /\ todo = {} /\ pc = "rows"
  <2>1. results = <<>> /\ verdicts = {} /\ todo = {} /\ pc = "rows"
    BY DEF Init
  <2>2. Range(<<>>) = {}
    BY DEF Range
  <2> QED
    BY <2>1, <2>2
<1>2. RowsInv
  BY <1>1 DEF Init, RowsInv
<1>3. Idle
  BY <1>1 DEF Init, Idle
<1> QED
  BY <1>1, <1>2, <1>3 DEF Init, IInv

\* A row judged without being sent.
LEMMA UnsentKeeps ==
    ASSUME IInv, NEW r \in todo, NEW result \in Results, JudgedUnsent(r, result),
           Blind(facts) => result = "unknown",
           ~Blind(facts) => Covered(r) = <<>>
    PROVE  IInv'
<1> DEFINE new == [ep |-> r[1], family |-> r[2], result |-> result]
<1>1. /\ facts' = facts /\ pc = "row" /\ pc' = "row" /\ row' = row /\ left' = left
      /\ hook' = hook /\ results' = results
      /\ verdicts' = verdicts \union {new} /\ todo' = todo \ {r}
  BY DEF JudgedUnsent, Judge
<1>2. /\ new.ep = r[1] /\ new.family = r[2] /\ new.result = result
      /\ r \in Rows(facts) /\ r = <<new.ep, new.family>>
  BY RowIsAPair DEF IInv, RowsInv
<1>3. Earned(new)
  <2>1. ~Blind(facts) => Range(Covered(r)) = {}
    BY DEF Range
  <2> HIDE DEF new
  <2>2. "unknown" # "filtered"
    OBVIOUS
  <2>3. \A c \in Range(Covered(r)) :
            /\ new.result = "filtered" => Judged(r, c) = "filtered"
            /\ ~Blind(facts) /\ Judged(r, c) = "reachable" => new.result = "reachable"
    BY <1>2, <2>1
  <2> QED
    BY <1>2, <2>3 DEF Earned
<1> HIDE DEF new
<1>4. \A v \in verdicts' : Earned(v)
  BY <1>1, <1>3 DEF IInv
<1>5. \A v \in verdicts' : Earned(v)'
  BY <1>1, <1>4, EarnedStays
<1>6. RowsInv'
  BY <1>1, <1>2 DEF IInv, RowsInv
<1> QED
  BY <1>1, <1>5, <1>6 DEF IInv, Idle

LEMMA ListRowsKeeps == IInv /\ ListRows => IInv'
<1> SUFFICES ASSUME IInv, ListRows
             PROVE  IInv'
  OBVIOUS
<1>1. /\ facts' = facts /\ verdicts' = verdicts /\ pc = "rows" /\ pc' = "row"
      /\ todo' = Rows(facts) /\ row' = row /\ left' = left /\ hook' = hook /\ results' = results
  BY DEF ListRows
<1>2. \A v \in verdicts' : Earned(v)'
  BY <1>1, EarnedStays DEF IInv
<1>3. RowsInv'
  BY <1>1 DEF IInv, RowsInv
<1> QED
  BY <1>1, <1>2, <1>3 DEF IInv, Idle

LEMMA BeginKeeps == ASSUME IInv, NEW r \in todo, Begin(r) PROVE IInv'
<1>1. /\ facts' = facts /\ verdicts' = verdicts /\ pc = "row" /\ pc' = "prerouting"
      /\ todo' = todo /\ row' = r /\ left' = Covered(r) /\ hook' = hook /\ results' = <<>>
      /\ pkt' = SentFor(facts, r, Covered(r)) /\ ~Blind(facts) /\ Covered(r) # <<>>
  BY DEF Begin
<1>2. \A v \in verdicts' : Earned(v)'
  BY <1>1, EarnedStays DEF IInv
<1>3. RowsInv'
  BY <1>1 DEF IInv, RowsInv
<1>4. Covered(r)' = Covered(r)
  BY <1>1, CoveredStays
<1>5. Covered(r) \in Seq(Range(Covered(r)))
  BY CoveredIs DEF IInv, RowsInv
<1>6. OnRow'
  <2>1. /\ row' \in todo' /\ ~Blind(facts') /\ Covered(r)' # <<>>
        /\ left' \in Seq(Range(Covered(r)')) /\ results' \in Seq(Results)
        /\ \A c \in Range(Covered(r)') : c \in Range(left')
    BY <1>1, <1>4, <1>5
  <2>2. Covered(row)' = Covered(r)'
    BY <1>1 DEF Covered
  <2> QED
    BY <2>1, <2>2 DEF OnRow
<1>7. Sending'
  BY <1>1 DEF Sending
<1> QED
  BY <1>1, <1>2, <1>3, <1>6, <1>7 DEF IInv

LEMMA TailIs ==
    ASSUME NEW S, NEW s \in Seq(S), s # <<>>
    PROVE  /\ Tail(s) \in Seq(S) /\ s[1] \in S /\ s[1] \in Range(s)
           /\ Range(s) \subseteq {s[1]} \union Range(Tail(s))
<1>1. DOMAIN s = 1 .. Len(s) /\ Len(s) \in Nat /\ Len(s) # 0 /\ 1 \in 1 .. Len(s)
  OBVIOUS
<1>2. DOMAIN Tail(s) = 1 .. Len(s) - 1 /\ Tail(s) \in Seq(S)
  BY <1>1
<1>3. \A i \in 1 .. Len(s) - 1 : Tail(s)[i] = s[i + 1]
  BY <1>1
<1>4. ASSUME NEW i \in 1 .. Len(s), i # 1
      PROVE  s[i] \in Range(Tail(s))
  <2>1. i - 1 \in 1 .. Len(s) - 1 /\ (i - 1) + 1 = i
    BY <1>1, <1>4
  <2>2. Tail(s)[i - 1] = s[i]
    BY <1>3, <2>1
  <2> QED
    BY <1>2, <2>1, <2>2 DEF Range
<1> QED
  BY <1>1, <1>2, <1>4 DEF Range

LEMMA AppendIs ==
    ASSUME NEW S, NEW s \in Seq(S), NEW x \in S
    PROVE  /\ Append(s, x) \in Seq(S)
           /\ Range(Append(s, x)) = Range(s) \union {x}
<1>1. Append(s, x) \in Seq(S) /\ DOMAIN Append(s, x) = (1 .. Len(s)) \union {Len(s) + 1}
  OBVIOUS
<1>2. \A i \in 1 .. Len(s) : Append(s, x)[i] = s[i]
  OBVIOUS
<1>3. Append(s, x)[Len(s) + 1] = x /\ DOMAIN s = 1 .. Len(s)
  OBVIOUS
<1> QED
  BY <1>1, <1>2, <1>3 DEF Range

\* A destination concluded with what the kernel does with its packet.
LEMMA ConcludeKeeps ==
    ASSUME IInv, pc \in {"prerouting", "second"}, left # <<>>, Conclude(Judged(row, left[1]))
    PROVE  IInv'
<1> DEFINE c1 == left[1]
           result == Judged(row, c1)
           C == Covered(row)
<1>1. /\ facts' = facts /\ verdicts' = verdicts /\ todo' = todo /\ row' = row /\ hook' = ""
      /\ results' = Append(results, result) /\ left' = Tail(left)
      /\ pkt' = SentFor(facts, row, Tail(left))
      /\ pc' = IF Tail(left) = <<>> THEN "pick" ELSE "prerouting"
  BY DEF Conclude
<1>2. OnRow
  BY DEF IInv
<1>3. result \in Results
  BY DEF Judged, Outcome, Results
<1>4. \A v \in verdicts' : Earned(v)'
  BY <1>1, EarnedStays DEF IInv
<1>5. RowsInv'
  <2>1. pc # "rows" /\ pc' # "rows"
    BY <1>1
  <2> QED
    BY <1>1, <2>1 DEF IInv, RowsInv
<1>6. Covered(row)' = C
  BY <1>1 DEF Covered
<1>7. left \in Seq(Range(C)) /\ results \in Seq(Results)
  BY <1>2 DEF OnRow
<1>8. \A c \in Range(C) : c \in Range(left) \/ Judged(row, c) \in Range(results)
  BY <1>2 DEF OnRow
<1>9. \A c \in Range(C) : Judged(row, c)' = Judged(row, c)
  <2>1. \A r, c : Judged(r, c)' = Judged(r, c)
    BY <1>1, JudgedStays
  <2> QED
    BY <1>1, <2>1
<1> HIDE DEF C, result, c1
<1>10. Tail(left) \in Seq(Range(C)) /\ Range(left) \subseteq {c1} \union Range(Tail(left))
  BY <1>7, TailIs DEF c1
<1>11. Append(results, result) \in Seq(Results) /\ Range(Append(results, result)) = Range(results) \union {result}
  BY <1>3, <1>7, AppendIs
<1>12. \A c \in Range(C) :
           c \in Range(Tail(left)) \/ Judged(row, c) \in Range(Append(results, result))
  <2> SUFFICES ASSUME NEW c \in Range(C), c \notin Range(Tail(left))
               PROVE  Judged(row, c) \in Range(Append(results, result))
    OBVIOUS
  <2>1. CASE c = c1
    BY <1>11, <2>1 DEF result
  <2>2. CASE c # c1
    BY <1>8, <1>10, <1>11, <2>2
  <2> QED
    BY <2>1, <2>2
<1>13. OnRow'
  <2>1. \A c \in Range(C) : c \in Range(left') \/ Judged(row, c)' \in Range(results')
    BY <1>1, <1>9, <1>12
  <2>2. /\ row' \in todo' /\ ~Blind(facts') /\ C # <<>>
        /\ left' \in Seq(Range(C)) /\ results' \in Seq(Results)
    BY <1>1, <1>2, <1>10, <1>11 DEF OnRow, C
  <2> QED
    BY <1>6, <2>1, <2>2 DEF OnRow
<1>14. left' # <<>> => Sending'
  BY <1>1 DEF Sending
<1> QED
  BY <1>1, <1>4, <1>5, <1>13, <1>14 DEF IInv

\* What the packet to the first destination meets, one step of it at a time.
LEMMA SendingIs ==
    ASSUME Sending
    PROVE  /\ pkt = Sent(facts, row[2], row[1].proto, row[1].port, left[1])
           /\ pkt.iif = left[1].iface
<1>1. pkt = Sent(facts, row[2], row[1].proto, row[1].port, left[1])
  BY DEF Sending, SentFor
<1> QED
  BY <1>1 DEF Sent

LEMMA ForwardingIs ==
    ASSUME NEW iface, NEW fam
    PROVE  Forwarding(facts, iface, fam) <=> MayForward(fam, iface)
BY DEF Forwarding, GlobalForwarding, MayForward, Range

LEMMA InterfacesAreNamed ==
    ASSUME NEW f, NEW ip, IfaceFor(f, ip) # {}
    PROVE  (CHOOSE i \in IfaceFor(f, ip) : TRUE) \in Names(f)
<1>1. IfaceFor(f, ip) \subseteq Names(f)
  BY DEF IfaceFor, Names, Up, Range
<1> QED
  BY <1>1

\* Fate in the terms of the packet under way.
LEMMA FateIs ==
    ASSUME Sending
    PROVE  Fate(row[2], row[1].proto, row[1].port, left[1]) =
             IF Pre.kind # "accept" THEN [to |-> "nowhere", kind |-> Pre.kind]
             ELSE IF Pre.dnat = NoDNAT
             THEN [to |-> "here", kind |-> HookResult(facts.ruleset, "input", pkt).kind]
             ELSE IF Rewritten(facts, pkt, Pre.dnat).dstIsLocal
             THEN [to |-> "rewritten",
                   kind |-> HookResult(facts.ruleset, "input", Rewritten(facts, pkt, Pre.dnat)).kind]
             ELSE IF ~MayForward(row[2], left[1].iface) THEN [to |-> "away", kind |-> "drop"]
             ELSE IF IfaceFor(facts, Pre.dnat.ip) = {} THEN [to |-> "away", kind |-> "unknown"]
             ELSE [to |-> "away",
                   kind |-> HookResult(facts.ruleset, "forward",
                                Routed(facts, Rewritten(facts, pkt, Pre.dnat))).kind]
<1>1. pkt = Sent(facts, row[2], row[1].proto, row[1].port, left[1])
  BY SendingIs
<1> QED
  BY <1>1 DEF Fate, Pre, Routed, Rewritten

\* A packet rewritten keeps the interface it came in by.
LEMMA FieldsRewritten ==
    ASSUME NEW family, NEW proto, NEW src, NEW dst, NEW dport, NEW iif, NEW dev, NEW ip, NEW port,
           NEW here, NEW out, NEW p,
           p = [family |-> family, proto |-> proto, src |-> src, dst |-> dst, dport |-> dport,
                iif |-> iif, oif |-> "", dstIsLocal |-> TRUE, dnatApplied |-> FALSE,
                srcRouteDev |-> dev],
           NEW q, q = [p EXCEPT !.dst = ip, !.dport = port, !.dstIsLocal = here, !.dnatApplied = TRUE]
    PROVE  /\ q.dst = ip /\ q.dstIsLocal = here /\ q.iif = iif
           /\ [q EXCEPT !.oif = out].iif = iif /\ [q EXCEPT !.oif = out].oif = out
<1>1. DOMAIN p = {"family", "proto", "src", "dst", "dport", "iif", "oif", "dstIsLocal",
                  "dnatApplied", "srcRouteDev"}
  OBVIOUS
<1>2. DOMAIN q = DOMAIN p
  OBVIOUS
<1>3. q.iif = p.iif /\ p.iif = iif /\ q.dst = ip /\ q.dstIsLocal = here
  BY <1>1
<1>4. [q EXCEPT !.oif = out].iif = q.iif /\ [q EXCEPT !.oif = out].oif = out
  BY <1>1, <1>2
<1> QED
  BY <1>3, <1>4

LEMMA RewrittenIs ==
    ASSUME Sending, NEW dnat
    PROVE  LET q == Rewritten(facts, pkt, dnat)
           IN  /\ q.dst = dnat.ip
               /\ q.dstIsLocal = IsLocal(facts, dnat.ip)
               /\ q.iif = left[1].iface
               /\ Routed(facts, q).iif = left[1].iface
               /\ Routed(facts, q).oif = CHOOSE i \in IfaceFor(facts, dnat.ip) : TRUE
<1> DEFINE q == Rewritten(facts, pkt, dnat)
           here == IsLocal(facts, dnat.ip)
           out == CHOOSE i \in IfaceFor(facts, q.dst) : TRUE
<1>1. pkt = Sent(facts, row[2], row[1].proto, row[1].port, left[1])
  BY SendingIs
<1>2. pkt = [family |-> row[2], proto |-> row[1].proto, src |-> SrcOf(row[2]), dst |-> left[1].ip,
             dport |-> row[1].port, iif |-> left[1].iface, oif |-> "", dstIsLocal |-> TRUE,
             dnatApplied |-> FALSE, srcRouteDev |-> RouteDevFor(facts, row[2], SrcOf(row[2]))]
  BY <1>1 DEF Sent
<1>3. q = [pkt EXCEPT !.dst = dnat.ip, !.dport = dnat.port, !.dstIsLocal = here, !.dnatApplied = TRUE]
  BY DEF Rewritten
<1>4. Routed(facts, q) = [q EXCEPT !.oif = out]
  BY DEF Routed
<1> HIDE DEF q, here, out
<1>5. /\ q.dst = dnat.ip /\ q.dstIsLocal = here /\ q.iif = left[1].iface
      /\ [q EXCEPT !.oif = out].iif = left[1].iface /\ [q EXCEPT !.oif = out].oif = out
  BY <1>2, <1>3, FieldsRewritten
<1>6. out = CHOOSE i \in IfaceFor(facts, dnat.ip) : TRUE
  BY <1>5 DEF out
<1> QED
  BY <1>4, <1>5, <1>6 DEF q, here

LEMMA PreroutingConcludes ==
    ASSUME IInv, \/ PreroutingUnknown \/ PreroutingDrops \/ NothingRewrites
                 \/ NotForwarding \/ NoInterface
    PROVE  IInv'
<1> DEFINE fate == Fate(row[2], row[1].proto, row[1].port, left[1])
<1>1. pc = "prerouting"
  BY DEF PreroutingUnknown, PreroutingDrops, NothingRewrites, NotForwarding, NoInterface,
         RewritesAway, Accepted
<1>2. Sending /\ left # <<>>
  BY <1>1 DEF IInv, Sending
<1>3. Judged(row, left[1]) =
          IF fate.to = "here" /\ row[1].kind = "forward" THEN "filtered" ELSE Outcome(fate.kind)
  BY DEF Judged
<1> HIDE DEF fate
<1>4. CASE PreroutingUnknown \/ PreroutingDrops
  <2>1. fate = [to |-> "nowhere", kind |-> Pre.kind]
    BY <1>2, <1>4, FateIs DEF fate, PreroutingUnknown, PreroutingDrops
  <2>2. fate.to = "nowhere" /\ fate.kind = Pre.kind
    BY <2>1
  <2>3. Conclude(Judged(row, left[1]))
    BY <1>3, <1>4, <2>2 DEF PreroutingUnknown, PreroutingDrops, Outcome
  <2> QED
    BY <1>1, <1>2, <2>3, ConcludeKeeps
<1>5. CASE NothingRewrites
  <2>1. fate = [to |-> "here", kind |-> HookResult(facts.ruleset, "input", pkt).kind]
    BY <1>2, <1>5, FateIs DEF fate, NothingRewrites, Accepted
  <2>2. fate.to = "here"
    BY <2>1
  <2>3. Conclude(Judged(row, left[1]))
    BY <1>3, <1>5, <2>2 DEF NothingRewrites
  <2> QED
    BY <1>1, <1>2, <2>3, ConcludeKeeps
<1>6. CASE NotForwarding \/ NoInterface
  <2>1. RewritesAway /\ ~Rewritten(facts, pkt, Pre.dnat).dstIsLocal
    BY <1>2, <1>6, RewrittenIs DEF NotForwarding, NoInterface, RewritesAway
  <2>2. Forwarding(facts, pkt.iif, row[2]) <=> MayForward(row[2], left[1].iface)
    BY <1>2, SendingIs, ForwardingIs
  <2>3. CASE NotForwarding
    <3>1. fate = [to |-> "away", kind |-> "drop"]
      BY <1>2, <2>1, <2>2, <2>3, FateIs DEF fate, NotForwarding, RewritesAway, Accepted
    <3>2. fate.to = "away" /\ fate.kind = "drop"
      BY <3>1
    <3>3. Conclude(Judged(row, left[1]))
      BY <1>3, <2>3, <3>2 DEF NotForwarding, Outcome
    <3> QED
      BY <1>1, <1>2, <3>3, ConcludeKeeps
  <2>4. CASE NoInterface
    <3>1. fate = [to |-> "away", kind |-> "unknown"]
      BY <1>2, <2>1, <2>2, <2>4, FateIs DEF fate, NoInterface, RewritesAway, Accepted
    <3>2. fate.to = "away" /\ fate.kind = "unknown"
      BY <3>1
    <3>3. Conclude(Judged(row, left[1]))
      BY <1>3, <2>4, <3>2 DEF NoInterface, Outcome
    <3> QED
      BY <1>1, <1>2, <3>3, ConcludeKeeps
  <2> QED
    BY <1>6, <2>3, <2>4
<1> QED
  BY <1>4, <1>5, <1>6

\* The second hook's result is then the destination's.
LEMMA WalkKeeps ==
    ASSUME IInv, pc = "prerouting", NEW h \in {"input", "forward"}, NEW p, WalkSecond(h, p),
           Judged(row, left[1]) = Outcome(HookResult(facts.ruleset, h, p).kind),
           p.iif = left[1].iface,
           h = "forward" => p.oif \in Names(facts)
    PROVE  IInv'
<1>1. /\ facts' = facts /\ verdicts' = verdicts /\ todo' = todo /\ row' = row /\ hook' = h
      /\ results' = results /\ left' = left /\ pkt' = p /\ pc' = "second"
  BY DEF WalkSecond
<1>2. OnRow /\ left # <<>>
  BY DEF IInv, Sending
<1>3. \A v \in verdicts' : Earned(v)'
  BY <1>1, EarnedStays DEF IInv
<1>4. RowsInv'
  BY <1>1 DEF IInv, RowsInv
<1>5. \A r, c : Judged(r, c)' = Judged(r, c)
  BY <1>1, JudgedStays
<1>6. \A r : Covered(r)' = Covered(r)
  BY <1>1, CoveredStays
<1>7. OnRow'
  BY <1>1, <1>2, <1>5, <1>6 DEF OnRow
<1>8. Walking'
  <2>1. Judged(row, left[1])' = Judged(row, left[1])
    BY <1>1, <1>5
  <2>2. Judged(row, left[1])' = Outcome(HookResult(facts'.ruleset, hook', pkt').kind)
    BY <1>1, <2>1
  <2>3. left' # <<>> /\ hook' \in {"input", "forward"} /\ pkt'.iif = left'[1].iface
    BY <1>1, <1>2
  <2>4. hook' = "forward" => pkt'.oif \in Names(facts')
    BY <1>1
  <2> QED
    BY <2>2, <2>3, <2>4 DEF Walking
<1> QED
  BY <1>1, <1>3, <1>4, <1>7, <1>8 DEF IInv

LEMMA PreroutingGoesOn ==
    ASSUME IInv, DeliverHere \/ RewriteHere \/ RewriteAway
    PROVE  IInv'
<1> DEFINE fate == Fate(row[2], row[1].proto, row[1].port, left[1])
           q == Rewritten(facts, pkt, Pre.dnat)
<1>1. pc = "prerouting" /\ Pre.kind = "accept"
  BY DEF DeliverHere, RewriteHere, RewriteAway, RewritesAway, Accepted
<1>2. Sending /\ left # <<>> /\ pkt.iif = left[1].iface
  BY <1>1, SendingIs DEF IInv, Sending
<1>3. Judged(row, left[1]) =
          IF fate.to = "here" /\ row[1].kind = "forward" THEN "filtered" ELSE Outcome(fate.kind)
  BY DEF Judged
<1>4. /\ q.dstIsLocal = IsLocal(facts, Pre.dnat.ip) /\ q.iif = left[1].iface
      /\ Routed(facts, q).iif = left[1].iface
      /\ Routed(facts, q).oif = CHOOSE i \in IfaceFor(facts, Pre.dnat.ip) : TRUE
  BY <1>2, RewrittenIs
<1>5. CASE DeliverHere
  <2> DEFINE k == HookResult(facts.ruleset, "input", pkt).kind
  <2>1. fate = [to |-> "here", kind |-> k]
    BY <1>2, <1>5, FateIs DEF DeliverHere, Accepted
  <2> HIDE DEF fate, k
  <2>2. fate.to = "here" /\ fate.kind = k
    BY <2>1
  <2>3. Judged(row, left[1]) = Outcome(k) /\ WalkSecond("input", pkt)
    BY <1>3, <1>5, <2>2 DEF DeliverHere
  <2> QED
    BY <1>1, <1>2, <2>3, WalkKeeps DEF k
<1>6. CASE RewriteHere
  <2> DEFINE k == HookResult(facts.ruleset, "input", q).kind
  <2>1. fate = [to |-> "rewritten", kind |-> k]
    BY <1>2, <1>4, <1>6, FateIs DEF RewriteHere, Accepted
  <2> HIDE DEF fate, k
  <2>2. fate.to = "rewritten" /\ fate.kind = k
    BY <2>1
  <2>3. Judged(row, left[1]) = Outcome(k) /\ WalkSecond("input", q)
    BY <1>3, <1>6, <2>2 DEF RewriteHere
  <2> HIDE DEF q
  <2> QED
    BY <1>1, <1>4, <2>3, WalkKeeps DEF k
<1>7. CASE RewriteAway
  <2> DEFINE k == HookResult(facts.ruleset, "forward", Routed(facts, q)).kind
  <2>1. MayForward(row[2], left[1].iface) /\ IfaceFor(facts, Pre.dnat.ip) # {}
    BY <1>2, <1>7, ForwardingIs DEF RewriteAway
  <2>2. fate = [to |-> "away", kind |-> k]
    BY <1>2, <1>4, <1>7, <2>1, FateIs DEF RewriteAway, RewritesAway, Accepted
  <2> HIDE DEF fate, k
  <2>3. fate.to = "away" /\ fate.kind = k
    BY <2>2
  <2>4. Judged(row, left[1]) = Outcome(k) /\ WalkSecond("forward", Routed(facts, q))
    BY <1>3, <1>7, <2>3 DEF RewriteAway
  <2>5. Routed(facts, q).oif \in Names(facts)
    BY <1>4, <2>1, InterfacesAreNamed
  <2> HIDE DEF q
  <2> QED
    BY <1>1, <1>4, <2>4, <2>5, WalkKeeps DEF k
<1> QED
  BY <1>5, <1>6, <1>7

LEMMA FinishKeeps == IInv /\ Finish => IInv'
<1> SUFFICES ASSUME IInv, Finish
             PROVE  IInv'
  OBVIOUS
<1> DEFINE k == HookResult(facts.ruleset, hook, pkt).kind
<1>1. pc = "second" /\ Walking
  BY DEF Finish, IInv
<1>2. left # <<>> /\ Judged(row, left[1]) = Outcome(k)
  BY <1>1 DEF Walking
<1>3. Conclude(CASE k = "accept" -> "reachable" [] k = "drop" -> "filtered" [] OTHER -> "unknown")
  BY DEF Finish
<1> HIDE DEF k
<1>4. (CASE k = "accept" -> "reachable" [] k = "drop" -> "filtered" [] OTHER -> "unknown") = Outcome(k)
  BY DEF Outcome
<1>5. Conclude(Judged(row, left[1]))
  BY <1>2, <1>3, <1>4
<1> QED
  BY <1>1, <1>2, <1>5, ConcludeKeeps

LEMMA PickKeeps == IInv /\ Pick => IInv'
<1> SUFFICES ASSUME IInv, Pick
             PROVE  IInv'
  OBVIOUS
<1> DEFINE result == Best(results)
           new == [ep |-> row[1], family |-> row[2], result |-> result]
<1>1. /\ facts' = facts /\ pc = "pick" /\ pc' = "row" /\ row' = NoRow /\ left' = left
      /\ hook' = hook /\ results' = results
      /\ verdicts' = verdicts \union {new} /\ todo' = todo \ {row}
  BY DEF Pick, Judge
<1>2. OnRow /\ left = <<>>
  BY <1>1 DEF IInv
<1>3. row \in todo /\ row \in Rows(facts) /\ row = <<row[1], row[2]>>
  BY <1>2, RowIsAPair DEF IInv, RowsInv, OnRow
<1>4. Range(left) = {}
  <2>1. Range(<<>>) = {}
    BY DEF Range
  <2> QED
    BY <1>2, <2>1
<1>5. \A c \in Range(Covered(row)) : Judged(row, c) \in Range(results)
  BY <1>2, <1>4 DEF OnRow
<1>6. results \in Seq(Results) /\ ~Blind(facts) /\ Covered(row) # <<>>
  BY <1>2 DEF OnRow
<1>7. results # <<>>
  <2>1. Covered(row) \in Seq(Range(Covered(row)))
    BY CoveredIs DEF IInv, RowsInv
  <2>2. Covered(row)[1] \in Range(Covered(row))
    <3> DEFINE C == Covered(row)
    <3> HIDE DEF C
    <3>1. C \in Seq(Range(C)) /\ C # <<>>
      BY <1>6, <2>1 DEF C
    <3>2. C[1] \in Range(C)
      BY <3>1, TailIs
    <3> QED
      BY <3>2 DEF C
  <2>3. Range(results) # {}
    BY <1>5, <2>2
  <2>4. Range(<<>>) = {}
    BY DEF Range
  <2> QED
    BY <2>3, <2>4
<1>8. /\ result \in Results
      /\ "reachable" \in Range(results) => result = "reachable"
      /\ result = "filtered" => Range(results) = {"filtered"}
  BY <1>6, <1>7, BestIs
<1>9. new.ep = row[1] /\ new.family = row[2] /\ new.result = result
  OBVIOUS
<1> HIDE DEF result, new
<1>10. Earned(new)
  <2>1. <<new.ep, new.family>> = row
    BY <1>3, <1>9
  <2>2. \A c \in Range(Covered(row)) :
            /\ new.result = "filtered" => Judged(row, c) = "filtered"
            /\ ~Blind(facts) /\ Judged(row, c) = "reachable" => new.result = "reachable"
    BY <1>5, <1>8, <1>9
  <2> QED
    BY <1>3, <1>6, <1>8, <1>9, <2>1, <2>2 DEF Earned
<1>11. \A v \in verdicts' : Earned(v)'
  BY <1>1, <1>10, EarnedStays DEF IInv
<1>12. RowsInv'
  <2>1. \A r \in Rows(facts) : r \in todo' \/ \E v \in verdicts' : v.ep = r[1] /\ v.family = r[2]
    <3> SUFFICES ASSUME NEW r \in Rows(facts), r \notin todo'
                 PROVE  \E v \in verdicts' : v.ep = r[1] /\ v.family = r[2]
      OBVIOUS
    <3>1. CASE r = row
      BY <1>1, <1>9, <3>1
    <3>2. CASE r # row
      <4>1. r \notin todo /\ pc # "rows"
        BY <1>1, <3>2
      <4>2. PICK v \in verdicts : v.ep = r[1] /\ v.family = r[2]
        BY <4>1 DEF IInv, RowsInv
      <4> QED
        BY <1>1, <4>2
    <3> QED
      BY <3>1, <3>2
  <2> QED
    BY <1>1, <2>1 DEF IInv, RowsInv
<1>13. Idle'
  <2>1. \A i \in DOMAIN results : results[i] \in Results
    BY <1>6
  <2> QED
    BY <1>1, <1>2, <2>1 DEF Idle, Range
<1> QED
  BY <1>1, <1>11, <1>12, <1>13 DEF IInv

LEMMA ReturnKeeps == IInv /\ (Return \/ UNCHANGED vars) => IInv'
<1> SUFFICES ASSUME IInv, Return \/ UNCHANGED vars
             PROVE  IInv'
  OBVIOUS
<1>1. /\ facts' = facts /\ verdicts' = verdicts /\ todo' = todo /\ row' = row /\ left' = left
      /\ pkt' = pkt /\ hook' = hook /\ results' = results
  BY DEF Return, vars
<1>2. pc' = pc \/ (pc = "row" /\ pc' = "done" /\ todo = {})
  BY DEF Return, vars
<1>3. \A v \in verdicts' : Earned(v)'
  BY <1>1, EarnedStays DEF IInv
<1>4. RowsInv'
  BY <1>1, <1>2 DEF IInv, RowsInv
<1>5. \A r, c : Judged(r, c)' = Judged(r, c)
  BY <1>1, JudgedStays
<1>6. \A r : Covered(r)' = Covered(r)
  BY <1>1, CoveredStays
<1>7. OnRow => OnRow'
  BY <1>1, <1>5, <1>6 DEF OnRow
<1>8. Walking => Walking'
  <2>1. Judged(row, left[1])' = Judged(row, left[1])
    BY <1>1, <1>5
  <2> QED
    BY <1>1, <2>1 DEF Walking
<1>9. (Idle => Idle') /\ (Sending => Sending')
  BY <1>1 DEF Idle, Sending
<1> QED
  BY <1>1, <1>2, <1>3, <1>4, <1>7, <1>8, <1>9 DEF IInv

\* The inductive invariant of the evaluation.
THEOREM Invariance == Spec => []IInv
<1>1. IInv /\ [Next]_vars => IInv'
  <2> SUFFICES ASSUME IInv, [Next]_vars
               PROVE  IInv'
    OBVIOUS
  <2>1. CASE ListRows
    BY <2>1, ListRowsKeeps
  <2>2. ASSUME NEW r \in todo, RulesetUnread(r) \/ NoPublicAddress(r) \/ BoundElsewhere(r)
        PROVE  IInv'
    <3>1. CASE RulesetUnread(r)
      BY <3>1, UnsentKeeps DEF RulesetUnread, Results
    <3>2. CASE NoPublicAddress(r)
      <4>1. Covered(r) = <<>>
        <5>1. Range(PublicAddrs(facts, r[2])) = {}
          <6>1. Range(<<>>) = {}
            BY DEF Range
          <6> QED
            BY <3>2, <6>1 DEF NoPublicAddress
        <5>2. Covered(r) \in Seq(Range(Covered(r))) /\ Range(Covered(r)) = {}
          BY <5>1, CoveredIs DEF IInv, RowsInv
        <5>3. \A s \in Seq({}) : s = <<>>
          OBVIOUS
        <5> QED
          BY <5>2, <5>3
      <4> QED
        BY <3>2, <4>1, UnsentKeeps DEF NoPublicAddress, Results
    <3>3. CASE BoundElsewhere(r)
      BY <3>3, UnsentKeeps DEF BoundElsewhere, Results
    <3> QED
      BY <2>2, <3>1, <3>2, <3>3
  <2>3. ASSUME NEW r \in todo, Begin(r)
        PROVE  IInv'
    BY <2>3, BeginKeeps
  <2>4. CASE PreroutingUnknown \/ PreroutingDrops \/ NothingRewrites \/ NotForwarding \/ NoInterface
    BY <2>4, PreroutingConcludes
  <2>5. CASE DeliverHere \/ RewriteHere \/ RewriteAway
    BY <2>5, PreroutingGoesOn
  <2>6. CASE Finish
    BY <2>6, FinishKeeps
  <2>7. CASE Pick
    BY <2>7, PickKeeps
  <2>8. CASE Return \/ UNCHANGED vars
    BY <2>8, ReturnKeeps
  <2> QED
    BY <2>1, <2>2, <2>3, <2>4, <2>5, <2>6, <2>7, <2>8 DEF Next, Work, Returned
<1> QED
  BY InitIsIInv, <1>1, PTL DEF Spec

(***************************************************************************)
(* The properties                                                          *)
(***************************************************************************)
\* The evaluation's own state; a packet walks the forward hook only with the
\* interface it leaves by (evaluate.go:323-330).
THEOREM Types == Spec => []TypeOK
<1>1. IInv => TypeOK
  <2> SUFFICES ASSUME IInv
               PROVE  TypeOK
    OBVIOUS
  <2>1. facts \in Inputs /\ todo \subseteq Rows(facts) /\ hook \in {"", "input", "forward"}
    BY DEF IInv, RowsInv
  <2>2. \A v \in verdicts : /\ <<v.ep, v.family>> \in Rows(facts)
                            /\ v.result \in {"reachable", "filtered", "unknown"}
    BY DEF IInv, Earned, Results
  <2>3. CASE pc \in {"rows", "row", "done"}
    <3>1. row = NoRow /\ left = <<>> /\ Range(results) \subseteq Results
      BY <2>3 DEF IInv, Idle
    <3>2. \A i \in DOMAIN left : left[i] \in Range(PublicAddrs(facts, row[2]))
      BY <3>1
    <3> QED
      BY <2>1, <2>2, <2>3, <3>1, <3>2 DEF TypeOK, Results
  <2>4. CASE pc \in {"prerouting", "second", "pick"}
    <3>1. OnRow
      BY <2>4 DEF IInv
    <3>2. row \in Rows(facts)
      BY <2>1, <3>1 DEF OnRow
    <3>3. \A i \in DOMAIN left : left[i] \in Range(PublicAddrs(facts, row[2]))
      <4>1. Range(Covered(row)) \subseteq Range(PublicAddrs(facts, row[2]))
        BY <2>1, CoveredIs
      <4>2. \A i \in DOMAIN left : left[i] \in Range(Covered(row))
        BY <3>1 DEF OnRow
      <4> QED
        BY <4>1, <4>2
    <3>4. Range(results) \subseteq Results
      <4>1. \A i \in DOMAIN results : results[i] \in Results
        BY <3>1 DEF OnRow
      <4> QED
        BY <4>1 DEF Range
    <3>5. pc = "second" => /\ left # <<>> /\ pkt.iif = left[1].iface
                           /\ hook = "forward" => pkt.oif \in {i.name : i \in Range(facts.ifaces)}
      BY DEF IInv, Walking, Names
    <3> QED
      BY <2>1, <2>2, <2>4, <3>2, <3>3, <3>4, <3>5 DEF TypeOK, Results
  <2> QED
    BY <2>3, <2>4 DEF IInv
<1> QED
  BY Invariance, <1>1, PTL

\* A row of the socket's port and family, of no forward, that covers an
\* address the socket covers.
LEMMA VerdictOfSocket ==
    ASSUME IInv, pc = "done", NEW s \in facts.sockets, NEW fam \in Serves(s), NEW ip,
           BindCovers(s.bind, ip)
    PROVE  \E v \in verdicts : /\ v.family = fam /\ v.ep.kind # "forward"
                               /\ v.ep.proto = s.proto /\ v.ep.port = s.port
                               /\ BindCovers(v.ep.bind, ip)
<1>1. facts \in Inputs
  BY DEF IInv, RowsInv
<1>2. fam \in IF s.bind = "::" /\ ~facts.v6only /\ s \notin facts.publishes
              THEN {"ip", "ip6"} ELSE {s.family}
  BY DEF Serves
<1>3. PICK e : /\ <<e, fam>> \in Rows(facts)
               /\ e.kind # "forward"
               /\ e.proto = s.proto /\ e.port = s.port
               /\ BindCovers(e.bind, ip)
  BY <1>1, <1>2, RowOfSocket
<1>4. todo = {} /\ pc # "rows"
  BY DEF IInv
<1>5. PICK v \in verdicts : v.ep = <<e, fam>>[1] /\ v.family = <<e, fam>>[2]
  BY <1>3, <1>4 DEF IInv, RowsInv
<1>6. v.ep = e /\ v.family = fam
  BY <1>5
<1> QED
  BY <1>3, <1>6

\* A ruleset that could not be read says nothing about any port: no row is
\* reachable or filtered, and the rows are still all there
\* (evaluate.go:59-72).
THEOREM UnreadSaysNothing == Spec => []BlindIsUnknown
<1>1. IInv => BlindIsUnknown
  <2> SUFFICES ASSUME IInv, pc = "done", facts.readFailed
               PROVE  /\ \A v \in verdicts : v.result = "unknown"
                      /\ \A s \in facts.sockets : Reported(s.family, s.proto, s.port, "unknown")
    BY DEF BlindIsUnknown
  <2>1. \A v \in verdicts : v.result = "unknown"
    BY DEF IInv, Earned, Blind
  <2>2. ASSUME NEW s \in facts.sockets
        PROVE  Reported(s.family, s.proto, s.port, "unknown")
    <3>1. s.family \in Serves(s)
      BY SnapshotsAssumption DEF Serves, IInv, RowsInv
    <3>2. BindCovers(s.bind, s.bind)
      BY DEF BindCovers
    <3> QED
      BY <2>1, <3>1, <3>2, VerdictOfSocket DEF Reported
  <2> QED
    BY <2>1, <2>2
<1> QED
  BY Invariance, <1>1, PTL

\* A listening socket that a packet from the internet can reach as it was
\* sent has a reachable row of its port and family, whichever row stands for
\* it (evaluate.go:95-186), an IPv6 socket bound to an IPv4 address excepted.
THEOREM ExposureIsNotLost == Spec => []SocketExposureIsReported
<1>1. IInv => SocketExposureIsReported
  <2> SUFFICES ASSUME IInv, pc = "done", ~facts.readFailed,
                      NEW s \in {x \in facts.sockets : ~Mapped(x)}, NEW fam \in Serves(s),
                      NEW c \in Range(PublicAddrs(facts, fam)), BindCovers(s.bind, c.ip),
                      Fate(fam, s.proto, s.port, c) = [to |-> "here", kind |-> "accept"]
               PROVE  Reported(fam, s.proto, s.port, "reachable")
    BY DEF SocketExposureIsReported
  <2>1. PICK v \in verdicts : /\ v.family = fam /\ v.ep.kind # "forward"
                              /\ v.ep.proto = s.proto /\ v.ep.port = s.port
                              /\ BindCovers(v.ep.bind, c.ip)
    BY VerdictOfSocket
  <2> DEFINE r == <<v.ep, v.family>>
  <2>2. r[1] = v.ep /\ r[2] = fam
    BY <2>1
  <2> HIDE DEF r
  <2>3. c \in Range(Covered(r))
    BY <2>1, <2>2, CoveredIs DEF IInv, RowsInv
  <2>4. Judged(r, c) = "reachable"
    <3> DEFINE fate == Fate(fam, s.proto, s.port, c)
    <3>1. Judged(r, c) =
              IF fate.to = "here" /\ v.ep.kind = "forward" THEN "filtered" ELSE Outcome(fate.kind)
      BY <2>1, <2>2 DEF Judged
    <3>2. fate = [to |-> "here", kind |-> "accept"]
      OBVIOUS
    <3> HIDE DEF fate
    <3>3. fate.kind = "accept"
      BY <3>2
    <3> QED
      BY <2>1, <3>1, <3>3 DEF Outcome
  <2>5. v.result = "reachable"
    BY <2>3, <2>4 DEF IInv, Earned, Blind, r
  <2> QED
    BY <2>1, <2>5 DEF Reported
<1> QED
  BY Invariance, <1>1, PTL

\* Filtered is said only on proof: of the row's family, every address the
\* endpoint is bound to drops the packet; or, for a forward, no rule rewrites
\* it there (evaluate.go:217-334).
THEOREM FilteredMeansFiltered == Spec => []FilteredIsProven
<1>1. IInv => FilteredIsProven
  <2> SUFFICES ASSUME IInv, NEW v \in verdicts, v.result = "filtered",
                      NEW c \in Range(PublicAddrs(facts, v.family)), BindCovers(v.ep.bind, c.ip)
               PROVE  LET fate == Fate(v.family, v.ep.proto, v.ep.port, c)
                      IN  fate.kind = "drop" \/ (v.ep.kind = "forward" /\ fate.to = "here")
    BY DEF FilteredIsProven
  <2> DEFINE r == <<v.ep, v.family>>
             fate == Fate(v.family, v.ep.proto, v.ep.port, c)
  <2>1. r[1] = v.ep /\ r[2] = v.family
    OBVIOUS
  <2> HIDE DEF r
  <2>2. c \in Range(Covered(r))
    BY <2>1, CoveredIs DEF IInv, RowsInv
  <2>3. Judged(r, c) = "filtered"
    BY <2>2 DEF IInv, Earned, r
  <2>4. Judged(r, c) =
            IF fate.to = "here" /\ v.ep.kind = "forward" THEN "filtered" ELSE Outcome(fate.kind)
    BY <2>1 DEF Judged
  <2> HIDE DEF fate
  <2> QED
    BY <2>3, <2>4 DEF Outcome, fate
<1> QED
  BY Invariance, <1>1, PTL

(***************************************************************************)
(* One verdict for each row: a row judged is off the list, so it is not    *)
(* judged again.                                                           *)
(***************************************************************************)
OneInv ==
    /\ pc = "rows" => verdicts = {}
    /\ \A v \in verdicts : <<v.ep, v.family>> \notin todo
    /\ \A v, w \in verdicts : v.ep = w.ep /\ v.family = w.family => v = w

LEMMA JudgeKeepsOne ==
    ASSUME IInv, OneInv, NEW r \in todo, NEW result, Judge(r, result), pc' # "rows"
    PROVE  OneInv'
<1> DEFINE new == [ep |-> r[1], family |-> r[2], result |-> result]
<1>1. verdicts' = verdicts \union {new} /\ todo' = todo \ {r}
  BY DEF Judge
<1>2. r = <<r[1], r[2]>>
  BY RowIsAPair DEF IInv, RowsInv
<1>3. new.ep = r[1] /\ new.family = r[2]
  OBVIOUS
<1> HIDE DEF new
<1>4. <<new.ep, new.family>> = r
  BY <1>2, <1>3
<1>5. \A v \in verdicts : ~(v.ep = new.ep /\ v.family = new.family)
  BY <1>4 DEF OneInv
<1>6. \A v, w \in verdicts' : v.ep = w.ep /\ v.family = w.family => v = w
  BY <1>1, <1>5 DEF OneInv
<1>7. \A v \in verdicts' : <<v.ep, v.family>> \notin todo'
  BY <1>1, <1>4 DEF OneInv
<1> QED
  BY <1>6, <1>7 DEF OneInv

\* When Evaluate returns, each row has one verdict: an endpoint of two
\* families is judged for both, and no row twice (evaluate.go:53-73).
THEOREM OneVerdictPerRow ==
    Spec => [](pc = "done" =>
                  \A r \in Rows(facts) :
                     \E v \in verdicts : /\ v.ep = r[1] /\ v.family = r[2]
                                         /\ \A w \in verdicts : w.ep = r[1] /\ w.family = r[2] => w = v)
<1>1. Init => OneInv
  BY DEF Init, OneInv
<1>2. IInv /\ OneInv /\ [Next]_vars => OneInv'
  <2> SUFFICES ASSUME IInv, OneInv, [Next]_vars
               PROVE  OneInv'
    OBVIOUS
  <2>1. CASE ListRows
    BY <2>1 DEF ListRows, OneInv
  <2>2. ASSUME NEW r \in todo, RulesetUnread(r) \/ NoPublicAddress(r) \/ BoundElsewhere(r)
        PROVE  OneInv'
    <3>1. PICK result : JudgedUnsent(r, result)
      BY <2>2 DEF RulesetUnread, NoPublicAddress, BoundElsewhere
    <3>2. Judge(r, result) /\ pc' # "rows"
      BY <3>1 DEF JudgedUnsent
    <3> QED
      BY <3>2, JudgeKeepsOne
  <2>3. CASE Pick
    <3>1. Judge(row, Best(results)) /\ pc' # "rows" /\ row \in todo
      BY <2>3 DEF Pick, IInv, OnRow
    <3> QED
      BY <3>1, JudgeKeepsOne
  <2>4. ASSUME UNCHANGED <<todo, verdicts>>, pc' # "rows" \/ pc' = pc
        PROVE  OneInv'
    BY <2>4 DEF OneInv
  <2>5. ASSUME NEW r \in todo, Begin(r)
        PROVE  OneInv'
    BY <2>4, <2>5 DEF Begin
  <2>6. CASE PreroutingUnknown \/ PreroutingDrops \/ NothingRewrites \/ NotForwarding
             \/ NoInterface \/ Finish
    <3>1. PICK result : Conclude(result)
      BY <2>6 DEF PreroutingUnknown, PreroutingDrops, NothingRewrites, NotForwarding, NoInterface,
                  Finish
    <3>2. UNCHANGED <<todo, verdicts>> /\ pc' # "rows"
      BY <3>1 DEF Conclude
    <3> QED
      BY <2>4, <3>2
  <2>7. CASE DeliverHere \/ RewriteHere \/ RewriteAway
    <3>1. UNCHANGED <<todo, verdicts>> /\ pc' # "rows"
      BY <2>7 DEF DeliverHere, RewriteHere, RewriteAway, WalkSecond
    <3> QED
      BY <2>4, <3>1
  <2>8. CASE Return \/ UNCHANGED vars
    BY <2>4, <2>8 DEF Return, vars
  <2> QED
    BY <2>1, <2>2, <2>3, <2>5, <2>6, <2>7, <2>8 DEF Next, Work, Returned
<1>3. IInv /\ OneInv =>
          (pc = "done" =>
             \A r \in Rows(facts) :
                \E v \in verdicts : /\ v.ep = r[1] /\ v.family = r[2]
                                    /\ \A w \in verdicts : w.ep = r[1] /\ w.family = r[2] => w = v)
  <2> SUFFICES ASSUME IInv, OneInv, pc = "done", NEW r \in Rows(facts)
               PROVE  \E v \in verdicts :
                         /\ v.ep = r[1] /\ v.family = r[2]
                         /\ \A w \in verdicts : w.ep = r[1] /\ w.family = r[2] => w = v
    OBVIOUS
  <2>1. PICK v \in verdicts : v.ep = r[1] /\ v.family = r[2]
    BY DEF IInv, RowsInv
  <2> QED
    BY <2>1 DEF OneInv
<1> QED
  BY Invariance, <1>1, <1>2, <1>3, PTL DEF Spec
=============================================================================
