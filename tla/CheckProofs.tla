----------------------------- MODULE CheckProofs -----------------------------
(***************************************************************************)
(* Theorems about `whyopen check`, for any host, network, policy file and  *)
(* pool, whatever order the dials are answered in and wherever it fails.   *)
(***************************************************************************)
EXTENDS Check, ListProofs, FiniteSetTheorems, TLAPS

(***************************************************************************)
(* The pool of Probe keeps its promise whatever its size and however many  *)
(* ports it is given.                                                      *)
(*                                                                         *)
(* ResultsComplete is not inductive: that Run has counted to the end says  *)
(* something about the slots only through the goroutines, each of which    *)
(* announces itself once, after writing its slot.  So the count of the     *)
(* announcements, taken or still in the channel, is that of the goroutines *)
(* past their announcement, and a goroutine past its dial has written.     *)
(***************************************************************************)
Answered  == {"answered", "announced", "gone"}
Announced == {i \in Slots : worker[i] \in {"announced", "gone"}}

PoolShape ==
    /\ ports \in Seq(Nat)
    /\ worker \in [Slots -> Stations]
    /\ results \in [Slots -> States \union {Unwritten}]
    /\ done \in Nat /\ received \in Nat /\ received <= Len(ports)

WritesBeforeAnnouncing == \A i \in Slots : worker[i] \in Answered => results[i] \in States
EachAnnouncedOnce      == done + received = Cardinality(Announced)

\* The semaphore: no more goroutines hold it than it has room for.
WithinConcurrency == Cardinality(Holding) <= Concurrency

PoolInv == PoolShape /\ WritesBeforeAnnouncing /\ EachAnnouncedOnce /\ WithinConcurrency

LEMMA SlotsAreFinite ==
    ASSUME PoolShape
    PROVE  /\ Slots = 1 .. Len(ports) /\ Len(ports) \in Nat /\ DOMAIN worker = Slots
           /\ IsFiniteSet(Slots) /\ Cardinality(Slots) = Len(ports)
           /\ IsFiniteSet(Announced) /\ Cardinality(Announced) \in Nat
           /\ IsFiniteSet(Holding) /\ Cardinality(Holding) \in Nat
<1>1. Slots = 1 .. Len(ports) /\ Len(ports) \in Nat /\ DOMAIN worker = Slots
  BY DEF PoolShape, Slots
<1>2. IsFiniteSet(Slots) /\ Cardinality(Slots) = Len(ports)
  <2> DEFINE n == Len(ports)
  <2>1. n \in Nat
    BY <1>1
  <2> HIDE DEF n
  <2>2. IsFiniteSet(1 .. n) /\ Cardinality(1 .. n) = n
    BY <2>1, FS_Interval
  <2> QED
    BY <1>1, <2>2 DEF n
<1>3. Announced \in SUBSET Slots /\ Holding \in SUBSET Slots
  BY <1>1 DEF Announced, Holding
<1>4. IsFiniteSet(Announced) /\ IsFiniteSet(Holding)
  BY <1>2, <1>3, FS_Subset
<1> QED
  BY <1>1, <1>2, <1>4, FS_CardinalityType

\* A pool that has not started, and one whose goroutines have not run.
LEMMA IdlePool ==
    ASSUME NEW t, NoPool(t, <<>>)
    PROVE  PoolInv
<1>1. Slots = {} /\ Announced = {} /\ Holding = {}
  BY DEF NoPool, Slots, Announced, Holding
<1>2. PoolShape
  BY <1>1 DEF NoPool, PoolShape, Slots
<1> QED
  BY <1>1, <1>2, FS_EmptySet, PoolAssumption
  DEF PoolInv, NoPool, WritesBeforeAnnouncing, EachAnnouncedOnce, WithinConcurrency

LEMMA StartedPool ==
    ASSUME NEW t, NEW ps \in Seq(Nat), StartPool(t, ps)
    PROVE  PoolInv'
<1>1. Slots' = DOMAIN ps /\ DOMAIN worker' = DOMAIN ps
  BY DEF StartPool, Slots
<1>2. \A i \in DOMAIN ps : worker'[i] = "started" /\ results'[i] = Unwritten
  BY DEF StartPool
<1>3. Announced' = {} /\ Holding' = {}
  BY <1>1, <1>2 DEF Announced, Holding
<1>4. PoolShape'
  BY <1>1 DEF StartPool, PoolShape, Slots, Stations
<1> QED
  BY <1>1, <1>2, <1>3, <1>4, FS_EmptySet, PoolAssumption
  DEF PoolInv, StartPool, WritesBeforeAnnouncing, EachAnnouncedOnce, WithinConcurrency, Answered

(***************************************************************************)
(* The steps of one goroutine.                                             *)
(***************************************************************************)
LEMMA AcquireKeepsPool ==
    ASSUME PoolInv, NEW i \in Slots, Acquire(i)
    PROVE  PoolInv'
<1> USE DEF PoolInv
<1>1. /\ worker[i] = "started" /\ worker' = [worker EXCEPT ![i] = "dialling"]
      /\ UNCHANGED <<ports, results, done, received>> /\ Cardinality(Holding) < Concurrency
  BY DEF Acquire, Step
<1>2. PoolShape' /\ Slots' = Slots /\ DOMAIN worker = Slots /\ DOMAIN worker' = Slots
  BY <1>1 DEF PoolShape, Slots, Stations
<1>3. WritesBeforeAnnouncing'
  BY <1>1, <1>2 DEF WritesBeforeAnnouncing, Answered
<1>4. Announced' = Announced
  BY <1>1, <1>2 DEF Announced
<1>5. Holding' = Holding \union {i} /\ i \notin Holding
  BY <1>1, <1>2 DEF Holding
<1>6. Cardinality(Holding') = Cardinality(Holding) + 1
  BY <1>5, SlotsAreFinite, FS_AddElement
<1> QED
  BY <1>1, <1>2, <1>3, <1>4, <1>6, SlotsAreFinite, PoolAssumption
  DEF EachAnnouncedOnce, WithinConcurrency

LEMMA DialKeepsPool ==
    ASSUME PoolInv, NEW i \in Slots, Dial(i)
    PROVE  PoolInv'
<1> USE DEF PoolInv
<1>1. PICK answer \in Answers(target, ports[i]) :
         /\ worker[i] = "dialling" /\ worker' = [worker EXCEPT ![i] = "answered"]
         /\ results' = [results EXCEPT ![i] = answer]
         /\ UNCHANGED <<ports, done, received>>
  BY DEF Dial, Step
<1>2. answer \in States
  BY DEF Answers, States
<1>3. PoolShape' /\ Slots' = Slots /\ DOMAIN worker = Slots /\ DOMAIN worker' = Slots
  BY <1>1, <1>2 DEF PoolShape, Slots, Stations
<1>4. DOMAIN results = Slots
  BY DEF PoolShape
<1>5. WritesBeforeAnnouncing'
  BY <1>1, <1>2, <1>3, <1>4 DEF WritesBeforeAnnouncing
<1>6. Announced' = Announced /\ Holding' = Holding
  BY <1>1, <1>3 DEF Announced, Holding
<1> QED
  BY <1>1, <1>3, <1>5, <1>6 DEF EachAnnouncedOnce, WithinConcurrency

LEMMA AnnounceKeepsPool ==
    ASSUME PoolInv, NEW i \in Slots, Announce(i)
    PROVE  PoolInv'
<1> USE DEF PoolInv
<1>1. /\ worker[i] = "answered" /\ worker' = [worker EXCEPT ![i] = "announced"]
      /\ done' = done + 1 /\ UNCHANGED <<ports, results, received>>
  BY DEF Announce, Step
<1>2. PoolShape' /\ Slots' = Slots /\ DOMAIN worker = Slots /\ DOMAIN worker' = Slots
  BY <1>1 DEF PoolShape, Slots, Stations
<1>3. WritesBeforeAnnouncing'
  BY <1>1, <1>2 DEF WritesBeforeAnnouncing, Answered
<1>4. Announced' = Announced \union {i} /\ i \notin Announced /\ Holding' = Holding
  BY <1>1, <1>2 DEF Announced, Holding
<1>5. Cardinality(Announced') = Cardinality(Announced) + 1
  BY <1>4, SlotsAreFinite, FS_AddElement
<1>6. done \in Nat /\ received \in Nat
  BY DEF PoolShape
<1> QED
  BY <1>1, <1>2, <1>3, <1>4, <1>5, <1>6, SlotsAreFinite DEF EachAnnouncedOnce, WithinConcurrency

LEMMA ReleaseKeepsPool ==
    ASSUME PoolInv, NEW i \in Slots, Release(i)
    PROVE  PoolInv'
<1> USE DEF PoolInv
<1>1. /\ worker[i] = "announced" /\ worker' = [worker EXCEPT ![i] = "gone"]
      /\ UNCHANGED <<ports, results, done, received>>
  BY DEF Release, Step
<1>2. PoolShape' /\ Slots' = Slots /\ DOMAIN worker = Slots /\ DOMAIN worker' = Slots
  BY <1>1 DEF PoolShape, Slots, Stations
<1>3. WritesBeforeAnnouncing'
  BY <1>1, <1>2 DEF WritesBeforeAnnouncing, Answered
<1>4. Announced' = Announced /\ Holding' \in SUBSET Holding
  BY <1>1, <1>2 DEF Announced, Holding
<1>5. Cardinality(Holding') <= Cardinality(Holding) /\ Cardinality(Holding') \in Nat
  BY <1>4, SlotsAreFinite, FS_Subset, FS_CardinalityType
<1> QED
  BY <1>1, <1>2, <1>3, <1>4, <1>5, SlotsAreFinite, PoolAssumption
  DEF EachAnnouncedOnce, WithinConcurrency

LEMMA GoroutineKeepsPool ==
    ASSUME PoolInv, NEW i \in Slots, Goroutine(i)
    PROVE  PoolInv'
BY AcquireKeepsPool, DialKeepsPool, AnnounceKeepsPool, ReleaseKeepsPool DEF Goroutine

LEMMA ReceiveKeepsPool ==
    ASSUME PoolInv, Receive
    PROVE  PoolInv'
<1> USE DEF PoolInv
<1>1. /\ done > 0 /\ received < Len(ports) /\ done' = done - 1 /\ received' = received + 1
      /\ UNCHANGED <<ports, worker, results>>
  BY DEF Receive
<1>2. PoolShape' /\ Slots' = Slots
  BY <1>1 DEF PoolShape, Slots
<1>3. Announced' = Announced /\ Holding' = Holding
  BY <1>1, <1>2 DEF Announced, Holding
<1>4. done' + received' = done + received
  BY <1>1 DEF PoolShape
<1> QED
  BY <1>1, <1>2, <1>3, <1>4
  DEF WritesBeforeAnnouncing, EachAnnouncedOnce, WithinConcurrency

\* Nothing else touches the pool.
LEMMA PoolStays ==
    ASSUME PoolInv, UNCHANGED <<ports, worker, results, done, received>>
    PROVE  PoolInv'
BY DEF PoolInv, PoolShape, WritesBeforeAnnouncing, EachAnnouncedOnce, WithinConcurrency,
       Slots, Announced, Holding

(***************************************************************************)
(* What the invariant says of a pool.                                      *)
(***************************************************************************)
LEMMA PoolTypes ==
    ASSUME PoolInv
    PROVE  PoolTypeOK
<1> USE DEF PoolInv
<1>1. IsFiniteSet(Slots) /\ Cardinality(Slots) = Len(ports) /\ Announced \in SUBSET Slots
  BY SlotsAreFinite DEF Announced
<1>2. Cardinality(Announced) <= Len(ports) /\ Cardinality(Announced) \in Nat
  BY <1>1, FS_Subset, SlotsAreFinite
<1>3. done \in 0 .. Len(ports) /\ received \in 0 .. Len(ports)
  BY <1>2 DEF PoolShape, EachAnnouncedOnce
<1> QED
  BY <1>3, SlotsAreFinite DEF PoolTypeOK, PoolShape

LEMMA CompleteWhenReturned ==
    ASSUME PoolInv
    PROVE  ResultsComplete
<1> USE DEF PoolInv
<1> SUFFICES ASSUME Returned
             PROVE  \A i \in Slots : results[i] \in States
  BY DEF ResultsComplete
<1>1. IsFiniteSet(Slots) /\ Cardinality(Slots) = Len(ports) /\ Announced \in SUBSET Slots
  BY SlotsAreFinite DEF Announced
<1>2. Cardinality(Announced) <= Cardinality(Slots)
  BY <1>1, FS_Subset
<1>3. Cardinality(Announced) = Cardinality(Slots)
  BY <1>1, <1>2, SlotsAreFinite DEF Returned, EachAnnouncedOnce, PoolShape
<1>4. Announced = Slots
  BY <1>1, <1>3, FS_Subset
<1> QED
  BY <1>4 DEF Announced, WritesBeforeAnnouncing, Answered

(***************************************************************************)
(* The rows.  A verdict that is amended keeps everything but its result.   *)
(***************************************************************************)
SameEndpoint(v, w) ==
    v.port = w.port /\ v.proto = w.proto /\ v.family = w.family /\ v.at = w.at

LEMMA Amended ==
    ASSUME NEW v \in Verdicts, NEW r \in Results, NEW w, w = [v EXCEPT !.result = r]
    PROVE  w \in Verdicts /\ SameEndpoint(w, v) /\ w.result = r
<1>1. w \in Verdicts
  BY DEF Verdicts
<1>2. w.port = v.port /\ w.proto = v.proto /\ w.family = v.family /\ w.at = v.at /\ w.result = r
  BY DEF Verdicts
<1> QED
  BY <1>1, <1>2 DEF SameEndpoint

(***************************************************************************)
(* tcpPorts names each port that has a row of the family, once.            *)
(***************************************************************************)
TcpPortSet(vs, family) ==
    {v.port : v \in {w \in ToSet(vs) : w.proto = "tcp" /\ w.family = family}}

LEMMA TcpPortsListed ==
    ASSUME NEW vs \in Seq(Verdicts), NEW family
    PROVE  /\ tcpPorts(vs, family) \in Seq(Nat)
           /\ ToSet(tcpPorts(vs, family)) = TcpPortSet(vs, family)
           /\ \A i, j \in DOMAIN tcpPorts(vs, family) :
                  tcpPorts(vs, family)[i] = tcpPorts(vs, family)[j] => i = j
<1> DEFINE W == {w \in ToSet(vs) : w.proto = "tcp" /\ w.family = family}
           P == TcpPortSet(vs, family)
           port == [w \in W |-> w.port]
           ps == tcpPorts(vs, family)
<1>1. IsFiniteSet(W)
  BY ToSetIsFinite, FS_Subset
<1>2. P = {w.port : w \in W}
  BY DEF TcpPortSet
<1>3. port \in Surjection(W, P)
  BY <1>2 DEF Surjection
<1>4. IsFiniteSet(P)
  BY <1>1, <1>3, FS_Surjection
<1>5. P \in SUBSET Nat
  <2>1. W \subseteq Verdicts
    BY ToSetIsFinite
  <2>2. \A w \in Verdicts : w.port \in Nat
    BY DEF Verdicts
  <2> QED
    BY <1>2, <2>1, <2>2
<1>6. ps = Ascending(P, <)
  BY DEF tcpPorts, TcpPortSet
<1> HIDE DEF P, W, port
<1>7. P \in SUBSET Int
  BY <1>5
<1>8. /\ ps \in Seq(P) /\ Len(ps) = Cardinality(P) /\ ToSet(ps) = P
      /\ \A i, j \in 1 .. Cardinality(P) : i < j => ps[i] < ps[j]
  BY <1>4, <1>6, <1>7, AscendingNumbers
<1> HIDE DEF ps
<1>9. ps \in Seq(Nat) /\ DOMAIN ps = 1 .. Len(ps) /\ Len(ps) \in Nat
  <2>1. DOMAIN ps = 1 .. Len(ps) /\ Len(ps) \in Nat /\ \A i \in DOMAIN ps : ps[i] \in P
    BY <1>8
  <2>2. \A i \in DOMAIN ps : ps[i] \in Nat
    BY <1>5, <2>1
  <2> QED
    BY <1>8, <2>1, <2>2
<1>10. ASSUME NEW i \in DOMAIN ps, NEW j \in DOMAIN ps, ps[i] = ps[j]
       PROVE  i = j
  <2>1. i \in Nat /\ j \in Nat /\ ps[i] \in Nat /\ ps[j] \in Nat
    BY <1>9
  <2>2. ~(i < j) /\ ~(j < i)
    BY <1>8, <1>9, <1>10, <2>1
  <2> QED
    BY <2>1, <2>2
<1> QED
  BY <1>8, <1>9, <1>10 DEF P, ps

(***************************************************************************)
(* The invariant.  None of the properties is inductive by itself:          *)
(*  - what is known of the policy rests on the file it was loaded from and *)
(*    on how that came about;                                              *)
(*  - an answer overwrites a verdict only once because a family is probed  *)
(*    once, so rows of the families still to come are as they were         *)
(*    modelled, and evidence heard is of the families behind;              *)
(*  - while the other machine probes, its ports are those of the family's  *)
(*    rows, and its pool is in order;                                      *)
(*  - a run that ended without an error printed and judged the same rows.  *)
(***************************************************************************)
Control ==
    /\ request \in Requests /\ network \in Networks
    /\ pc \in {"init", "start", "load", "families", "remote", "policy", "ended"}
    /\ exit \in {Running, exitOK, exitViolation, exitUnknown, exitError}
    /\ Ended <=> exit # Running

Loading == pc \in {"init", "start", "load"}
Loaded  == pc \in {"families", "remote", "policy"} \/ (Ended /\ exit # exitError)

Turns ==
    /\ families \in {<<"ip", "ip6">>, <<"ip6">>, <<>>} /\ probed \in Nat
    /\ probed + Len(families) <= 2
    /\ pc = "remote" => families # <<>> /\ ports = tcpPorts(verdicts, Family)
    /\ pc \in {"families", "remote"} => request.probeFrom

RowsKept ==
    /\ verdicts \in Seq(Verdicts)
    /\ Loaded => Len(verdicts) = Len(host.verdicts)
    /\ Len(verdicts) \in {0, Len(host.verdicts)}
    /\ \A i \in DOMAIN verdicts : SameEndpoint(verdicts[i], host.verdicts[i])
    /\ Loaded /\ ~request.probeFrom => verdicts = host.verdicts

AheadAsModelled ==
    \A i \in DOMAIN verdicts :
        verdicts[i].family \in ToSet(families) => verdicts[i] = host.verdicts[i]

OpenRow(e) == \E i \in DOMAIN verdicts :
    /\ verdicts[i].proto = "tcp" /\ verdicts[i].family = e[1]
    /\ verdicts[i].port = e[2] /\ verdicts[i].result = "reachable"

HeardBehind ==
    /\ Loading => evidence = {}
    /\ \A e \in evidence : e[1] \notin ToSet(families) /\ (e[3] = "open" => OpenRow(e))

InPairs(lines) ==
    \A l \in ToSet(lines) : l.key = "allow" => l.value = Entry(l.value[1], l.value[2])

Adopts(lines) == Values(lines, "allow") \subseteq InitPolicy(host.verdicts).allow

PolicyFromFile ==
    /\ policy = NoPolicy \/ (Load(file) # Refused /\ policy = Load(file))
    /\ pc \in {"init", "start"} => policy = NoPolicy
    /\ InPairs(file)
    /\ request.file = Generated =>
          pc = "init" \/ (Ended /\ policy = NoPolicy) \/ Adopts(file)

Result == IF policy.given THEN <<Judgement(policy, verdicts)>> ELSE <<>>

Outcome ==
    Ended /\ exit # exitError =>
        /\ exit = checkExitCode(host.readFailed, Result)
        /\ \E json \in BOOLEAN, explain \in Explained :
              printed = Printed(json, explain, verdicts, host.notes, Result,
                                IF request.probeFrom THEN <<disagreements>> ELSE <<>>)

IInv ==
    /\ Control /\ Turns /\ RowsKept /\ AheadAsModelled /\ HeardBehind
    /\ ErrorsAreNoEvidence /\ OverrulesAreReported
    /\ PolicyFromFile /\ Outcome /\ PoolInv

(***************************************************************************)
(* The file policy init writes.  Entries are sorted by their number, twice *)
(* the port and one more for udp.                                          *)
(***************************************************************************)
Entries == Nat \X Protos

LEMMA AscendingEntries ==
    ASSUME NEW S \in SUBSET Entries, IsFiniteSet(S)
    PROVE  /\ Ascending(S, EntryBefore) \in Seq(S)
           /\ Len(Ascending(S, EntryBefore)) = Cardinality(S)
           /\ ToSet(Ascending(S, EntryBefore)) = S
<1> DEFINE n == Cardinality(S)
           k == [e \in S |-> 2 * e[1] + (IF e[2] = "tcp" THEN 0 ELSE 1)]
           Less(x) == {y \in S : EntryBefore(y, x)}
           f == [i \in 1 .. n |-> CHOOSE x \in S : Cardinality(Less(x)) = i - 1]
<1>1. \A x \in S : /\ x[1] \in Nat /\ x[2] \in {"tcp", "udp"} /\ x = <<x[1], x[2]>>
                   /\ k[x] = IF x[2] = "tcp" THEN 2 * x[1] ELSE 2 * x[1] + 1
  BY DEF Entries, Protos
<1>2. k \in [S -> Int]
  BY <1>1
<1>3. \A x, y \in S : k[x] = k[y] => x = y
  <2> SUFFICES ASSUME NEW x \in S, NEW y \in S, k[x] = k[y]
               PROVE  x = y
    OBVIOUS
  <2> HIDE DEF k
  <2>1. x[1] = y[1] /\ x[2] = y[2]
    BY <1>1
  <2> QED
    BY <1>1, <2>1
<1>4. \A x, y \in S : EntryBefore(y, x) <=> k[y] < k[x]
  <2> HIDE DEF k
  <2> QED
    BY <1>1 DEF EntryBefore
<1>5. \A x \in S : Less(x) = {y \in S : k[y] < k[x]}
  BY <1>4
<1>6. Ascending(S, EntryBefore) = f
  BY DEF Ascending
<1> HIDE DEF k, Less
<1>7. \A i \in 1 .. n :
          (\E x \in S : Cardinality(Less(x)) = i - 1) => f[i] \in S /\ Cardinality(Less(f[i])) = i - 1
  OBVIOUS
<1>8. f = [i \in 1 .. n |-> f[i]]
  OBVIOUS
<1> HIDE DEF f
<1>9. f \in [1 .. n -> S] /\ \A i, j \in 1 .. n : i < j => k[f[i]] < k[f[j]]
  <2>1. \A i \in 1 .. n :
            (\E x \in S : Cardinality({y \in S : k[y] < k[x]}) = i - 1)
            => f[i] \in S /\ Cardinality({y \in S : k[y] < k[f[i]]}) = i - 1
    BY <1>5, <1>7
  <2> QED
    BY <1>2, <1>3, <1>8, <2>1, ListedByNumber
<1> HIDE DEF n
<1>10. \A i, j \in 1 .. n : i < j => f[i] # f[j]
  BY <1>2, <1>9
<1>11. f \in Seq(S) /\ Len(f) = n /\ ToSet(f) = S
  BY <1>9, <1>10, OrderedIsOnto DEF n
<1> QED
  BY <1>6, <1>11 DEF n

LEMMA NoLines == \A S : <<>> \in Seq(S) /\ ToSet(<<>>) = {}
BY DEF ToSet

LEMMA OneLine == ASSUME NEW S, NEW a \in S PROVE <<a>> \in Seq(S) /\ ToSet(<<a>>) = {a}
<1>1. DOMAIN <<a>> = {1} /\ <<a>>[1] = a
  OBVIOUS
<1> QED
  BY <1>1 DEF ToSet

LEMMA TwoLines ==
    ASSUME NEW S, NEW a \in S, NEW b \in S
    PROVE  <<a, b>> \in Seq(S) /\ ToSet(<<a, b>>) = {a, b}
<1>1. DOMAIN <<a, b>> = {1, 2} /\ <<a, b>>[1] = a /\ <<a, b>>[2] = b
  OBVIOUS
<1> QED
  BY <1>1 DEF ToSet

LEMMA MarshalledLines ==
    ASSUME NEW allow \in SUBSET Entries, IsFiniteSet(allow), NEW strict, NEW p,
           p.allow = allow, p.failOnUnknown = strict,
           NEW unresolved, NEW notes \in BOOLEAN, NEW written, written = Marshal(p, unresolved, notes)
    PROVE  /\ written \in Seq(ToSet(written))
           /\ \A l \in ToSet(written) :
                 \/ \E e \in allow : l = Line("allow", e)
                 \/ l.key # "allow"
           /\ \A e \in allow : Line("allow", e) \in ToSet(written)
           /\ Line("fail_on_unknown", strict) \in ToSet(written)
<1> DEFINE L == {Line("allow", e) : e \in allow}
           O == {Line("version", Version), Line("zones", zoneName), Comment,
                 Line("fail_on_unknown", strict)}
           head == <<Line("version", Version), Line("zones", zoneName)>>
           body == [i \in 1 .. Cardinality(allow) |-> Line("allow", Ascending(allow, EntryBefore)[i])]
           more == IF unresolved # {} THEN <<Comment>> ELSE <<>>
           note == IF notes THEN <<Comment>> ELSE <<>>
           last == <<Line("fail_on_unknown", strict)>>
<1>2. Marshal(p, unresolved, notes) = (((head \o body) \o more) \o note) \o last
  BY DEF Marshal
<1>3. body \in Seq(L) /\ ToSet(body) = L
  <2> DEFINE a == Ascending(allow, EntryBefore)  n == Cardinality(allow)
  <2>1. a \in Seq(allow) /\ Len(a) = n /\ ToSet(a) = allow
    BY AscendingEntries
  <2>2. body = [i \in 1 .. n |-> Line("allow", a[i])]
    OBVIOUS
  <2> HIDE DEF a, n, body
  <2>3. n \in Nat /\ DOMAIN a = 1 .. n /\ \A i \in 1 .. n : a[i] \in allow
    BY <2>1
  <2>4. body \in [1 .. n -> L]
    BY <2>2, <2>3
  <2>5. \A e \in allow : \E i \in 1 .. n : a[i] = e
    BY <2>1, <2>3 DEF ToSet
  <2>6. L \subseteq ToSet(body)
    BY <2>2, <2>5 DEF ToSet
  <2> HIDE DEF L
  <2>7. body \in Seq(L) /\ ToSet(body) \subseteq L
    BY <2>3, <2>4 DEF ToSet
  <2> QED
    BY <2>6, <2>7
<1> DEFINE S == L \union O
<1>4. head \in Seq(S) /\ last \in Seq(S) /\ more \in Seq(S) /\ note \in Seq(S)
      /\ ToSet(head) \subseteq O /\ ToSet(more) \subseteq O /\ ToSet(note) \subseteq O
      /\ ToSet(last) = {Line("fail_on_unknown", strict)}
  <2>1. /\ Line("version", Version) \in O /\ Line("zones", zoneName) \in O
        /\ Comment \in O /\ Line("fail_on_unknown", strict) \in O
    OBVIOUS
  <2>2. O \subseteq S
    OBVIOUS
  <2> HIDE DEF O, S
  <2>3. \A l \in O : l \in S
    BY <2>2
  <2>4. head \in Seq(S) /\ ToSet(head) \subseteq O
    <3>1. /\ Line("version", Version) \in S /\ Line("zones", zoneName) \in S
      BY <2>1, <2>3
    <3>2. head \in Seq(S) /\ ToSet(head) = {Line("version", Version), Line("zones", zoneName)}
      BY <3>1, TwoLines
    <3> QED
      BY <2>1, <3>2
  <2>5. last \in Seq(S) /\ ToSet(last) = {Line("fail_on_unknown", strict)}
    BY <2>1, <2>3, OneLine
  <2>6. <<Comment>> \in Seq(S) /\ ToSet(<<Comment>>) \subseteq O
    <3>1. <<Comment>> \in Seq(S) /\ ToSet(<<Comment>>) = {Comment}
      BY <2>1, <2>3, OneLine
    <3> QED
      BY <2>1, <3>1
  <2>7. <<>> \in Seq(S) /\ ToSet(<<>>) \subseteq O
    BY NoLines
  <2>8. more \in Seq(S) /\ ToSet(more) \subseteq O
    <3>1. CASE unresolved # {}
      BY <2>6, <3>1
    <3>2. CASE unresolved = {}
      BY <2>7, <3>2
    <3> QED
      BY <3>1, <3>2
  <2>9. note \in Seq(S) /\ ToSet(note) \subseteq O
    <3>1. CASE notes
      BY <2>6, <3>1
    <3>2. CASE ~notes
      BY <2>7, <3>2
    <3> QED
      BY <3>1, <3>2
  <2> QED
    BY <2>4, <2>5, <2>8, <2>9
<1>5. body \in Seq(S)
  BY <1>3
<1> DEFINE two == head \o body
           three == two \o more
           four == three \o note
           lines == four \o last
<1> HIDE DEF head, body, more, note, last, S, L, O, two, three, four, lines
<1>6. two \in Seq(S) /\ ToSet(two) = ToSet(head) \union ToSet(body)
  BY <1>4, <1>5, ToSetOfConcat DEF two
<1>7. three \in Seq(S) /\ ToSet(three) = ToSet(two) \union ToSet(more)
  BY <1>4, <1>6, ToSetOfConcat DEF three
<1>8. four \in Seq(S) /\ ToSet(four) = ToSet(three) \union ToSet(note)
  BY <1>4, <1>7, ToSetOfConcat DEF four
<1>9. lines \in Seq(S) /\ ToSet(lines) = ToSet(four) \union ToSet(last)
  BY <1>4, <1>8, ToSetOfConcat DEF lines
<1>10. written = lines
  BY <1>2 DEF two, three, four, lines
<1>11. /\ L \subseteq ToSet(lines) /\ ToSet(lines) \subseteq L \union O
       /\ Line("fail_on_unknown", strict) \in ToSet(lines)
  <2>1. ToSet(lines) = (((ToSet(head) \union ToSet(body)) \union ToSet(more)) \union ToSet(note))
                          \union ToSet(last)
    BY <1>6, <1>7, <1>8, <1>9
  <2>2. Line("fail_on_unknown", strict) \in O
    BY DEF O
  <2> QED
    BY <1>3, <1>4, <2>1, <2>2
<1>12. lines \in Seq(ToSet(lines))
  BY <1>9, SeqOfItsElements
<1>13. \A l \in O : l.key # "allow"
  <2>1. /\ Line("version", Version).key = "version" /\ Line("zones", zoneName).key = "zones"
        /\ Comment.key = "comment" /\ Line("fail_on_unknown", strict).key = "fail_on_unknown"
    BY DEF Line, Comment
  <2>2. /\ Line("version", Version).key # "allow" /\ Line("zones", zoneName).key # "allow"
        /\ Comment.key # "allow" /\ Line("fail_on_unknown", strict).key # "allow"
    BY <2>1
  <2>3. \A l \in O : \/ l = Line("version", Version) \/ l = Line("zones", zoneName)
                    \/ l = Comment \/ l = Line("fail_on_unknown", strict)
    BY DEF O
  <2> QED
    BY <2>2, <2>3
<1>14. \A l \in ToSet(lines) : (\E e \in allow : l = Line("allow", e)) \/ l.key # "allow"
  BY <1>11, <1>13 DEF L
<1>15. \A e \in allow : Line("allow", e) \in ToSet(lines)
  BY <1>11 DEF L
<1> QED
  BY <1>10, <1>11, <1>12, <1>14, <1>15

LEMMA GeneratedAllows ==
    ASSUME NEW r \in Requests
    PROVE  /\ InitPolicy(r.host.verdicts).allow \in SUBSET Entries
           /\ IsFiniteSet(InitPolicy(r.host.verdicts).allow)
<1> DEFINE vs == r.host.verdicts
           W == With(vs, "reachable")
           entry == [v \in W |-> EntryOf(v)]
           allow == {EntryOf(v) : v \in W}
<1>1. vs \in Seq(Verdicts)
  BY RequestsAssumption
<1> HIDE DEF vs
<1>2. IsFiniteSet(W) /\ W \subseteq Verdicts
  <2>1. IsFiniteSet(ToSet(vs)) /\ ToSet(vs) \subseteq Verdicts
    BY <1>1, ToSetIsFinite
  <2>2. W \subseteq ToSet(vs)
    BY DEF With
  <2> QED
    BY <2>1, <2>2, FS_Subset
<1> HIDE DEF W
<1>3. entry \in Surjection(W, allow)
  BY DEF Surjection
<1>4. IsFiniteSet(allow)
  BY <1>2, <1>3, FS_Surjection
<1>5. allow \in SUBSET Entries
  <2>1. \A v \in Verdicts : EntryOf(v) \in Entries
    BY DEF Verdicts, EntryOf, Entries
  <2> QED
    BY <1>2, <2>1
<1>6. InitPolicy(vs).allow = allow
  BY DEF InitPolicy, W
<1> QED
  BY <1>4, <1>5, <1>6 DEF vs

LEMMA CutLines ==
    ASSUME NEW S, NEW lines \in Seq(S), NEW n \in 0 .. (Len(lines) - 1),
           NEW f \in CutShort(lines, n)
    PROVE  ToSet(f) \subseteq ToSet(lines) \union {Comment, Broken}
<1> DEFINE whole == SubSeq(lines, 1, n)
           R == ToSet(lines) \union {Comment, Broken}
<1>1. Len(lines) \in Nat /\ n \in Nat /\ n < Len(lines) /\ DOMAIN lines = 1 .. Len(lines)
  OBVIOUS
<1>2. /\ whole \in Seq(S) /\ Len(whole) = n /\ DOMAIN whole = 1 .. n
      /\ \A i \in 1 .. n : whole[i] = lines[i]
  BY <1>1
<1> HIDE DEF whole
<1>3. \A i \in 1 .. n : whole[i] \in ToSet(lines)
  BY <1>1, <1>2 DEF ToSet
<1>4. ToSet(whole) \subseteq R
  BY <1>2, <1>3 DEF ToSet
<1>5. ASSUME NEW l \in {Comment, Broken}
      PROVE  ToSet(Append(whole, l)) \subseteq R
  <2> DEFINE a == Append(whole, l)  V == S \union {l}
  <2>1. whole \in Seq(V)
    BY <1>2
  <2> HIDE DEF V
  <2>2. l \in V
    BY DEF V
  <2>3. DOMAIN a = 1 .. (n + 1) /\ a[n + 1] = l /\ \A i \in 1 .. n : a[i] = whole[i]
    BY <1>1, <1>2, <2>1, <2>2
  <2> HIDE DEF a
  <2>4. \A i \in 1 .. (n + 1) : a[i] \in R
    BY <1>1, <1>3, <2>3
  <2> HIDE DEF R
  <2>5. ToSet(a) \subseteq R
    BY <2>3, <2>4 DEF ToSet
  <2> QED
    BY <2>5 DEF a, R
<1>6. f = whole \/ \E l \in {Comment, Broken} : f = Append(whole, l)
  BY DEF CutShort, whole
<1> QED
  BY <1>4, <1>5, <1>6

LEMMA GeneratedFile ==
    ASSUME request \in Requests,
           NEW f, f = Complete \/ \E n \in 0 .. (Len(Complete) - 1) : f \in CutShort(Complete, n)
    PROVE  InPairs(f) /\ Adopts(f)
<1> DEFINE allow == InitPolicy(host.verdicts).allow
           lines == Complete
           strict == TRUE
           p == InitPolicy(host.verdicts)
           unresolved == {EntryOf(v) : v \in Unknown(host.verdicts)}
<1>1. allow \in SUBSET Entries /\ IsFiniteSet(allow)
  BY GeneratedAllows DEF host
<1>2. p.allow = allow /\ p.failOnUnknown = strict
  BY DEF InitPolicy
<1>3. host.notes \in BOOLEAN
  BY RequestsAssumption DEF host
<1>4. lines = Marshal(p, unresolved, host.notes)
  BY DEF Complete
<1> HIDE DEF allow, strict, p, unresolved, lines
<1>5. /\ lines \in Seq(ToSet(lines))
      /\ \A l \in ToSet(lines) : (\E e \in allow : l = Line("allow", e)) \/ l.key # "allow"
  BY <1>1, <1>2, <1>3, <1>4, MarshalledLines
<1> HIDE DEF lines
<1>6. ToSet(f) \subseteq ToSet(lines) \union {Comment, Broken}
  BY <1>5, CutLines DEF lines
<1>7. Comment.key # "allow" /\ Broken.key # "allow"
  <2>1. Comment.key = "comment" /\ Broken.key = "broken"
    BY DEF Comment, Broken, Line
  <2> QED
    BY <2>1
<1>8. \A l \in ToSet(f) : (\E e \in allow : l = Line("allow", e)) \/ l.key # "allow"
  BY <1>5, <1>6, <1>7
<1>9. \A e \in allow : Line("allow", e).value = e /\ e = Entry(e[1], e[2])
  BY <1>1 DEF Line, Entry, Entries
<1>10. \A l \in ToSet(f) : l.key = "allow" => l.value \in allow /\ l.value = Entry(l.value[1], l.value[2])
  BY <1>8, <1>9
<1> QED
  BY <1>10 DEF InPairs, Adopts, Values, allow

\* What is written down is what is read back.
LEMMA CompleteLoads ==
    ASSUME request \in Requests, Load(Complete) # Refused
    PROVE  Load(Complete) = InitPolicy(host.verdicts)
<1> DEFINE allow == InitPolicy(host.verdicts).allow
           lines == Complete
           strict == TRUE
           p == InitPolicy(host.verdicts)
           unresolved == {EntryOf(v) : v \in Unknown(host.verdicts)}
<1>1. allow \in SUBSET Entries /\ IsFiniteSet(allow)
  BY GeneratedAllows DEF host
<1>2. p.allow = allow /\ p.failOnUnknown = strict
  BY DEF InitPolicy
<1>3. p = [allow |-> allow, failOnUnknown |-> TRUE, given |-> TRUE]
  BY DEF InitPolicy
<1>4. host.notes \in BOOLEAN
  BY RequestsAssumption DEF host
<1>5. lines = Marshal(p, unresolved, host.notes)
  BY DEF Complete
<1> HIDE DEF allow, strict, p, unresolved, lines
<1>6. /\ \A l \in ToSet(lines) : (\E e \in allow : l = Line("allow", e)) \/ l.key # "allow"
      /\ \A e \in allow : Line("allow", e) \in ToSet(lines)
      /\ Line("fail_on_unknown", strict) \in ToSet(lines)
  BY <1>1, <1>2, <1>4, <1>5, MarshalledLines
<1>7. \A key, value : Line(key, value).key = key /\ Line(key, value).value = value
  BY DEF Line
<1> HIDE DEF lines
<1>8. Values(lines, "allow") = allow
  BY <1>6, <1>7 DEF Values
<1>9. TRUE \in Values(lines, "fail_on_unknown")
  <2>1. Line("fail_on_unknown", strict) \in {k \in ToSet(lines) : k.key = "fail_on_unknown"}
    BY <1>6, <1>7
  <2>2. strict \in Values(lines, "fail_on_unknown")
    BY <1>7, <2>1 DEF Values
  <2> QED
    BY <2>2 DEF strict
<1>10. Load(lines) = [allow |-> allow, failOnUnknown |-> TRUE, given |-> TRUE]
  <2>1. Load(lines) = [allow |-> Values(lines, "allow"),
                       failOnUnknown |-> TRUE \in Values(lines, "fail_on_unknown"), given |-> TRUE]
    BY DEF Load, lines
  <2> QED
    BY <1>8, <1>9, <2>1
<1> QED
  BY <1>3, <1>10 DEF lines, p

LEMMA InitialInv ==
    ASSUME Init
    PROVE  IInv
<1>1. PoolInv
  BY IdlePool DEF Init
<1>2. Control
  BY DEF Init, Control, Ended, Running, exitOK, exitViolation, exitUnknown, exitError
<1>3. Turns
  BY DEF Init, Turns
<1>4. Len(host.verdicts) \in Nat /\ verdicts = <<>>
  BY RequestsAssumption DEF Init, host
<1>5. RowsKept /\ AheadAsModelled /\ ErrorsAreNoEvidence /\ OverrulesAreReported
  BY <1>4 DEF Init, RowsKept, Loaded, Ended, AheadAsModelled, ErrorsAreNoEvidence, OverrulesAreReported
<1>6. HeardBehind
  BY DEF Init, HeardBehind
<1>7. InPairs(file)
  BY RequestsAssumption DEF Init, InPairs
<1>8. PolicyFromFile
  BY <1>7 DEF Init, PolicyFromFile
<1>9. Outcome
  BY DEF Init, Outcome, Ended
<1> QED
  BY <1>1, <1>2, <1>3, <1>5, <1>6, <1>8, <1>9 DEF IInv

(***************************************************************************)
(* A step that changes neither the rows nor what is known of them.         *)
(***************************************************************************)
LEMMA RowsStay ==
    ASSUME IInv, UNCHANGED <<request, probing>>
    PROVE  AheadAsModelled' /\ ErrorsAreNoEvidence' /\ OverrulesAreReported'
BY DEF IInv, probing, host, AheadAsModelled, ErrorsAreNoEvidence, OverrulesAreReported

LEMMA PolicyStays ==
    ASSUME IInv, UNCHANGED reading, pc # "init", pc' \notin {"init", "start"},
           pc' = "ended" \/ pc # "ended"
    PROVE  PolicyFromFile'
BY DEF IInv, reading, host, PolicyFromFile, Ended, InPairs, Adopts, InitPolicy, EntryOf, With

\* Every way the run ends without a verdict.
LEMMA FailingKeepsInv ==
    ASSUME IInv, pc # "ended", Exit(exitError),
           UNCHANGED <<poolVars, reading, probing, printed>>
    PROVE  IInv'
<1> USE DEF IInv, Exit, reading, probing, host
<1>1. PoolInv'
  BY PoolStays DEF poolVars, pool
<1>2. Control'
  BY DEF Control, Ended, Running, exitOK, exitViolation, exitUnknown, exitError, poolVars
<1>3. Turns'
  BY DEF Turns
<1>4. RowsKept'
  BY DEF RowsKept, Loaded, Ended
<1>5. HeardBehind'
  BY DEF HeardBehind, Loading, OpenRow
<1>6. PolicyFromFile'
  BY DEF PolicyFromFile, Ended, InPairs, Adopts, InitPolicy, EntryOf, With
<1>7. Outcome'
  BY DEF Outcome
<1> QED
  BY <1>1, <1>2, <1>3, <1>4, <1>5, <1>6, <1>7, RowsStay

(***************************************************************************)
(* What a family's answers do to the rows.                                 *)
(***************************************************************************)
LEMMA AnswerIsHeard ==
    ASSUME NEW rs, NEW port, AnswerFor(rs, port) # None
    PROVE  \E i \in Slots : ports[i] = port /\ rs[i] # "error" /\ AnswerFor(rs, port) = rs[i]
<1> DEFINE Heard(i) == ports[i] = port /\ rs[i] # "error"
           slot == CHOOSE i \in Slots : Heard(i)
<1>1. (\E i \in Slots : Heard(i)) /\ AnswerFor(rs, port) = rs[slot]
  BY DEF AnswerFor
<1>2. slot \in Slots /\ Heard(slot)
  BY <1>1
<1> QED
  BY <1>1, <1>2

LEMMA ReconcileRows ==
    ASSUME NEW vs \in Seq(Verdicts), NEW rs, NEW family
    PROVE  /\ Reconcile(vs, rs, family) \in Seq(Verdicts)
           /\ Len(Reconcile(vs, rs, family)) = Len(vs)
           /\ DOMAIN Reconcile(vs, rs, family) = DOMAIN vs
           /\ \A i \in DOMAIN vs :
                 /\ SameEndpoint(Reconcile(vs, rs, family)[i], vs[i])
                 /\ Concerned(vs[i], family, rs) =>
                       Reconcile(vs, rs, family)[i].result = Meant(AnswerFor(rs, vs[i].port))
                 /\ ~Concerned(vs[i], family, rs) => Reconcile(vs, rs, family)[i] = vs[i]
<1> DEFINE new == Reconcile(vs, rs, family)
           n == Len(vs)
           M(i) == Meant(AnswerFor(rs, vs[i].port))
           C(i) == Concerned(vs[i], family, rs)
<1>1. n \in Nat /\ DOMAIN vs = 1 .. n /\ \A i \in 1 .. n : vs[i] \in Verdicts
  OBVIOUS
<1>2. \A i \in 1 .. n : M(i) \in Results
  BY DEF Meant, Results
<1>3. new = [i \in 1 .. n |-> IF C(i) THEN [vs[i] EXCEPT !.result = M(i)] ELSE vs[i]]
  BY <1>1 DEF Reconcile
<1> HIDE DEF n, M, C, new
<1>4. DOMAIN new = 1 .. n
  BY <1>3
<1>5. ASSUME NEW i \in 1 .. n
      PROVE  /\ new[i] \in Verdicts /\ SameEndpoint(new[i], vs[i])
             /\ C(i) => new[i].result = M(i)
             /\ ~C(i) => new[i] = vs[i]
  <2>1. CASE C(i)
    <3>1. new[i] = [vs[i] EXCEPT !.result = M(i)]
      BY <1>3, <2>1
    <3> QED
      BY <1>1, <1>2, <2>1, <3>1, Amended
  <2>2. CASE ~C(i)
    BY <1>1, <1>3, <2>2 DEF SameEndpoint
  <2> QED
    BY <2>1, <2>2
<1>6. new \in Seq(Verdicts) /\ Len(new) = n
  <2>1. new = [i \in 1 .. n |-> new[i]]
    BY <1>3
  <2>2. new \in [1 .. n -> Verdicts]
    BY <1>5, <2>1
  <2> QED
    BY <1>1, <1>4, <2>2
<1> QED
  BY <1>1, <1>4, <1>5, <1>6 DEF n, M, C, new

\* The families still to come after the first.
LEMMA FamilyTurns ==
    ASSUME Turns, families # <<>>
    PROVE  /\ Family \in ToSet(families) /\ Family \notin ToSet(Tail(families))
           /\ ToSet(Tail(families)) \subseteq ToSet(families)
           /\ Tail(families) \in {<<"ip", "ip6">>, <<"ip6">>, <<>>}
           /\ Len(Tail(families)) = Len(families) - 1 /\ Len(families) \in Nat
<1>1. /\ ToSet(<<"ip", "ip6">>) = {"ip", "ip6"} /\ ToSet(<<"ip6">>) = {"ip6"}
      /\ ToSet(<<>>) = {}
  <2>1. ToSet(<<"ip", "ip6">>) = {"ip", "ip6"}
    BY TwoLines
  <2>2. ToSet(<<"ip6">>) = {"ip6"}
    BY OneLine
  <2>3. ToSet(<<>>) = {}
    BY NoLines
  <2> QED
    BY <2>1, <2>2, <2>3
<1>2. CASE families = <<"ip", "ip6">>
  <2>1. Family = "ip" /\ Tail(families) = <<"ip6">>
    BY <1>2 DEF Family
  <2>2. Len(families) = 2 /\ Len(Tail(families)) = 1
    BY <1>2
  <2>3. Family \in ToSet(families) /\ Family \notin ToSet(Tail(families))
    BY <1>1, <1>2, <2>1
  <2>4. ToSet(Tail(families)) \subseteq ToSet(families)
    BY <1>1, <1>2, <2>1
  <2> QED
    BY <2>1, <2>2, <2>3, <2>4
<1>3. CASE families = <<"ip6">>
  <2>1. Family = "ip6" /\ Tail(families) = <<>>
    BY <1>3 DEF Family
  <2>2. Len(families) = 1 /\ Len(Tail(families)) = 0
    BY <1>3
  <2>3. Family \in ToSet(families) /\ Family \notin ToSet(Tail(families))
    BY <1>1, <1>3, <2>1
  <2>4. ToSet(Tail(families)) \subseteq ToSet(families)
    BY <1>1, <1>3, <2>1
  <2> QED
    BY <2>1, <2>2, <2>3, <2>4
<1> QED
  BY <1>2, <1>3 DEF Turns

LEMMA AnswersKeepInv ==
    ASSUME IInv, RemoteAnswers
    PROVE  IInv'
<1> DEFINE new == Reconcile(verdicts, results, Family)
<1>1. /\ pc = "remote" /\ pc' = "families" /\ Returned
      /\ verdicts' = new /\ families' = Tail(families) /\ probed' = probed + 1
      /\ disagreements' = disagreements \union Overruled(verdicts, results, Family)
      /\ evidence' = evidence \union {<<Family, ports[i], results[i]>> : i \in Slots}
      /\ UNCHANGED <<poolVars, request, file, policy, printed, exit>>
  BY DEF RemoteAnswers, reading
<1>2. families # <<>> /\ ports = tcpPorts(verdicts, Family) /\ request.probeFrom
  BY <1>1 DEF IInv, Turns
<1>3. /\ Family \in ToSet(families) /\ Family \notin ToSet(families')
      /\ ToSet(families') \subseteq ToSet(families)
      /\ families' \in {<<"ip", "ip6">>, <<"ip6">>, <<>>}
      /\ Len(families') = Len(families) - 1 /\ Len(families) \in Nat
  BY <1>1, <1>2, FamilyTurns DEF IInv
<1>4. /\ verdicts \in Seq(Verdicts) /\ new \in Seq(Verdicts) /\ Len(new) = Len(verdicts)
      /\ DOMAIN new = DOMAIN verdicts
      /\ \A i \in DOMAIN verdicts :
            /\ SameEndpoint(new[i], verdicts[i])
            /\ Concerned(verdicts[i], Family, results) =>
                  new[i].result = Meant(AnswerFor(results, verdicts[i].port))
            /\ ~Concerned(verdicts[i], Family, results) => new[i] = verdicts[i]
  BY ReconcileRows DEF IInv, RowsKept
<1> HIDE DEF new
<1>5. host' = host
  BY <1>1 DEF host
<1>6. PoolInv'
  BY <1>1, PoolStays DEF poolVars, pool, IInv
<1>7. Control'
  BY <1>1 DEF IInv, Control, Ended, poolVars
<1>8. Turns'
  BY <1>1, <1>2, <1>3 DEF IInv, Turns
<1>9. RowsKept'
  <2>1. \A i \in DOMAIN new : SameEndpoint(new[i], host.verdicts[i])
    BY <1>4 DEF IInv, RowsKept, SameEndpoint
  <2> QED
    BY <1>1, <1>2, <1>4, <1>5, <2>1 DEF IInv, RowsKept, Loaded
<1>10. AheadAsModelled'
  <2>1. \A i \in DOMAIN new : new[i].family = verdicts[i].family
    BY <1>4 DEF SameEndpoint
  <2>2. \A i \in DOMAIN new : new[i].family \in ToSet(families') =>
            verdicts[i].family \in ToSet(families) /\ ~Concerned(verdicts[i], Family, results)
    BY <1>3, <2>1 DEF Concerned
  <2> QED
    BY <1>1, <1>4, <1>5, <2>2 DEF IInv, AheadAsModelled
<1>11. ErrorsAreNoEvidence'
  <2> SUFFICES ASSUME NEW i \in DOMAIN verdicts, new[i] # host.verdicts[i]
               PROVE  /\ new[i].proto = "tcp"
                      /\ \E e \in evidence' :
                            e[1] = new[i].family /\ e[2] = new[i].port /\ e[3] # "error"
    BY <1>1, <1>4, <1>5 DEF ErrorsAreNoEvidence
  <2>1. SameEndpoint(new[i], verdicts[i])
    BY <1>4
  <2>2. CASE Concerned(verdicts[i], Family, results)
    <3>1. PICK s \in Slots : ports[s] = verdicts[i].port /\ results[s] # "error"
      BY <2>2, AnswerIsHeard DEF Concerned
    <3>2. <<Family, ports[s], results[s]>> \in evidence'
      BY <1>1
    <3> QED
      BY <2>1, <2>2, <3>1, <3>2 DEF Concerned, SameEndpoint
  <2>3. CASE ~Concerned(verdicts[i], Family, results)
    <3>1. new[i] = verdicts[i]
      BY <1>4, <2>3
    <3> QED
      BY <1>1, <3>1 DEF IInv, ErrorsAreNoEvidence
  <2> QED
    BY <2>2, <2>3
<1>12. OverrulesAreReported'
  <2> SUFFICES ASSUME NEW i \in DOMAIN verdicts,
                      host.verdicts[i].result \notin {"unknown", new[i].result}
               PROVE  <<host.verdicts[i].port, host.verdicts[i].family>> \in disagreements'
    BY <1>1, <1>4, <1>5 DEF OverrulesAreReported
  <2>1. CASE Concerned(verdicts[i], Family, results)
    <3>1. verdicts[i].family = Family
      BY <2>1 DEF Concerned
    <3>2. verdicts[i] = host.verdicts[i]
      BY <1>3, <3>1 DEF IInv, AheadAsModelled
    <3>3. verdicts[i] \in ToSet(verdicts)
      BY DEF ToSet
    <3>4. verdicts[i].result \notin {"unknown", Meant(AnswerFor(results, verdicts[i].port))}
      BY <1>4, <2>1, <3>2
    <3>5. <<verdicts[i].port, Family>> \in Overruled(verdicts, results, Family)
      BY <2>1, <3>3, <3>4 DEF Overruled
    <3> QED
      BY <1>1, <3>1, <3>2, <3>5
  <2>2. CASE ~Concerned(verdicts[i], Family, results)
    <3>1. new[i] = verdicts[i]
      BY <1>4, <2>2
    <3>2. <<host.verdicts[i].port, host.verdicts[i].family>> \in disagreements
      BY <3>1 DEF IInv, OverrulesAreReported
    <3> QED
      BY <1>1, <3>2
  <2> QED
    BY <2>1, <2>2
<1>13. HeardBehind'
  <2>1. ~Loading'
    BY <1>1 DEF Loading
  <2>2. ASSUME NEW e \in evidence
        PROVE  e[1] \notin ToSet(families') /\ (e[3] = "open" => OpenRow(e)')
    <3>1. e[1] \notin ToSet(families) /\ (e[3] = "open" => OpenRow(e))
      BY DEF IInv, HeardBehind
    <3>2. ASSUME e[3] = "open"
          PROVE  OpenRow(e)'
      <4>1. PICK i \in DOMAIN verdicts :
                /\ verdicts[i].proto = "tcp" /\ verdicts[i].family = e[1]
                /\ verdicts[i].port = e[2] /\ verdicts[i].result = "reachable"
        BY <3>1, <3>2 DEF OpenRow
      <4>2. ~Concerned(verdicts[i], Family, results)
        BY <1>3, <3>1, <4>1 DEF Concerned
      <4>3. i \in DOMAIN new /\ new[i] = verdicts[i]
        BY <1>4, <4>2
      <4> QED
        BY <1>1, <4>1, <4>3 DEF OpenRow
    <3> QED
      BY <1>3, <3>1, <3>2
  <2>3. ASSUME NEW e, NEW s \in Slots, e = <<Family, ports[s], results[s]>>, e[3] = "open"
        PROVE  OpenRow(e)'
    <3>0. e[1] = Family /\ e[2] = ports[s] /\ results[s] = "open"
      BY <2>3
    <3>1. /\ ToSet(ports) = TcpPortSet(verdicts, Family)
          /\ \A i, j \in Slots : ports[i] = ports[j] => i = j
      BY <1>2, <1>4, TcpPortsListed DEF Slots
    <3>2. ports[s] \in TcpPortSet(verdicts, Family)
      BY <3>1 DEF ToSet, Slots
    <3>3. PICK i \in DOMAIN verdicts :
              /\ verdicts[i].proto = "tcp" /\ verdicts[i].family = Family
              /\ verdicts[i].port = ports[s]
      BY <3>2 DEF TcpPortSet, ToSet
    <3>4. AnswerFor(results, ports[s]) = "open"
      <4> DEFINE Heard(j) == ports[j] = ports[s] /\ results[j] # "error"
                 slot == CHOOSE j \in Slots : Heard(j)
      <4>1. Heard(s)
        BY <3>0
      <4>2. slot \in Slots /\ Heard(slot)
        BY <4>1
      <4>3. slot = s
        BY <3>1, <4>2
      <4> QED
        BY <3>0, <4>1, <4>3 DEF AnswerFor
    <3>5. Concerned(verdicts[i], Family, results)
      BY <3>3, <3>4 DEF Concerned, None
    <3>6. i \in DOMAIN new /\ new[i].result = "reachable" /\ SameEndpoint(new[i], verdicts[i])
      BY <1>4, <3>3, <3>4, <3>5 DEF Meant
    <3> QED
      BY <1>1, <3>0, <3>3, <3>6 DEF OpenRow, SameEndpoint
  <2>4. ASSUME NEW e \in evidence'
        PROVE  e[1] \notin ToSet(families') /\ (e[3] = "open" => OpenRow(e)')
    <3>1. CASE e \in evidence
      BY <2>2, <3>1
    <3>2. CASE \E s \in Slots : e = <<Family, ports[s], results[s]>>
      <4>1. PICK s \in Slots : e = <<Family, ports[s], results[s]>>
        BY <3>2
      <4>2. e[1] = Family
        BY <4>1
      <4> QED
        BY <1>3, <2>3, <4>1, <4>2
    <3> QED
      BY <1>1, <3>1, <3>2
  <2> QED
    BY <2>1, <2>4 DEF HeardBehind
<1>14. PolicyFromFile'
  BY <1>1, <1>5 DEF IInv, PolicyFromFile, Ended, InPairs, Adopts, InitPolicy, EntryOf, With
<1>15. Outcome'
  BY <1>1 DEF Outcome, Ended
<1> QED
  BY <1>6, <1>7, <1>8, <1>9, <1>10, <1>11, <1>12, <1>13, <1>14, <1>15 DEF IInv

(***************************************************************************)
(* The other steps.                                                        *)
(***************************************************************************)
LEMMA PolicyInitKeepsInv ==
    ASSUME IInv, PolicyInit
    PROVE  IInv'
<1>1. /\ pc = "init" /\ pc' = "start"
      /\ file' = Complete \/ \E n \in 0 .. (Len(Complete) - 1) : file' \in CutShort(Complete, n)
      /\ UNCHANGED <<poolVars, request, policy, probing, printed, exit>>
  BY DEF PolicyInit
<1>2. host' = host
  BY <1>1 DEF host
<1>3. InPairs(file') /\ Adopts(file')
  BY <1>1, GeneratedFile DEF IInv, Control
<1>4. Adopts(file)'
  BY <1>1, <1>2, <1>3 DEF Adopts, InitPolicy, EntryOf, With
<1>5. PolicyFromFile'
  BY <1>1, <1>3, <1>4 DEF IInv, PolicyFromFile, InPairs
<1>6. PoolInv'
  BY <1>1, PoolStays DEF poolVars, pool, IInv
<1>7. Control' /\ Turns'
  BY <1>1 DEF IInv, Control, Turns, Ended, poolVars, probing
<1>8. RowsKept' /\ HeardBehind'
  BY <1>1, <1>2 DEF IInv, RowsKept, HeardBehind, Loaded, Loading, OpenRow, Ended, probing
<1>9. Outcome'
  BY <1>1 DEF Outcome, Ended
<1> QED
  BY <1>1, <1>5, <1>6, <1>7, <1>8, <1>9, RowsStay DEF IInv

LEMMA LoadPolicyKeepsInv ==
    ASSUME IInv, LoadPolicy
    PROVE  IInv'
<1>1. /\ pc = "start" /\ pc' = "load"
      /\ policy' = policy \/ (Load(file) # Refused /\ policy' = Load(file))
      /\ UNCHANGED <<poolVars, request, file, probing, printed, exit>>
  BY DEF LoadPolicy
<1>2. host' = host
  BY <1>1 DEF host
<1>3. PolicyFromFile'
  BY <1>1, <1>2 DEF IInv, PolicyFromFile, Ended, InPairs, Adopts, InitPolicy, EntryOf, With
<1>4. PoolInv'
  BY <1>1, PoolStays DEF poolVars, pool, IInv
<1>5. Control' /\ Turns'
  BY <1>1 DEF IInv, Control, Turns, Ended, poolVars, probing
<1>6. RowsKept' /\ HeardBehind'
  BY <1>1, <1>2 DEF IInv, RowsKept, HeardBehind, Loaded, Loading, OpenRow, Ended, probing
<1>7. Outcome'
  BY <1>1 DEF Outcome, Ended
<1> QED
  BY <1>1, <1>3, <1>4, <1>5, <1>6, <1>7, RowsStay DEF IInv

LEMMA LoadFactsKeepsInv ==
    ASSUME IInv, LoadFacts
    PROVE  IInv'
<1>1. /\ pc = "load" /\ verdicts' = host.verdicts
      /\ pc' = IF request.probeFrom THEN "families" ELSE "policy"
      /\ UNCHANGED <<poolVars, reading, families, probed, disagreements, evidence, printed, exit>>
  BY DEF LoadFacts
<1>2. host' = host /\ request' = request /\ host.verdicts \in Seq(Verdicts)
  BY <1>1, RequestsAssumption DEF host, reading, IInv, Control
<1>3. PoolInv'
  BY <1>1, PoolStays DEF poolVars, pool, IInv
<1>4. Control' /\ Turns'
  BY <1>1, <1>2 DEF IInv, Control, Turns, Ended, poolVars
<1>5. RowsKept'
  BY <1>1, <1>2 DEF RowsKept, SameEndpoint, Ended, IInv, Control
<1>6. AheadAsModelled' /\ ErrorsAreNoEvidence' /\ OverrulesAreReported'
  BY <1>1, <1>2 DEF AheadAsModelled, ErrorsAreNoEvidence, OverrulesAreReported
<1>7. HeardBehind'
  BY <1>1 DEF IInv, HeardBehind, Loading
<1>8. PolicyFromFile'
  BY <1>1, <1>2 DEF IInv, PolicyFromFile, reading, Ended, InPairs, Adopts, InitPolicy, EntryOf, With
<1>9. Outcome'
  BY <1>1 DEF Outcome, Ended
<1> QED
  BY <1>3, <1>4, <1>5, <1>6, <1>7, <1>8, <1>9 DEF IInv

LEMMA SkipFamilyKeepsInv ==
    ASSUME IInv, SkipFamily
    PROVE  IInv'
<1>1. /\ pc = "families" /\ families # <<>> /\ families' = Tail(families)
      /\ UNCHANGED <<poolVars, reading, pc, verdicts, probed, disagreements, evidence, printed, exit>>
  BY DEF SkipFamily
<1>2. host' = host
  BY <1>1 DEF host, reading
<1>3. /\ ToSet(families') \subseteq ToSet(families)
      /\ families' \in {<<"ip", "ip6">>, <<"ip6">>, <<>>}
      /\ Len(families') = Len(families) - 1 /\ Len(families) \in Nat
  BY <1>1, FamilyTurns DEF IInv
<1>4. PoolInv'
  BY <1>1, PoolStays DEF poolVars, pool, IInv
<1>5. Control' /\ Turns'
  BY <1>1, <1>3 DEF IInv, Control, Turns, Ended, poolVars, reading
<1>6. RowsKept'
  BY <1>1, <1>2 DEF IInv, RowsKept, Loaded, Ended, reading
<1>7. AheadAsModelled' /\ ErrorsAreNoEvidence' /\ OverrulesAreReported'
  BY <1>1, <1>2, <1>3 DEF IInv, AheadAsModelled, ErrorsAreNoEvidence, OverrulesAreReported
<1>8. HeardBehind'
  BY <1>1, <1>3 DEF IInv, HeardBehind, Loading, OpenRow
<1>9. PolicyFromFile'
  BY <1>1, <1>2 DEF IInv, PolicyFromFile, reading, Ended, InPairs, Adopts, InitPolicy, EntryOf, With
<1>10. Outcome'
  BY <1>1 DEF Outcome, Ended
<1> QED
  BY <1>4, <1>5, <1>6, <1>7, <1>8, <1>9, <1>10 DEF IInv

LEMMA StartRemoteKeepsInv ==
    ASSUME IInv, StartRemote
    PROVE  IInv'
<1>1. /\ pc = "families" /\ pc' = "remote" /\ families # <<>>
      /\ StartPool(globalAddr(Family), tcpPorts(verdicts, Family))
      /\ UNCHANGED <<network, reading, probing, printed, exit>>
  BY DEF StartRemote
<1>2. host' = host /\ Family' = Family
  BY <1>1 DEF host, reading, probing, Family
<1>3. PoolInv'
  BY <1>1, TcpPortsListed, StartedPool DEF IInv, RowsKept
<1>4. ports' = tcpPorts(verdicts, Family)'
  BY <1>1, <1>2 DEF StartPool, probing
<1>5. Control'
  BY <1>1 DEF IInv, Control, Ended, reading
<1>6. Turns'
  BY <1>1, <1>4 DEF IInv, Turns, reading, probing
<1>7. RowsKept' /\ HeardBehind'
  BY <1>1, <1>2 DEF IInv, RowsKept, HeardBehind, Loaded, Loading, OpenRow, Ended, probing, reading
<1>8. PolicyFromFile'
  BY <1>1, PolicyStays DEF reading
<1>9. Outcome'
  BY <1>1 DEF Outcome, Ended
<1>10. AheadAsModelled' /\ ErrorsAreNoEvidence' /\ OverrulesAreReported'
  BY <1>1, RowsStay DEF reading
<1> QED
  BY <1>3, <1>5, <1>6, <1>7, <1>8, <1>9, <1>10 DEF IInv

LEMMA AllProbedKeepsInv ==
    ASSUME IInv, AllProbed
    PROVE  IInv'
<1>1. /\ pc = "families" /\ pc' = "policy"
      /\ UNCHANGED <<poolVars, reading, probing, printed, exit>>
  BY DEF AllProbed
<1>2. host' = host
  BY <1>1 DEF host, reading
<1>3. PoolInv'
  BY <1>1, PoolStays DEF poolVars, pool, IInv
<1>4. Control' /\ Turns'
  BY <1>1 DEF IInv, Control, Turns, Ended, poolVars, probing, reading
<1>5. RowsKept' /\ HeardBehind'
  BY <1>1, <1>2 DEF IInv, RowsKept, HeardBehind, Loaded, Loading, OpenRow, Ended, probing, reading
<1>6. PolicyFromFile'
  BY <1>1, PolicyStays
<1>7. Outcome'
  BY <1>1 DEF Outcome, Ended
<1>8. AheadAsModelled' /\ ErrorsAreNoEvidence' /\ OverrulesAreReported'
  BY <1>1, RowsStay DEF reading
<1> QED
  BY <1>3, <1>4, <1>5, <1>6, <1>7, <1>8 DEF IInv

LEMMA ExitCodes ==
    ASSUME NEW unreadable, NEW res
    PROVE  checkExitCode(unreadable, res) \in {exitOK, exitViolation, exitUnknown, exitError}
BY DEF checkExitCode

LEMMA JudgeKeepsInv ==
    ASSUME IInv, Judge
    PROVE  IInv'
<1>1. /\ pc = "policy" /\ pc' = "ended"
      /\ exit' = checkExitCode(host.readFailed, Result)
      /\ \E json \in BOOLEAN, explain \in Explained :
            printed' = Printed(json, explain, verdicts, host.notes, Result,
                               IF request.probeFrom THEN <<disagreements>> ELSE <<>>)
      /\ UNCHANGED <<poolVars, reading, probing>>
  BY DEF Judge, Exit, Result
<1>2. host' = host
  BY <1>1 DEF host, reading
<1>3. Result' = Result
  BY <1>1, <1>2 DEF Result, Judgement, Violations, Stale, Unknown, With, reading, probing
<1>4. Outcome'
  BY <1>1, <1>2, <1>3 DEF Outcome, reading, probing
<1>5. exit' \in {exitOK, exitViolation, exitUnknown, exitError} /\ exit' # Running
  BY <1>1, ExitCodes DEF exitOK, exitViolation, exitUnknown, exitError, Running
<1>6. PoolInv'
  BY <1>1, PoolStays DEF poolVars, pool, IInv
<1>7. Control' /\ Turns'
  BY <1>1, <1>5 DEF IInv, Control, Turns, Ended, poolVars, probing, reading
<1>8. RowsKept' /\ HeardBehind'
  BY <1>1, <1>2 DEF IInv, RowsKept, HeardBehind, Loaded, Loading, OpenRow, Ended, probing, reading
<1>9. PolicyFromFile'
  BY <1>1, PolicyStays
<1>10. AheadAsModelled' /\ ErrorsAreNoEvidence' /\ OverrulesAreReported'
  BY <1>1, RowsStay DEF reading
<1> QED
  BY <1>4, <1>6, <1>7, <1>8, <1>9, <1>10 DEF IInv

\* A step of the pool alone.
LEMMA CheckingStays ==
    ASSUME IInv, PoolInv', UNCHANGED <<checking, network, ports>>
    PROVE  IInv'
<1>1. UNCHANGED <<reading, probing, pc, printed, exit, request>>
  BY DEF checking, reading
<1>2. host' = host /\ Family' = Family /\ UNCHANGED <<verdicts, families, probed, evidence>>
  BY <1>1 DEF host, probing, Family
<1>3. tcpPorts(verdicts, Family)' = tcpPorts(verdicts, Family)
  BY <1>2
<1>4. Control' /\ Turns'
  BY <1>1, <1>2, <1>3 DEF IInv, Control, Turns, Ended
<1>5. RowsKept' /\ HeardBehind'
  BY <1>1, <1>2 DEF IInv, RowsKept, HeardBehind, Loaded, Loading, OpenRow, Ended
<1>6. PolicyFromFile'
  BY <1>1, <1>2 DEF IInv, PolicyFromFile, reading, Ended, InPairs, Adopts, InitPolicy, EntryOf, With
<1>7. Result' = Result
  BY <1>1, <1>2 DEF Result, Judgement, Violations, Stale, Unknown, With, reading
<1>8. Outcome'
  BY <1>1, <1>2, <1>7 DEF IInv, Outcome, Ended, probing
<1>9. AheadAsModelled' /\ ErrorsAreNoEvidence' /\ OverrulesAreReported'
  BY <1>1, RowsStay
<1> QED
  BY <1>4, <1>5, <1>6, <1>8, <1>9 DEF IInv

LEMMA RemoteKeepsInv ==
    ASSUME IInv, RemoteStep
    PROVE  IInv'
<1>1. PoolInv'
  BY GoroutineKeepsPool, ReceiveKeepsPool DEF RemoteStep, IInv
<1>2. UNCHANGED <<checking, network, ports>>
  BY DEF RemoteStep, Receive, Goroutine, Acquire, Dial, Announce, Release
<1> QED
  BY <1>1, <1>2, CheckingStays

LEMMA NothingChanges ==
    ASSUME IInv, UNCHANGED vars
    PROVE  IInv'
<1>1. PoolInv'
  BY PoolStays DEF IInv, vars, poolVars, pool
<1>2. UNCHANGED <<checking, network, ports>>
  BY DEF vars, poolVars, pool
<1> QED
  BY <1>1, <1>2, CheckingStays

LEMMA StepKeepsInv ==
    ASSUME IInv, Next
    PROVE  IInv'
<1>1. CASE PolicyInit
  BY <1>1, PolicyInitKeepsInv
<1>2. CASE PolicyInitRefuses
  BY <1>2, FailingKeepsInv DEF PolicyInitRefuses
<1>3. CASE LoadPolicy
  BY <1>3, LoadPolicyKeepsInv
<1>4. CASE PolicyRefused
  BY <1>4, FailingKeepsInv DEF PolicyRefused
<1>5. CASE LoadFacts
  BY <1>5, LoadFactsKeepsInv
<1>6. CASE SkipFamily
  BY <1>6, SkipFamilyKeepsInv
<1>7. CASE StartRemote
  BY <1>7, StartRemoteKeepsInv
<1>8. CASE RemoteRefuses
  BY <1>8, FailingKeepsInv DEF RemoteRefuses
<1>9. CASE RemoteAnswers
  BY <1>9, AnswersKeepInv
<1>10. CASE AllProbed
  BY <1>10, AllProbedKeepsInv
<1>11. CASE NothingToProbe
  BY <1>11, FailingKeepsInv DEF NothingToProbe
<1>12. CASE Judge
  BY <1>12, JudgeKeepsInv
<1>13. CASE PolicyInitFails
  BY <1>13, FailingKeepsInv DEF PolicyInitFails
<1>14. CASE LoadFails
  BY <1>14, FailingKeepsInv DEF LoadFails
<1>15. CASE RemoteFails
  BY <1>15, FailingKeepsInv DEF RemoteFails
<1>16. CASE WriteFails
  BY <1>16, FailingKeepsInv DEF WriteFails
<1>17. CASE RemoteStep
  BY <1>17, RemoteKeepsInv
<1> QED
  BY <1>1, <1>2, <1>3, <1>4, <1>5, <1>6, <1>7, <1>8, <1>9, <1>10, <1>11, <1>12, <1>13, <1>14,
     <1>15, <1>16, <1>17 DEF Next, Progress, Failure

\* The invariant above is one, whatever probeThisHost and runCheck are
\* interrupted by.
THEOREM Invariance == Spec => []IInv
<1>1. Init => IInv
  BY InitialInv
<1>2. IInv /\ [Next]_vars => IInv'
  BY StepKeepsInv, NothingChanges
<1> QED
  BY <1>1, <1>2, PTL DEF Spec

(***************************************************************************)
(* What the invariant says of the run.                                     *)
(***************************************************************************)
LEMMA PolicyShape ==
    ASSUME PolicyFromFile
    PROVE  /\ policy.allow \subseteq PortNumbers \X Protos
           /\ policy.given \in BOOLEAN /\ policy.failOnUnknown \in BOOLEAN
           /\ policy.given => /\ policy = Load(file) /\ Load(file) # Refused
                              /\ policy.allow = Values(file, "allow")
           /\ ~policy.given => policy = NoPolicy
<1>1. CASE policy = NoPolicy
  BY <1>1 DEF NoPolicy
<1>2. CASE Load(file) # Refused /\ policy = Load(file)
  <2>1. /\ Accepted(file)
        /\ policy = [allow |-> Values(file, "allow"),
                     failOnUnknown |-> TRUE \in Values(file, "fail_on_unknown"), given |-> TRUE]
    BY <1>2 DEF Load
  <2>2. ASSUME NEW e \in Values(file, "allow")
        PROVE  e \in PortNumbers \X Protos
    <3>1. e = <<e[1], e[2]>>
      BY DEF PolicyFromFile, InPairs, Values, Entry
    <3>2. e[1] \in PortNumbers /\ e[2] \in Protos
      BY <2>1 DEF Accepted, ParsesEntry
    <3> QED
      BY <3>1, <3>2
  <2>3. policy.allow = Values(file, "allow") /\ policy.given
    BY <2>1
  <2>4. policy.given \in BOOLEAN /\ policy.failOnUnknown \in BOOLEAN
    BY <2>1
  <2> QED
    BY <1>2, <2>2, <2>3, <2>4
<1> QED
  BY <1>1, <1>2 DEF PolicyFromFile

LEMMA JudgedExit ==
    ASSUME Outcome, Judged
    PROVE  /\ ~host.readFailed /\ Result = <<Judgement(policy, verdicts)>>
           /\ exit = IF Violations(policy, verdicts) # {} THEN exitViolation
                     ELSE IF policy.failOnUnknown /\ (Unknown(verdicts) # {} \/ host.notes)
                     THEN exitUnknown ELSE exitOK
<1>1. exit = checkExitCode(host.readFailed, Result) /\ exit # exitError
  BY DEF Outcome, Judged
<1>2. Result = <<Judgement(policy, verdicts)>>
  BY DEF Judged, Result
<1>3. ~host.readFailed
  BY <1>1 DEF checkExitCode
<1>4. Result # <<>> /\ Result[1] = Judgement(policy, verdicts)
  BY <1>2
<1>5. exit = IF Result[1].violations # {} THEN exitViolation
             ELSE IF Result[1].failOnUnknown /\ (Result[1].unknown # {} \/ Result[1].unreadable)
             THEN exitUnknown ELSE exitOK
  BY <1>1, <1>3, <1>4 DEF checkExitCode
<1> QED
  BY <1>2, <1>3, <1>4, <1>5 DEF Judgement

LEMMA RowsHaveResults ==
    ASSUME NEW vs \in Seq(Verdicts)
    PROVE  \A v \in ToSet(vs) : v.result \in Results
<1>1. ToSet(vs) \subseteq Verdicts
  BY ToSetIsFinite
<1>2. \A v \in Verdicts : v.result \in Results
  BY DEF Verdicts
<1> QED
  BY <1>1, <1>2

LEMMA WorstFirstKeeps ==
    ASSUME NEW vs \in Seq(Verdicts)
    PROVE  worstFirst(vs) \in Seq(Verdicts) /\ ToSet(worstFirst(vs)) = ToSet(vs)
<1> DEFINE Of(result) == {v \in ToSet(vs) : v.result = result}
           a == Sublist(vs, Of("reachable"))
           b == Sublist(vs, Of("unknown"))
           c == Sublist(vs, Of("filtered"))
<1>1. /\ a \in Seq(Verdicts) /\ ToSet(a) = ToSet(vs) \intersect Of("reachable")
      /\ b \in Seq(Verdicts) /\ ToSet(b) = ToSet(vs) \intersect Of("unknown")
      /\ c \in Seq(Verdicts) /\ ToSet(c) = ToSet(vs) \intersect Of("filtered")
  BY SublistSelects
<1>2. worstFirst(vs) = (a \o b) \o c
  BY DEF worstFirst
<1> DEFINE ab == a \o b  abc == ab \o c
<1> HIDE DEF a, b, c, ab, abc
<1>3. ab \in Seq(Verdicts) /\ ToSet(ab) = ToSet(a) \union ToSet(b)
  BY <1>1, ToSetOfConcat DEF ab
<1>4. abc \in Seq(Verdicts) /\ ToSet(abc) = ToSet(ab) \union ToSet(c)
  BY <1>1, <1>3, ToSetOfConcat DEF abc
<1>5. \A v \in ToSet(vs) : v.result \in Results
  BY RowsHaveResults
<1>6. ToSet(a) \union ToSet(b) \union ToSet(c) = ToSet(vs)
  BY <1>1, <1>5 DEF Results
<1> QED
  BY <1>2, <1>3, <1>4, <1>6 DEF ab, abc

LEMMA OnPortKeeps ==
    ASSUME NEW vs \in Seq(Verdicts), NEW port
    PROVE  /\ onPort(vs, port) \in Seq(Verdicts)
           /\ ToSet(onPort(vs, port)) = {v \in ToSet(vs) : v.port = port}
<1> DEFINE T == {v \in ToSet(vs) : v.port = port}
<1>1. Sublist(vs, T) \in Seq(Verdicts) /\ ToSet(Sublist(vs, T)) = ToSet(vs) \intersect T
  BY SublistSelects
<1> QED
  BY <1>1 DEF onPort

\* The rows printed are all of them, or all of one port.
LEMMA RowsPrinted ==
    ASSUME NEW json \in BOOLEAN, NEW explain, NEW vs \in Seq(Verdicts),
           NEW notes, NEW judgement, NEW probe
    PROVE  \A v : v \in ToSet(Printed(json, explain, vs, notes, judgement, probe).rows)
                    <=> v \in ToSet(vs) /\ (explain = 0 \/ v.port = explain)
<1> DEFINE page == Printed(json, explain, vs, notes, judgement, probe)
<1>1. page.rows = IF explain = 0 THEN worstFirst(vs)
                  ELSE IF json THEN worstFirst(onPort(vs, explain)) ELSE onPort(vs, explain)
  BY DEF Printed
<1> HIDE DEF page
<1>2. ToSet(worstFirst(vs)) = ToSet(vs)
  BY WorstFirstKeeps
<1> DEFINE some == onPort(vs, explain)
<1>3. some \in Seq(Verdicts) /\ ToSet(some) = {v \in ToSet(vs) : v.port = explain}
  BY OnPortKeeps
<1> HIDE DEF some
<1>4. ToSet(worstFirst(some)) = ToSet(some)
  BY <1>3, WorstFirstKeeps
<1>5. CASE explain = 0
  BY <1>1, <1>2, <1>5 DEF page
<1>6. CASE explain # 0
  <2>1. ToSet(page.rows) = ToSet(some)
    BY <1>1, <1>4, <1>6 DEF some
  <2> QED
    BY <1>3, <1>6, <2>1 DEF page
<1> QED
  BY <1>5, <1>6

\* The states of a run are those TypeOK describes, for every request and pool
\* (main.go runCheck, probe.go probeThisHost).
THEOREM Types == Spec => []TypeOK
<1>1. ASSUME IInv
      PROVE  TypeOK
  <2>1. PoolTypeOK
    BY <1>1, PoolTypes DEF IInv
  <2>2. policy.allow \subseteq PortNumbers \X Protos
    BY <1>1, PolicyShape DEF IInv
  <2>3. \A v \in ToSet(verdicts) : v.result \in Results
    BY <1>1, RowsHaveResults DEF IInv, RowsKept
  <2> QED
    BY <1>1, <2>1, <2>2, <2>3 DEF IInv, Control, Turns, RowsKept, TypeOK
<1> QED
  BY <1>1, Invariance, PTL

\* When Run returns, the slot of every port holds that port's answer, however
\* many ports there are, however few goroutines may dial at a time and in
\* whatever order they finish (probe.go:109-135).
THEOREM PoolIsComplete == Spec => []ResultsComplete
<1>1. IInv => ResultsComplete
  BY CompleteWhenReturned DEF IInv
<1> QED
  BY <1>1, Invariance, PTL

\* A row differs from what was modelled only where a probe of that family and
\* port heard something (reconcile.go:22-32).
THEOREM SilenceChangesNothing == Spec => []ErrorsAreNoEvidence
<1>1. IInv => ErrorsAreNoEvidence
  BY DEF IInv
<1> QED
  BY <1>1, Invariance, PTL

\* Every overruled row is reported, for its own family (reconcile.go:9-13).
THEOREM OverrulesAreTold == Spec => []OverrulesAreReported
<1>1. IInv => OverrulesAreReported
  BY DEF IInv
<1> QED
  BY <1>1, Invariance, PTL

\* A port found open that the policy does not allow ends the run with a
\* violation, whatever the second family answered (README.md:253-254).
THEOREM RealityIsJudged == Spec => []RealityReachesThePolicy
<1>1. ASSUME IInv
      PROVE  RealityReachesThePolicy
  <2> SUFFICES ASSUME Judged, NEW port \in OpenPorts, <<port, "tcp">> \notin policy.allow
               PROVE  exit = exitViolation
    BY DEF RealityReachesThePolicy
  <2>1. PICK e \in evidence : e[3] = "open" /\ e[2] = port
    BY DEF OpenPorts
  <2>2. PICK i \in DOMAIN verdicts :
            verdicts[i].proto = "tcp" /\ verdicts[i].port = port /\ verdicts[i].result = "reachable"
    BY <1>1, <2>1 DEF IInv, HeardBehind, OpenRow
  <2>3. verdicts[i] \in Violations(policy, verdicts)
    BY <2>2 DEF Violations, With, ToSet, EntryOf
  <2> QED
    BY <1>1, <2>3, JudgedExit DEF IInv
<1> QED
  BY <1>1, Invariance, PTL

\* A green run leaves nothing undecided that its policy fails on, and was not
\* blind (main.go:364-367).
THEOREM GreenIsSafe == Spec => []GreenIsEarned
<1>1. ASSUME IInv
      PROVE  GreenIsEarned
  <2> SUFFICES ASSUME Ended, exit = exitOK
               PROVE  /\ ~host.readFailed
                      /\ policy.given => Violations(policy, verdicts) = {}
                      /\ policy.failOnUnknown => Unknown(verdicts) = {} /\ ~host.notes
    BY DEF GreenIsEarned
  <2>1. exit # exitError /\ exitOK # exitViolation /\ exitOK # exitUnknown
    BY DEF exitOK, exitError, exitViolation, exitUnknown
  <2>2. exit = checkExitCode(host.readFailed, Result)
    BY <1>1, <2>1 DEF IInv, Outcome
  <2>3. ~host.readFailed
    BY <2>1, <2>2 DEF checkExitCode
  <2>4. CASE policy.given
    <3>1. exit = IF Violations(policy, verdicts) # {} THEN exitViolation
                 ELSE IF policy.failOnUnknown /\ (Unknown(verdicts) # {} \/ host.notes)
                 THEN exitUnknown ELSE exitOK
      BY <1>1, <2>1, <2>4, JudgedExit DEF IInv, Judged
    <3> QED
      BY <2>1, <2>3, <3>1
  <2>5. CASE ~policy.given
    <3>1. policy = NoPolicy
      BY <1>1, <2>5, PolicyShape DEF IInv
    <3> QED
      BY <2>3, <2>5, <3>1 DEF NoPolicy
  <2> QED
    BY <2>4, <2>5
<1> QED
  BY <1>1, Invariance, PTL

\* What policy init generates passes the host it was generated from, and what
\* is left of it when it is cut off never allows more (init.go:11-15, 41-52).
THEOREM AdoptionIsSafe == Spec => []AdoptedPolicyFits
<1>1. ASSUME IInv
      PROVE  AdoptedPolicyFits
  <2> SUFFICES ASSUME request.file = Generated, policy.given
               PROVE  /\ \A e \in policy.allow :
                             \E v \in With(host.verdicts, "reachable") : EntryOf(v) = e
                      /\ Judged /\ ~request.probeFrom /\ file = Complete =>
                            /\ exit = IF Unknown(verdicts) # {} \/ host.notes
                                      THEN exitUnknown ELSE exitOK
                            /\ Stale(policy, verdicts) = {}
    BY DEF AdoptedPolicyFits
  <2>1. /\ policy = Load(file) /\ Load(file) # Refused /\ policy.allow = Values(file, "allow")
        /\ policy # NoPolicy
    BY <1>1, PolicyShape DEF IInv, NoPolicy
  <2>2. Adopts(file)
    BY <1>1, <2>1 DEF IInv, PolicyFromFile
  <2>3. \A e \in policy.allow : \E v \in With(host.verdicts, "reachable") : EntryOf(v) = e
    BY <2>1, <2>2 DEF Adopts, InitPolicy
  <2>4. ASSUME Judged, ~request.probeFrom, file = Complete
        PROVE  /\ exit = IF Unknown(verdicts) # {} \/ host.notes THEN exitUnknown ELSE exitOK
               /\ Stale(policy, verdicts) = {}
    <3>1. policy = InitPolicy(host.verdicts)
      BY <1>1, <2>1, <2>4, CompleteLoads DEF IInv, Control
    <3>2. verdicts = host.verdicts
      BY <1>1, <2>4 DEF IInv, RowsKept, Loaded, Judged
    <3>3. policy.failOnUnknown /\ policy.allow = {EntryOf(v) : v \in With(verdicts, "reachable")}
      BY <3>1, <3>2 DEF InitPolicy
    <3>4. Violations(policy, verdicts) = {}
      BY <3>3 DEF Violations
    <3>5. Stale(policy, verdicts) = {}
      BY <3>3 DEF Stale
    <3> QED
      BY <1>1, <2>4, <3>3, <3>4, <3>5, JudgedExit DEF IInv
  <2> QED
    BY <2>3, <2>4
<1> QED
  BY <1>1, Invariance, PTL

\* Whatever form the output takes, it says why the run ended as it did, and no
\* row contradicts what the policy block names (report/policy.go:11-13).
THEOREM OutputExplainsTheExit == Spec => []ExitIsExplained
<1>1. ASSUME IInv
      PROVE  ExitIsExplained
  <2> DEFINE block == printed.policy[1]
             named == IF printed.form = "text" THEN block.violation ELSE block.violations
             J == Judgement(policy, verdicts)
  <2> SUFFICES ASSUME Judged
               PROVE  /\ exit = ReadOff(block, printed.form)
                      /\ \A v \in named \union block.unknown :
                            \/ v \in ToSet(printed.rows)
                            \/ \A r \in ToSet(printed.rows) : r.port # v.port
    BY DEF ExitIsExplained
  <2> DEFINE probe == IF request.probeFrom THEN <<disagreements>> ELSE <<>>
  <2>1. PICK json \in BOOLEAN, explain \in Explained :
            printed = Printed(json, explain, verdicts, host.notes, Result, probe)
    BY <1>1 DEF IInv, Outcome, Judged
  <2> HIDE DEF probe
  <2>2. Result = <<J>>
    BY <1>1, JudgedExit DEF IInv
  <2>3. /\ J.violations = Violations(policy, verdicts) /\ J.unknown = Unknown(verdicts)
        /\ J.unreadable = host.notes /\ J.failOnUnknown = policy.failOnUnknown
    BY DEF Judgement
  <2>4. exit = IF J.violations # {} THEN exitViolation
               ELSE IF J.failOnUnknown /\ (J.unknown # {} \/ J.unreadable)
               THEN exitUnknown ELSE exitOK
    BY <1>1, <2>3, JudgedExit DEF IInv
  <2>5. J.violations \subseteq ToSet(verdicts) /\ J.unknown \subseteq ToSet(verdicts)
    BY <2>3 DEF Violations, Unknown, With
  <2> HIDE DEF J
  <2>6. /\ printed.form = IF json THEN "json" ELSE "text"
        /\ block = IF json THEN J ELSE Policy(J)
    BY <2>1, <2>2 DEF Printed, jsonPolicy
  <2>7. \A v : v \in ToSet(printed.rows)
                 <=> v \in ToSet(verdicts) /\ (explain = 0 \/ v.port = explain)
    <3>1. verdicts \in Seq(Verdicts)
      BY <1>1 DEF IInv, RowsKept
    <3>2. \A v : v \in ToSet(Printed(json, explain, verdicts, host.notes, Result, probe).rows)
                   <=> v \in ToSet(verdicts) /\ (explain = 0 \/ v.port = explain)
      BY <3>1, RowsPrinted
    <3> QED
      BY <2>1, <3>2
  <2> HIDE DEF block
  <2>8. exit = ReadOff(block, printed.form)
    <3>1. CASE json
      BY <2>4, <2>6, <3>1 DEF ReadOff
    <3>2. CASE ~json
      BY <2>4, <2>6, <3>2 DEF ReadOff, Policy
    <3> QED
      BY <3>1, <3>2
  <2>9. named \union block.unknown \subseteq ToSet(verdicts)
    <3>1. CASE json
      BY <2>5, <2>6, <3>1
    <3>2. CASE ~json
      BY <2>5, <2>6, <3>2 DEF Policy
    <3> QED
      BY <3>1, <3>2
  <2> QED
    BY <2>7, <2>8, <2>9
<1> QED
  BY <1>1, Invariance, PTL
=============================================================================
