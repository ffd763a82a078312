------------------------------- MODULE Evaluate ------------------------------
(***************************************************************************)
(* From a facts snapshot to one verdict per endpoint and address family    *)
(* (internal/model/evaluate.go).                                           *)
(*                                                                         *)
(* What the rules say is a parameter: HookResult is what Traverse returns  *)
(* for a hook and a packet, and Forwarded are the ports of the endpoints   *)
(* that forwards derives.  A set of addresses stands for a subnet.         *)
(***************************************************************************)
EXTENDS FiniteSets, Lists

CONSTANTS
    Inputs,               \* the snapshots under study
    HookResult(_, _, _),  \* HookResult(ruleset, hook, packet) = [kind, dnat]
    Forwarded(_),         \* the [family, proto, port] forwards finds in a ruleset
    SrcOf(_),             \* the zone's source address, by family
    Unmap(_)              \* the IPv4 address of one in IPv6 form, else the address itself

(* A snapshot lists interfaces and their addresses in an order.  A socket  *)
(* is its family, protocol, address and port; "::" comes only from the     *)
(* tables of IPv6 (collect/sockets.go:66-119).                             *)
ASSUME SnapshotsAssumption ==
    \A f \in Inputs :
        /\ f.ifaces \in Seq(Range(f.ifaces))
        /\ \A i \in Range(f.ifaces) : i.addrs \in Seq(Range(i.addrs))
        /\ \A s \in f.sockets \union f.publishes :
              s = [family |-> s.family, proto |-> s.proto, bind |-> s.bind, port |-> s.port]
        /\ \A s \in f.sockets : s.bind = "::" => s.family = "ip6"

VARIABLES
    facts,     \* the snapshot
    pc,        \* "rows", "row", "prerouting", "second", "pick" or "done"
    todo,      \* the rows still to evaluate: <<endpoint, family>>
    row,       \* the row under evaluation
    left,      \* its destinations still to try, in order
    pkt,       \* the packet sent to the first of them
    hook,      \* the hook walked after prerouting
    results,   \* the results of the destinations tried
    verdicts   \* the rows evaluated: [ep, family, result]
vars == <<facts, pc, todo, row, left, pkt, hook, results, verdicts>>

NoDNAT == [ip |-> "", port |-> 0]
NoRow  == <<>>
NoPkt  == [proto |-> ""]
Wildcards == {"0.0.0.0", "::", "[::]", ""}

(***************************************************************************)
(* The host                                                                *)
(***************************************************************************)
Up(f) == {i \in DOMAIN f.ifaces : f.ifaces[i].up}

PublicOf(iface, fam) == {a \in Range(iface.addrs) : a.family = fam /\ a.global}

(* publicAddrs: in the order of interfaces, then of addresses.             *)
PublicAddrs(f, fam) ==
    FlattenSeq([i \in DOMAIN f.ifaces |->
        IF ~f.ifaces[i].up THEN <<>>
        ELSE LET public == Sublist(f.ifaces[i].addrs, PublicOf(f.ifaces[i], fam))
             IN  [j \in DOMAIN public |-> [ip |-> public[j].ip, iface |-> f.ifaces[i].name]]])

BindCovers(bind, ip) == bind \in Wildcards \/ Unmap(bind) = Unmap(ip)

IsLocal(f, ip) == \E i \in Up(f) : \E a \in Range(f.ifaces[i].addrs) : a.ip = ip

(* ifaceFor: the first interface whose subnet holds the address.           *)
IfaceFor(f, ip) ==
    LET holds == {i \in Up(f) : \E a \in Range(f.ifaces[i].addrs) : ip \in a.net}
    IN  {f.ifaces[i].name : i \in {j \in holds : \A k \in holds : j <= k}}

(* forwarding: the global switch, or that of the device it arrived on.     *)
GlobalForwarding(f, fam) == IF fam = "ip6" THEN f.forward6 ELSE f.forward4
ForwardingOnlyGlobal(f, iface, fam) == GlobalForwarding(f, fam)
Forwarding(f, iface, fam) ==
    \/ GlobalForwarding(f, fam)
    \/ \E i \in DOMAIN f.ifaces :
          /\ f.ifaces[i].name = iface
          /\ IF fam = "ip6" THEN f.ifaces[i].forward6 ELSE f.ifaces[i].forward4

(* routeDevFor: the device of the longest prefix, unless two disagree.     *)
RouteDevFor(f, fam, ip) ==
    LET to   == {r \in f.routes : r.family = fam /\ ip \in r.net}
        best == {r.dev : r \in {s \in to : \A t \in to : t.len <= s.len}}
    IN  IF Cardinality(best) = 1 THEN CHOOSE d \in best : TRUE ELSE ""

(***************************************************************************)
(* Endpoints and rows                                                      *)
(***************************************************************************)
Endpoint(kind, family, proto, bind, port) ==
    [kind |-> kind, family |-> family, proto |-> proto, bind |-> bind, port |-> port]
SamePort(e, g) == e.proto = g.proto /\ e.port = g.port
SameKey(e, g)  == SamePort(e, g) /\ e.family = g.family /\ e.bind = g.bind

Sockets(f)   == {Endpoint("socket", s.family, s.proto, s.bind, s.port) : s \in f.sockets}
Publishes(f) == {Endpoint("publish", p.family, p.proto, p.bind, p.port) : p \in f.publishes}

(* A publish replaces the socket of its key. *)
OnThisHost(f) ==
    Publishes(f) \union {s \in Sockets(f) : \A p \in Publishes(f) : ~SameKey(s, p)}

(* A forwarded port with any row keeps that row. *)
ForwardsLeft(f) ==
    {e \in {Endpoint("forward", w.family, w.proto, "", w.port) : w \in Forwarded(f.ruleset)} :
        \A h \in OnThisHost(f) : ~SamePort(e, h)}

Endpoints(f) == OnThisHost(f) \union ForwardsLeft(f)

(* familiesFor: a dual-stack socket serves both families, unless a         *)
(* wildcard IPv4 socket has the port.                                      *)
WildcardIPv4(f, e) ==
    \E w \in Endpoints(f) :
        w.kind = "socket" /\ w.family = "ip" /\ w.bind = "0.0.0.0" /\ SamePort(w, e)

DualStack(f, e) ==
    e.kind = "socket" /\ e.family = "ip6" /\ e.bind \in {"::", "[::]"} /\ ~f.v6only

FamiliesOfBind(f, e) == {e.family}
FamiliesFor(f, e) ==
    IF DualStack(f, e) /\ ~WildcardIPv4(f, e) THEN {"ip", "ip6"} ELSE {e.family}

Rows(f) == UNION {{e} \X FamiliesFor(f, e) : e \in Endpoints(f)}

(* resultRank: the first strict improvement over the results so far. *)
Rank(r) == CASE r = "reachable" -> 2 [] r = "unknown" -> 1 [] OTHER -> 0
Best(rs) ==
    LET best == {i \in DOMAIN rs : \A j \in DOMAIN rs : Rank(rs[j]) <= Rank(rs[i])}
    IN  rs[CHOOSE i \in best : \A j \in best : i <= j]

(***************************************************************************)
(* The evaluation                                                          *)
(***************************************************************************)
Sent(f, fam, proto, port, c) ==
    [family |-> fam, proto |-> proto, src |-> SrcOf(fam), dst |-> c.ip, dport |-> port,
     iif |-> c.iface, oif |-> "", dstIsLocal |-> TRUE, dnatApplied |-> FALSE,
     srcRouteDev |-> RouteDevFor(f, fam, SrcOf(fam))]

SentFor(f, r, cs) == IF cs = <<>> THEN NoPkt ELSE Sent(f, r[2], r[1].proto, r[1].port, cs[1])

Rewritten(f, p, dnat) ==
    [p EXCEPT !.dst = dnat.ip, !.dport = dnat.port, !.dstIsLocal = IsLocal(f, dnat.ip),
              !.dnatApplied = TRUE]
RoutedNowhere(f, p) == p
Routed(f, p) == [p EXCEPT !.oif = CHOOSE i \in IfaceFor(f, p.dst) : TRUE]

Init ==
    /\ facts \in Inputs
    /\ pc = "rows"
    /\ todo = {} /\ row = NoRow /\ left = <<>> /\ pkt = NoPkt /\ hook = "" /\ results = <<>>
    /\ verdicts = {}

ListRows ==
    /\ pc = "rows"
    /\ todo' = Rows(facts)
    /\ pc' = "row"
    /\ UNCHANGED <<facts, row, left, pkt, hook, results, verdicts>>

NeverBlind(f) == FALSE
Blind(f)      == f.readFailed
Covered(r)    ==
    LET public == PublicAddrs(facts, r[2])
    IN  Sublist(public, {c \in Range(public) : BindCovers(r[1].bind, c.ip)})

JudgeEndpoint(r, result) ==
    /\ verdicts' = verdicts \union {[ep |-> r[1], family |-> r[2], result |-> result]}
    /\ todo' = {x \in todo : x[1] # r[1]}

Judge(r, result) ==
    /\ verdicts' = verdicts \union {[ep |-> r[1], family |-> r[2], result |-> result]}
    /\ todo' = todo \ {r}

JudgedUnsent(r, result) ==
    /\ pc = "row"
    /\ r \in todo
    /\ Judge(r, result)
    /\ UNCHANGED <<facts, pc, row, left, pkt, hook, results>>

(* The ruleset could not be read: no row is evaluated. *)
RulesetUnread(r) == Blind(facts) /\ JudgedUnsent(r, "unknown")

NoPublicAddress(r) ==
    ~Blind(facts) /\ PublicAddrs(facts, r[2]) = <<>> /\ JudgedUnsent(r, "unknown")

BoundElsewhere(r) ==
    /\ ~Blind(facts)
    /\ PublicAddrs(facts, r[2]) # <<>> /\ Covered(r) = <<>>
    /\ JudgedUnsent(r, "filtered")

Begin(r) ==
    /\ pc = "row"
    /\ r \in todo
    /\ ~Blind(facts)
    /\ Covered(r) # <<>>
    /\ row' = r
    /\ left' = Covered(r)
    /\ pkt' = SentFor(facts, r, Covered(r))
    /\ results' = <<>>
    /\ pc' = "prerouting"
    /\ UNCHANGED <<facts, todo, hook, verdicts>>

(* A destination has its result; the next one starts at prerouting again.  *)
Conclude(result) ==
    /\ results' = Append(results, result)
    /\ left' = Tail(left)
    /\ pkt' = SentFor(facts, row, Tail(left))
    /\ hook' = ""
    /\ pc' = IF Tail(left) = <<>> THEN "pick" ELSE "prerouting"
    /\ UNCHANGED <<facts, todo, row, verdicts>>

Pre == HookResult(facts.ruleset, "prerouting", pkt)
Accepted == pc = "prerouting" /\ Pre.kind = "accept"

PreroutingUnknown == pc = "prerouting" /\ Pre.kind = "unknown" /\ Conclude("unknown")
PreroutingDrops   == pc = "prerouting" /\ Pre.kind = "drop" /\ Conclude("filtered")

(* A forwarded port that no rule rewrites at this address. *)
NothingRewrites ==
    Accepted /\ Pre.dnat = NoDNAT /\ row[1].kind = "forward" /\ Conclude("filtered")

WalkSecond(h, p) ==
    /\ hook' = h
    /\ pkt' = p
    /\ pc' = "second"
    /\ UNCHANGED <<facts, todo, row, left, results, verdicts>>

DeliverHere ==
    Accepted /\ Pre.dnat = NoDNAT /\ row[1].kind # "forward" /\ WalkSecond("input", pkt)

RewriteHere ==
    /\ Accepted /\ Pre.dnat # NoDNAT /\ IsLocal(facts, Pre.dnat.ip)
    /\ WalkSecond("input", Rewritten(facts, pkt, Pre.dnat))

RewritesAway == Accepted /\ Pre.dnat # NoDNAT /\ ~IsLocal(facts, Pre.dnat.ip)

NotForwarding ==
    RewritesAway /\ ~Forwarding(facts, pkt.iif, row[2]) /\ Conclude("filtered")

NoInterface ==
    /\ RewritesAway /\ Forwarding(facts, pkt.iif, row[2])
    /\ IfaceFor(facts, Pre.dnat.ip) = {}
    /\ Conclude("unknown")

RewriteAway ==
    /\ RewritesAway /\ Forwarding(facts, pkt.iif, row[2])
    /\ IfaceFor(facts, Pre.dnat.ip) # {}
    /\ WalkSecond("forward", Routed(facts, Rewritten(facts, pkt, Pre.dnat)))

(* finish: the second hook has the last word. *)
Finish ==
    /\ pc = "second"
    /\ Conclude(CASE HookResult(facts.ruleset, hook, pkt).kind = "accept" -> "reachable"
                  [] HookResult(facts.ruleset, hook, pkt).kind = "drop"   -> "filtered"
                  [] OTHER -> "unknown")

Pick ==
    /\ pc = "pick"
    /\ Judge(row, Best(results))
    /\ row' = NoRow
    /\ pc' = "row"
    /\ UNCHANGED <<facts, left, pkt, hook, results>>

Return ==
    /\ pc = "row" /\ todo = {}
    /\ pc' = "done"
    /\ UNCHANGED <<facts, todo, row, left, pkt, hook, results, verdicts>>

Work ==
    \/ ListRows
    \/ \E r \in todo : RulesetUnread(r) \/ NoPublicAddress(r) \/ BoundElsewhere(r) \/ Begin(r)
    \/ PreroutingUnknown \/ PreroutingDrops \/ NothingRewrites \/ DeliverHere \/ RewriteHere
    \/ NotForwarding \/ NoInterface \/ RewriteAway \/ Finish \/ Pick \/ Return

Returned == pc = "done" /\ UNCHANGED vars

Next == Work \/ Returned

(* Evaluate is one sequential call: it keeps running until it returns.     *)
Spec == Init /\ [][Next]_vars /\ WF_vars(Work)

-----------------------------------------------------------------------------
(***************************************************************************)
(* What the host does with a packet the internet sends to port `port` of   *)
(* the public address c: where it ends, and how.  This is the packet's     *)
(* path through the kernel, whichever row asks about it.                   *)
(***************************************************************************)
MayForward(fam, iface) ==
    \/ IF fam = "ip6" THEN facts.forward6 ELSE facts.forward4
    \/ \E i \in Range(facts.ifaces) :
          i.name = iface /\ IF fam = "ip6" THEN i.forward6 ELSE i.forward4

Fate(fam, proto, port, c) ==
    LET p   == Sent(facts, fam, proto, port, c)
        pre == HookResult(facts.ruleset, "prerouting", p)
        q   == Rewritten(facts, p, pre.dnat)
        out == IfaceFor(facts, pre.dnat.ip)
    IN  IF pre.kind # "accept" THEN [to |-> "nowhere", kind |-> pre.kind]
        ELSE IF pre.dnat = NoDNAT
        THEN [to |-> "here", kind |-> HookResult(facts.ruleset, "input", p).kind]
        ELSE IF q.dstIsLocal
        THEN [to |-> "rewritten", kind |-> HookResult(facts.ruleset, "input", q).kind]
        ELSE IF ~MayForward(fam, c.iface) THEN [to |-> "away", kind |-> "drop"]
        ELSE IF out = {} THEN [to |-> "away", kind |-> "unknown"]
        ELSE [to |-> "away",
              kind |-> HookResult(facts.ruleset, "forward",
                                  [q EXCEPT !.oif = CHOOSE i \in out : TRUE]).kind]

(* Docker's proxy opens one socket per family: a socket that a publish     *)
(* stands for serves the family it is listed under, any other :: socket    *)
(* serves both unless the sysctl says otherwise.  This is not so of an     *)
(* IPv6 socket bound to an IPv4 address: that one serves IPv4.             *)
Mapped(s) == Unmap(s.bind) # s.bind
Serves(s) ==
    IF s.bind = "::" /\ ~facts.v6only /\ s \notin facts.publishes
    THEN {"ip", "ip6"} ELSE {s.family}

Reported(fam, proto, port, result) ==
    \E v \in verdicts : /\ v.family = fam /\ v.result = result
                        /\ v.ep.proto = proto /\ v.ep.port = port

(***************************************************************************)
(* Properties                                                              *)
(***************************************************************************)
(* The evaluation's own state; a packet walks the forward hook only with   *)
(* the interface it leaves by (evaluate.go:323-330).                       *)
TypeOK ==
    /\ facts \in Inputs
    /\ pc \in {"rows", "row", "prerouting", "second", "pick", "done"}
    /\ todo \subseteq Rows(facts)
    /\ row \in Rows(facts) \union {NoRow}
    /\ \A i \in DOMAIN left : left[i] \in Range(PublicAddrs(facts, row[2]))
    /\ hook \in {"", "input", "forward"}
    /\ pc = "second" => /\ left # <<>> /\ pkt.iif = left[1].iface
                        /\ hook = "forward" => pkt.oif \in {i.name : i \in Range(facts.ifaces)}
    /\ Range(results) \subseteq {"reachable", "filtered", "unknown"}
    /\ \A v \in verdicts : /\ <<v.ep, v.family>> \in Rows(facts)
                           /\ v.result \in {"reachable", "filtered", "unknown"}

(* A ruleset that could not be read says nothing about any port: no row is *)
(* reachable or filtered, and the rows are still all there                 *)
(* (evaluate.go:59-72).                                                    *)
BlindIsUnknown ==
    pc = "done" /\ facts.readFailed =>
        /\ \A v \in verdicts : v.result = "unknown"
        /\ \A s \in facts.sockets : Reported(s.family, s.proto, s.port, "unknown")

(* A listening socket that a packet from the internet can reach as it was  *)
(* sent has a reachable row of its port and family, whichever row stands   *)
(* for it once publishes, wildcard siblings and dual-stack binds have been *)
(* folded into each other (evaluate.go:95-186).  An IPv6 socket bound to   *)
(* an IPv4 address is left out: it is tried at IPv6 addresses alone, and   *)
(* its exposure at the IPv4 one has no row (evaluate.go:177, 210).         *)
SocketExposureIsReported ==
    pc = "done" /\ ~facts.readFailed =>
        \A s \in {x \in facts.sockets : ~Mapped(x)} : \A fam \in Serves(s) :
            \A c \in Range(PublicAddrs(facts, fam)) :
                /\ BindCovers(s.bind, c.ip)
                /\ Fate(fam, s.proto, s.port, c) = [to |-> "here", kind |-> "accept"]
                => Reported(fam, s.proto, s.port, "reachable")

(* Filtered is said only on proof: of the row's family, every address the  *)
(* endpoint is bound to drops the packet.  For a forward, the packet that  *)
(* no rule rewrites is not its own (evaluate.go:217-334).                  *)
FilteredIsProven ==
    \A v \in {w \in verdicts : w.result = "filtered"} :
        \A c \in Range(PublicAddrs(facts, v.family)) :
            BindCovers(v.ep.bind, c.ip) =>
                LET fate == Fate(v.family, v.ep.proto, v.ep.port, c)
                IN  fate.kind = "drop" \/ (v.ep.kind = "forward" /\ fate.to = "here")

(* Evaluate returns, with one verdict for each row: an endpoint of two     *)
(* families is judged for both (evaluate.go:53-73).                        *)
EveryRowIsJudged ==
    <>(/\ pc = "done"
       /\ \A r \in Rows(facts) :
             \E v \in verdicts : /\ v.ep = r[1] /\ v.family = r[2]
                                 /\ \A w \in verdicts : w.ep = r[1] /\ w.family = r[2] => w = v)

(* A forwarded port that already has a row loses nothing by keeping it:    *)
(* that endpoint's own evaluation walks the same prerouting hook and       *)
(* follows the same rewrite (evaluate.go:123-131).                         *)
ForwardIsReported ==
    pc = "done" /\ ~facts.readFailed =>
        \A w \in Forwarded(facts.ruleset) :
            \A c \in Range(PublicAddrs(facts, w.family)) :
                Fate(w.family, w.proto, w.port, c) = [to |-> "away", kind |-> "accept"]
                => Reported(w.family, w.proto, w.port, "reachable")
=============================================================================
