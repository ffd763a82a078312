------------------------------ MODULE Traverse -------------------------------
(***************************************************************************)
(* The walk of one netfilter hook: Traverse and walker of                  *)
(* internal/model/traverse.go.                                             *)
(*                                                                         *)
(* walkChain calls itself at every jump and goto.  Its activations are the *)
(* frames of `stack`, the innermost last.  A frame holds the place p of    *)
(* the chain it walks, the rule pc it is at, and `via`, the statement of   *)
(* the caller that started it.  `ret` is Running while the innermost       *)
(* activation executes; once it holds a result, that activation has        *)
(* returned and its caller's code after the call comes next.               *)
(***************************************************************************)
EXTENDS Ruleset

CONSTANT MaxJumpDepth     \* maxJumpDepth, 32 in the code

ASSUME MaxJumpDepthType == MaxJumpDepth \in Nat

VARIABLES
    call,      \* the arguments of Traverse; they never change
    started,   \* the checks made before the walk have passed
    left,      \* the base chains of the hook not yet entered
    stack,     \* the activations of walkChain
    ret,       \* what the innermost activation returned
    hits,      \* walker.hits: the rules reached, in order
    dnat,      \* walker.dnat
    result     \* what Traverse returned

vars == <<call, started, left, stack, ret, hits, dnat, result>>

Running  == [kind |-> "running", why |-> ""]
NoResult == [kind |-> "pending", why |-> ""]

Frame(p, via) == [p |-> p, pc |-> 1, via |-> via]

rs      == call.rs
Top     == stack[Len(stack)]
Caller  == stack[Len(stack) - 1]
Here    == ChainAt(rs, Top.p)
Walking == started /\ result = NoResult

Init ==
    /\ call \in Inputs
    /\ started = FALSE
    /\ left = {}
    /\ stack = <<>>
    /\ ret = Running
    /\ hits = <<>>
    /\ dnat = NoDNAT
    /\ result = NoResult

------------------------------------------------------------------------------
(* The early returns of Traverse, and the base chains it goes on to walk.  *)
Refuse(why) ==
    /\ ~started /\ result = NoResult
    /\ result' = Res("unknown", why)
    /\ UNCHANGED <<call, started, left, stack, ret, hits, dnat>>

RefuseIngress == IngressUnmodelled(rs, call.iface) /\ Refuse("ingress")

RefuseHook ==
    /\ ~IngressUnmodelled(rs, call.iface)
    /\ UnknownHook(rs, call.family)
    /\ Refuse("hook")

Collect ==
    /\ ~started /\ result = NoResult
    /\ ~IngressUnmodelled(rs, call.iface)
    /\ ~UnknownHook(rs, call.family)
    /\ started' = TRUE
    /\ left' = BaseChains(rs, call.family, call.hook)
    /\ UNCHANGED <<call, stack, ret, hits, dnat, result>>

EnterBase(p) ==
    /\ Walking /\ stack = <<>>
    /\ IsNext(rs, left, p)
    /\ left' = left \ {p}
    /\ stack' = <<Frame(p, "base")>>
    /\ UNCHANGED <<call, started, ret, hits, dnat, result>>

(* The switch on a base chain's result.  An accept only passes the packet  *)
(* on to the next base chain of the hook.                                  *)
AcceptEndsTheHook(r) ==
    IF r.kind \in {"none", "unwind"} THEN Res("unknown", "escape") ELSE r

BaseResult(r) ==
    CASE r.kind = "accept"            -> NoResult
      [] r.kind \in {"drop", "unknown"} -> r
      [] OTHER                        -> Res("unknown", "escape")

BaseDone ==
    /\ Walking /\ Len(stack) = 1 /\ ret # Running
    /\ stack' = <<>>
    /\ ret' = Running
    /\ result' = BaseResult(ret)
    /\ UNCHANGED <<call, started, left, hits, dnat>>

AllAccepted ==
    /\ Walking /\ stack = <<>> /\ left = {}
    /\ result' = Res("accept", "hook")
    /\ UNCHANGED <<call, started, left, stack, ret, hits, dnat>>

------------------------------------------------------------------------------
(* walkChain.  Depth is how many activations are below this one.           *)
DepthOfJumps == Cardinality({i \in 1 .. Len(stack) : stack[i].via = "jump"})

Depth     == Len(stack) - 1
Executing == Walking /\ stack # <<>> /\ ret = Running
AtRule    == Executing /\ Depth <= MaxJumpDepth /\ Top.pc <= Len(Here.rules)

Found == Matched(rs, call.family, Top.p, Top.pc)

NotAdvanced(s) == s
Advanced(s) == [s EXCEPT ![Len(s)].pc = @ + 1]

Return(r) ==
    /\ ret' = r
    /\ UNCHANGED <<call, started, left, stack, result>>

Step ==
    /\ stack' = Advanced(stack)
    /\ UNCHANGED <<call, started, left, ret, dnat, result>>

Record(action) ==
    hits' = Append(hits, [p |-> Top.p, pc |-> Top.pc, action |-> action])

TooDeep ==
    /\ Executing /\ Depth > MaxJumpDepth
    /\ Return(Res("unknown", "depth"))
    /\ UNCHANGED <<hits, dnat>>

RuleNoMatch == AtRule /\ Found.out = "NoMatch" /\ Step /\ UNCHANGED hits

RuleSkipped == AtRule /\ Found.out = "Skipped" /\ Step /\ Record("skipped")

RuleUnknown ==
    /\ AtRule /\ Found.out = "Unknown"
    /\ Record(Found.act.kind)
    /\ Return(Res("unknown", "expression"))
    /\ UNCHANGED dnat

(* A rule that matched, and the verdict it carries. *)
RuleMatches(kinds) ==
    /\ AtRule /\ Found.out = "Match" /\ Found.act.kind \in kinds
    /\ Record(Found.act.kind)

RuleContinue == RuleMatches({"continue", "none"}) /\ Step

RuleAccept ==
    /\ RuleMatches({"accept"})
    /\ Return(Res("accept", "rule"))
    /\ UNCHANGED dnat

RuleDrop ==
    /\ RuleMatches({"drop", "reject"})
    /\ Return(Res("drop", "rule"))
    /\ UNCHANGED dnat

RuleDNAT ==
    /\ RuleMatches({"dnat"})
    /\ dnat' = Found.act.dnat
    /\ Return(Res("accept", "rule"))

RuleUnhandled ==
    /\ RuleMatches({"queue", "unknown"})
    /\ Return(Res("unknown", "verdict"))
    /\ UNCHANGED dnat

(* The end of a chain, and a return, which in a base chain is the same.    *)
NoPolicyOnReturn == Res("none", "")

Fallthrough == IF Here.base THEN BasePolicyResult(rs, Top.p) ELSE Res("none", "")

RuleReturn ==
    /\ RuleMatches({"return"})
    /\ Return(Fallthrough)
    /\ UNCHANGED dnat

ChainEnd ==
    /\ Executing /\ Depth <= MaxJumpDepth /\ Top.pc > Len(Here.rules)
    /\ Return(Fallthrough)
    /\ UNCHANGED <<hits, dnat>>

(* jump and goto call walkChain on the chain findChain gives. *)
CalledChain == FindChain(rs, call.family, rs[Top.p[1]].name, Found.act.chain)

RuleCall ==
    /\ RuleMatches({"jump", "goto"})
    /\ \E p \in CalledChain : stack' = Append(stack, Frame(p, Found.act.kind))
    /\ UNCHANGED <<call, started, left, ret, dnat, result>>

RuleMissing ==
    /\ RuleMatches({"jump", "goto"})
    /\ CalledChain = {}
    /\ Return(Res("unknown", "chain"))
    /\ UNCHANGED dnat

(* unwind: a goto that fell through is resolved by the base chain.         *)
UnwindOneCaller(p) ==
    IF ChainAt(rs, p).base THEN BasePolicyResult(rs, p) ELSE Res("none", "")

Unwind(p) ==
    IF ChainAt(rs, p).base THEN BasePolicyResult(rs, p) ELSE Res("unwind", "")

(* What the caller does with the result of the activation it started.      *)
UnknownSwallowed(r, via, p) ==
    CASE r.kind = "unwind"                             -> Unwind(p)
      [] r.kind = "none" /\ via = "goto"               -> Unwind(p)
      [] r.kind \in {"none", "unknown"} /\ via = "jump" -> Running
      [] OTHER                                         -> r

AfterCall(r, via, p) ==
    CASE r.kind = "unwind"                -> Unwind(p)
      [] r.kind = "none" /\ via = "goto"  -> Unwind(p)
      [] r.kind = "none" /\ via = "jump"  -> Running
      [] OTHER                            -> r

ReturnToCaller ==
    /\ Walking /\ Len(stack) > 1 /\ ret # Running
    /\ ret' = AfterCall(ret, Top.via, Caller.p)
    /\ stack' = LET below == SubSeq(stack, 1, Len(stack) - 1)
                IN  IF ret' = Running THEN Advanced(below) ELSE below
    /\ UNCHANGED <<call, started, left, hits, dnat, result>>

Returned == result # NoResult /\ UNCHANGED vars

Walk ==
    \/ RefuseIngress \/ RefuseHook \/ Collect
    \/ \E p \in left : EnterBase(p)
    \/ BaseDone \/ AllAccepted
    \/ TooDeep \/ ChainEnd
    \/ RuleNoMatch \/ RuleSkipped \/ RuleUnknown \/ RuleContinue
    \/ RuleAccept \/ RuleDrop \/ RuleDNAT \/ RuleUnhandled
    \/ RuleReturn \/ RuleCall \/ RuleMissing
    \/ ReturnToCaller

Next == Walk \/ Returned

(* Traverse is one sequential call: it keeps running until it returns.     *)
Spec == Init /\ [][Next]_vars /\ WF_vars(Walk)

------------------------------------------------------------------------------
Why     == {"ingress", "hook", "rule", "policy", "expression", "depth", "verdict",
            "chain", "escape", ""}
Results == [kind : {"accept", "drop", "unknown"}, why : Why]
Returns == [kind : {"running", "accept", "drop", "unknown", "none", "unwind"},
            why : Why]
FrameT  == [p : Nat \X Nat, pc : Nat \ {0}, via : {"base", "jump", "goto"}]
Hit     == [p : Nat \X Nat, pc : Nat \ {0}, action : ActKind \union {"skipped"}]

(* Types of the walker's state; every place on the stack is a chain of the *)
(* ruleset, and the nesting never passes the limit by more than the one    *)
(* activation that notices it (traverse.go:264).                           *)
TypeOK ==
    /\ call \in Inputs
    /\ started \in BOOLEAN
    /\ left \subseteq Places(rs)
    /\ stack \in Seq(FrameT)
    /\ \A i \in 1 .. Len(stack) : stack[i].p \in Places(rs)
    /\ Len(stack) <= MaxJumpDepth + 2
    /\ ret \in Returns
    /\ hits \in Seq(Hit)
    /\ dnat \in DNATTarget \union {NoDNAT}
    /\ result \in Results \union {NoResult}

(* The shape of the call stack: a base chain at the bottom, calls above    *)
(* it, and "none" or "unwind" only ever returned by a chain that is not a  *)
(* base chain.                                                             *)
StackShape ==
    /\ stack = <<>> => ret = Running
    /\ ~started \/ result # NoResult => stack = <<>>
    /\ \A p \in left : ChainAt(rs, p).base
    /\ stack # <<>> => stack[1].via = "base" /\ ChainAt(rs, stack[1].p).base
    /\ \A i \in 1 .. Len(stack) : i # 1 => stack[i].via \in {"jump", "goto"}
    /\ ret.kind = "running" => ret = Running
    /\ ret.kind \in {"none", "unwind"} => stack # <<>> /\ ~Here.base
    /\ ret.why # "escape" /\ result.why # "escape"

(* What whyopen cannot resolve, and what drops a packet, is the last rule  *)
(* the trace shows, and decides: no later chain, base chain or return can  *)
(* turn an unresolved rule into an accept, nor a drop into an unknown      *)
(* (walkChain, and the switch of Traverse on a base chain's result).       *)
Dropped(m)    == m.out = "Match" /\ m.act.kind \in {"drop", "reject"}
Unresolved(m) == m.out = "Unknown" \/ (m.out = "Match" /\ m.act.kind \in {"queue", "unknown"})
Decision(m) == IF Dropped(m) THEN "drop" ELSE IF Unresolved(m) THEN "unknown" ELSE "nothing"
HitDecides(h) == Decision(Matched(rs, call.family, h.p, h.pc))
DecidingHitDecides ==
    \A i \in 1 .. Len(hits) :
        HitDecides(hits[i]) # "nothing" =>
            /\ i = Len(hits)
            /\ \/ result = NoResult /\ ret.kind = HitDecides(hits[i])
               \/ result.kind = HitDecides(hits[i])

(* A hook is accepted only when every one of its base chains let the       *)
(* packet through: an accepted packet met one accepting rule, at least,    *)
(* for each base chain whose own policy would not have accepted it.        *)
AcceptAccountsForEveryBase ==
    result.kind = "accept" =>
        /\ left = {}
        /\ Cardinality({p \in BaseChains(rs, call.family, call.hook) :
                            ChainAt(rs, p).policy # "accept"})
             <= Cardinality({i \in 1 .. Len(hits) : hits[i].action \in {"accept", "dnat"}})

(* "none" and "unwind" never escape a base chain: the branch of Traverse   *)
(* that calls itself defence in depth is never taken (traverse.go:172).    *)
NothingEscapes == result.why # "escape"

(* Rules of the walk's base chains show up in the trace in the order of    *)
(* their chains' priorities, whatever the order of the document.           *)
HitsInPriorityOrder ==
    LET ofBase == {i \in 1 .. Len(hits) :
                      hits[i].p \in BaseChains(rs, call.family, call.hook)}
    IN  \A i, j \in ofBase : i < j =>
            ChainAt(rs, hits[i].p).priority <= ChainAt(rs, hits[j].p).priority

(* The kernel refuses a rule that jumps or goes to a base chain.  The code *)
(* looks chains up by name alone and does not check it: where a name it    *)
(* finds first is that of a base chain, the two properties above may fail. *)
OnlyRegularChainsCalled ==
    \A c \in Inputs : \A p \in Places(c.rs) : \A pc \in 1 .. Len(ChainAt(c.rs, p).rules) :
        LET act == Matched(c.rs, c.family, p, pc).act
        IN  act.kind \in {"jump", "goto"} =>
                \A q \in FindChain(c.rs, c.family, c.rs[p[1]].name, act.chain) :
                    ~ChainAt(c.rs, q).base

(* When no two tables the walk can see share a name, a jump stays in its   *)
(* table and a rule is matched against its own table's sets (the premise   *)
(* of the comment on tableSets).                                           *)
Visible(t) == t \in 1 .. Len(rs) /\ InFamily(rs, call.family, t)
NamesUnique == \A t, u \in 1 .. Len(rs) :
    Visible(t) /\ Visible(u) /\ rs[t].name = rs[u].name => t = u
WalkStaysInTable ==
    \A i \in 1 .. Len(stack) :
        /\ stack[i].p[1] = stack[1].p[1]
        /\ TableSets(rs, call.family, rs[stack[i].p[1]].name) = rs[stack[i].p[1]].sets
UniqueNamesKeepTable == NamesUnique => WalkStaysInTable

(* Falling off a chain gone to lands on the base chain's policy: neither   *)
(* the chain that issued the goto nor any that called it, however far      *)
(* below, moves on to another rule (the comments on unwind and on the goto *)
(* case).  A frame is dead once a frame above it was entered by a goto, or *)
(* the innermost frame returns out of the middle of a call; it then keeps  *)
(* its place, and is dead still, until it leaves the stack.                *)
Calling(i) ==
    LET f == stack[i]
        m == Matched(rs, call.family, f.p, f.pc)
    IN  /\ f.pc <= Len(ChainAt(rs, f.p).rules)
        /\ m.out = "Match" /\ m.act.kind \in {"jump", "goto"}
Dead(i) ==
    \/ \E k \in i + 1 .. Len(stack) : stack[k].via = "goto"
    \/ ret # Running /\ Calling(Len(stack))
GotoNeverResumes ==
    [][\A i \in 1 .. Len(stack) :
          Dead(i) /\ i <= Len(stack') => stack'[i] = stack[i] /\ Dead(i)']_vars

(* The walk always ends, jump loops included (traverse.go:11-14).          *)
Terminates == <>(result # NoResult)

(* The first dnat rule the packet meets is the rewrite it gets: what the   *)
(* comment at forwards.go:71-73 says the traversal does.                   *)
FirstDNATWins ==
    \A i \in 1 .. Len(hits) :
        /\ result.kind = "accept"
        /\ hits[i].action = "dnat"
        /\ \A j \in 1 .. i - 1 : hits[j].action # "dnat"
        => dnat = Matched(rs, call.family, hits[i].p, hits[i].pc).act.dnat

------------------------------------------------------------------------------
(* The walk implements HookSpec.  The frames below a goto are dead; what   *)
(* an activation has returned has, for HookSpec, already taken effect.     *)
Bases(r, s, k) == {i \in 1 .. k : ChainAt(r, s[i].p).base}
Owner(r, s, k) ==
    LET bases == Bases(r, s, k) IN s[CHOOSE i \in bases : \A j \in bases : j <= i].p
LiveFrom(s) == CHOOSE i \in 1 .. Len(s) :
                  s[i].via # "jump" /\ \A j \in i + 1 .. Len(s) : s[j].via = "jump"
Live(r, s) == [k \in 1 .. Len(s) - LiveFrom(s) + 1 |->
                  LET i == LiveFrom(s) + k - 1
                  IN  [p |-> s[i].p, pc |-> s[i].pc, owner |-> Owner(r, s, i)]]

Resumes == ret.kind = "none" /\ Top.via = "jump"
Effect ==
    CASE ret = Running                         -> Running
      [] ret.kind \in {"accept", "drop", "unknown"} -> ret
      [] Resumes                               -> Running
      [] OTHER                                 -> BasePolicyResult(rs, Owner(rs, stack, Len(stack)))

AbsPos ==
    IF stack = <<>> \/ Effect # Running THEN <<>>
    ELSE IF Resumes
         THEN LET n == Len(Live(rs, stack)) - 1
              IN  [SubSeq(Live(rs, stack), 1, n) EXCEPT ![n].pc = @ + 1]
         ELSE Live(rs, stack)
AbsNest ==
    IF stack = <<>> \/ Effect # Running THEN 0
    ELSE IF Resumes THEN Len(stack) - 1 ELSE Len(stack)
AbsResult ==
    IF stack # <<>> /\ Effect.kind \in {"drop", "unknown"} THEN Effect ELSE result

Hook == INSTANCE HookSpec WITH pos <- AbsPos, nest <- AbsNest, result <- AbsResult

(* Every verdict, rewrite and policy comes about as HookSpec says: the     *)
(* call stack of walkChain, its unwinding and its limits add nothing.      *)
ImplementsHookSpec == Hook!AbsSpec
=============================================================================
