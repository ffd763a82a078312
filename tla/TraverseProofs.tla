--------------------------- MODULE TraverseProofs ----------------------------
(***************************************************************************)
(* Theorems about Traverse, for every ruleset, every rule language and     *)
(* every nesting limit.                                                    *)
(***************************************************************************)
EXTENDS Traverse, SequenceTheorems, ListProofs

(* The sets walkChain hands to MatchRule are a value of a Sets field.      *)
LEMMA TableSetsType ==
    ASSUME NEW r \in Seq(Table), NEW fam, NEW n
    PROVE  TableSets(r, fam, n) \in SetList
<1> DEFINE named == {t \in 1 .. Len(r) : r[t].name = n /\ InFamily(r, fam, t)}
           first == {t \in named : \A u \in named : t <= u}
           t0    == CHOOSE t \in first : TRUE
<1>1. CASE first = {}
  BY <1>1, NoSetsType DEF TableSets
<1>2. CASE first # {}
  <2>1. t0 \in 1 .. Len(r)
    BY <1>2
  <2>2. r[t0] \in Table
    BY <2>1
  <2>3. TableSets(r, fam, n) = r[t0].sets
    BY <1>2 DEF TableSets
  <2> QED
    BY <2>2, <2>3 DEF Table
<1> QED
  BY <1>1, <1>2

(* A place of a ruleset is a chain of one of its tables.                   *)
LEMMA PlaceType ==
    ASSUME NEW r \in Seq(Table), NEW p \in Places(r)
    PROVE  /\ p \in Nat \X Nat
           /\ p[1] \in 1 .. Len(r)
           /\ p[2] \in 1 .. Len(r[p[1]].chains)
           /\ r[p[1]] \in Table
           /\ ChainAt(r, p) \in Chain
<1>1. PICK t \in 1 .. Len(r) : p \in {t} \X (1 .. Len(r[t].chains))
  BY DEF Places
<1>2. r[t] \in Table
  OBVIOUS
<1>3. r[t].chains \in Seq(Chain)
  BY <1>2 DEF Table
<1>4. p[1] = t /\ p[2] \in 1 .. Len(r[t].chains) /\ p = <<p[1], p[2]>>
  BY <1>1
<1>5. r[t].chains[p[2]] \in Chain
  BY <1>3, <1>4
<1> QED
  BY <1>2, <1>3, <1>4, <1>5 DEF ChainAt

LEMMA FindChainType ==
    ASSUME NEW r, NEW fam, NEW n, NEW c
    PROVE  FindChain(r, fam, n, c) \subseteq Places(r)
  BY DEF FindChain, FirstPlace

LEMMA CallType == TypeOK => /\ call \in Call
                            /\ rs \in Seq(Table)
  BY InputsType DEF TypeOK, rs, Call

(* What a frame at the top of the stack stands for.                        *)
LEMMA TopType ==
    ASSUME TypeOK, stack # <<>>
    PROVE  /\ Len(stack) \in Nat \ {0}
           /\ Top \in FrameT
           /\ Top.p \in Places(rs)
           /\ Here \in Chain
<1>1. stack \in Seq(FrameT)
  BY DEF TypeOK
<1>2. Len(stack) \in Nat \ {0}
  BY <1>1, EmptySeq
<1>3. Top \in FrameT /\ Top.p \in Places(rs)
  BY <1>1, <1>2 DEF Top, TypeOK
<1> QED
  BY <1>2, <1>3, CallType, PlaceType DEF Here

LEMMA FoundType ==
    ASSUME TypeOK, AtRule
    PROVE  Found \in [out : Outcome, act : Action]
<1>1. Top \in FrameT /\ Here \in Chain
  BY TopType DEF AtRule, Executing
<1>2. Top.pc \in 1 .. Len(Here.rules)
  <2>1. Top.pc \in Nat \ {0}
    BY <1>1 DEF FrameT
  <2>2. Here.rules \in Seq(Rule)
    BY <1>1 DEF Chain
  <2> QED
    BY <2>1, <2>2, LenProperties DEF AtRule
<1>3. Here.rules[Top.pc] \in Rule
  BY <1>1, <1>2, ElementOfSeq DEF Chain
<1>4. TableSets(rs, call.family, rs[Top.p[1]].name) \in SetList
  BY CallType, TableSetsType
<1> QED
  BY <1>3, <1>4, MatchRuleType DEF Found, Matched, Here

LEMMA ResultTypes ==
    ASSUME NEW r, NEW p
    PROVE  /\ BasePolicyResult(r, p) \in Results
           /\ BasePolicyResult(r, p).why = "policy"
           /\ BasePolicyResult(r, p).kind \in {"accept", "drop", "unknown"}
<1>1. CASE ChainAt(r, p).policy = "accept"
  BY <1>1 DEF BasePolicyResult, Results, Res, Why
<1>2. CASE ChainAt(r, p).policy = "drop"
  BY <1>2 DEF BasePolicyResult, Results, Res, Why
<1>3. CASE ChainAt(r, p).policy \notin {"accept", "drop"}
  BY <1>3 DEF BasePolicyResult, Results, Res, Why
<1> QED
  BY <1>1, <1>2, <1>3

LEMMA RunningType ==
    Running \in Returns /\ Running.kind = "running" /\ Running.why = ""
  BY DEF Running, Returns, Why

LEMMA ResultIsReturn ==
    ASSUME NEW x \in Results
    PROVE  x \in Returns /\ x.kind # "running" /\ x.kind \notin {"none", "unwind"}
<1>1. x.kind \in {"accept", "drop", "unknown"} /\ x.why \in Why
  BY DEF Results
<1>3. x \in Returns
  BY DEF Results, Returns
<1> QED
  BY <1>1, <1>3, RunningType

(* Fallthrough and Unwind: a base chain never yields "none" or "unwind".   *)
LEMMA FallthroughType ==
    /\ Fallthrough \in Returns /\ Fallthrough.kind # "running"
    /\ Fallthrough.kind \in {"none", "unwind"} => ~Here.base
    /\ Fallthrough.why # "escape"
<1>1. CASE Here.base
  BY <1>1, ResultTypes, ResultIsReturn DEF Fallthrough
<1>2. CASE ~Here.base
  BY <1>2 DEF Fallthrough, Returns, Running, Res, Why
<1> QED
  BY <1>1, <1>2

LEMMA UnwindType ==
    ASSUME NEW p
    PROVE  /\ Unwind(p) \in Returns /\ Unwind(p).kind # "running"
           /\ Unwind(p).kind \in {"none", "unwind"} => ~ChainAt(rs, p).base
           /\ Unwind(p).why # "escape"
<1>1. CASE ChainAt(rs, p).base
  BY <1>1, ResultTypes, ResultIsReturn DEF Unwind
<1>2. CASE ~ChainAt(rs, p).base
  BY <1>2 DEF Unwind, Returns, Running, Res, Why
<1> QED
  BY <1>1, <1>2

(* The steps of a frame keep the frames below it and its own chain.        *)
LEMMA AdvancedType ==
    ASSUME NEW s \in Seq(FrameT), s # <<>>
    PROVE  /\ Advanced(s) \in Seq(FrameT)
           /\ Len(Advanced(s)) = Len(s)
           /\ \A i \in 1 .. Len(s) : Advanced(s)[i].p = s[i].p
           /\ \A i \in 1 .. Len(s) : Advanced(s)[i].via = s[i].via
           /\ \A i \in 1 .. Len(s) : i < Len(s) => Advanced(s)[i] = s[i]
<1> DEFINE n == Len(s)
           e == [s[n] EXCEPT !.pc = @ + 1]
<1>1. n \in 1 .. n /\ s[n] \in FrameT
  BY EmptySeq, ElementOfSeq
<1>2. e \in FrameT /\ e.p = s[n].p /\ e.via = s[n].via
  <2>1. s[n].pc \in Nat => s[n].pc + 1 \in Nat
    OBVIOUS
  <2> QED
    BY <1>1, <2>1 DEF FrameT
<1>3. Advanced(s) = [s EXCEPT ![n] = e]
  BY DEF Advanced
<1> HIDE DEF e
<1>4. /\ Advanced(s) \in Seq(FrameT) /\ Len(Advanced(s)) = n
      /\ \A i \in 1 .. n : Advanced(s)[i] = IF i = n THEN e ELSE s[i]
  BY <1>1, <1>2, <1>3, ExceptSeq
<1> QED
  BY <1>1, <1>2, <1>4

LEMMA BelowType ==
    ASSUME NEW s \in Seq(FrameT), Len(s) > 1
    PROVE  LET b == SubSeq(s, 1, Len(s) - 1)
           IN  /\ b \in Seq(FrameT)
               /\ Len(b) = Len(s) - 1
               /\ b # <<>>
               /\ \A i \in 1 .. Len(s) - 1 : b[i] = s[i]
<1>1. Len(s) \in Nat
  BY LenProperties
<1>2. \A i \in 1 .. Len(s) - 1 : s[i] \in FrameT
  BY <1>1, ElementOfSeq
<1> DEFINE n == Len(s) - 1
           b == SubSeq(s, 1, n)
<1>3. n \in Int /\ 1 <= n
  BY <1>1
<1>4. /\ b \in Seq(FrameT)
      /\ Len(b) = IF 1 <= n THEN n - 1 + 1 ELSE 0
      /\ \A i \in 1 .. n - 1 + 1 : b[i] = s[1 + i - 1]
  <2> HIDE DEF n
  <2> QED
    BY <1>2, <1>3, SubSeqProperties DEF n
<1>5. Len(b) = n /\ \A i \in 1 .. n : b[i] = s[i]
  BY <1>3, <1>4
<1>6. b # <<>>
  <2>1. Len(b) # 0
    BY <1>3, <1>5
  <2>2. Len(<<>>) = 0
    OBVIOUS
  <2> HIDE DEF b, n
  <2> QED
    BY <2>1, <2>2
<1> QED
  BY <1>4, <1>5, <1>6

(* What a caller makes of a result: it goes on only after a jump that fell *)
(* through, and "none" is never passed further out.                        *)
LEMMA AfterCallType ==
    ASSUME NEW r \in Returns, r.kind # "running", r.why # "escape", NEW p,
           NEW via \in {"jump", "goto"}
    PROVE  /\ AfterCall(r, via, p) \in Returns
           /\ AfterCall(r, via, p).why # "escape"
           /\ AfterCall(r, via, p).kind = "running" =>
                 AfterCall(r, via, p) = Running /\ via = "jump"
           /\ AfterCall(r, via, p).kind \in {"none", "unwind"} => ~ChainAt(rs, p).base
           /\ r.kind \in {"accept", "drop", "unknown"} => AfterCall(r, via, p) = r
<1>1. CASE r.kind = "unwind"
  BY <1>1, UnwindType DEF AfterCall
<1>2. CASE r.kind = "none" /\ via = "goto"
  BY <1>2, UnwindType DEF AfterCall
<1>3. CASE r.kind = "none" /\ via = "jump"
  <2>1. AfterCall(r, via, p) = Running
    BY <1>3 DEF AfterCall
  <2> QED
    BY <2>1, <1>3, RunningType
<1>4. CASE r.kind \notin {"none", "unwind"}
  <2>1. AfterCall(r, via, p) = r
    BY <1>4 DEF AfterCall
  <2> QED
    BY <2>1, <1>4
<1> QED
  BY <1>1, <1>2, <1>3, <1>4

LEMMA AfterCallReturns ==
    ASSUME NEW r \in Returns, NEW via, NEW p
    PROVE  AfterCall(r, via, p) \in Returns
<1>1. CASE r.kind = "unwind"
  BY <1>1, UnwindType DEF AfterCall
<1>2. CASE r.kind = "none"
  BY <1>2, UnwindType, RunningType DEF AfterCall
<1>3. CASE r.kind \notin {"none", "unwind"}
  BY <1>3 DEF AfterCall
<1> QED
  BY <1>1, <1>2, <1>3

LEMMA BaseResultType ==
    ASSUME NEW r \in Returns
    PROVE  /\ BaseResult(r) \in Results \union {NoResult}
           /\ r.kind \in {"accept", "drop", "unknown"} /\ r.why # "escape"
                 => BaseResult(r).why # "escape"
           /\ r.kind \in {"drop", "unknown"} => BaseResult(r) = r
<1>1. CASE r.kind = "accept"
  BY <1>1 DEF BaseResult, NoResult
<1>2. CASE r.kind \in {"drop", "unknown"}
  <2>1. BaseResult(r) = r
    BY <1>2 DEF BaseResult
  <2> QED
    BY <2>1, <1>2 DEF Returns, Results
<1>3. CASE r.kind \notin {"accept", "drop", "unknown"}
  <2>1. BaseResult(r) = Res("unknown", "escape")
    BY <1>3 DEF BaseResult
  <2> QED
    BY <2>1, <1>3 DEF Res, Results, Why
<1> QED
  BY <1>1, <1>2, <1>3

------------------------------------------------------------------------------
(* Types, and the bound on the nesting (traverse.go:264).                  *)
LEMMA TypeInit == Init => TypeOK
<1> SUFFICES ASSUME Init PROVE TypeOK
  OBVIOUS
<1>1. stack \in Seq(FrameT) /\ hits \in Seq(Hit) /\ Len(stack) = 0
  BY EmptySeq DEF Init
<1>2. ret \in Returns
  BY RunningType DEF Init
<1>3. started \in BOOLEAN
  BY DEF Init
<1>4. Len(stack) <= MaxJumpDepth + 2
  BY <1>1, MaxJumpDepthType
<1>5. \A i \in 1 .. Len(stack) : stack[i].p \in Places(rs)
  BY <1>1
<1> QED
  BY <1>1, <1>2, <1>3, <1>4, <1>5 DEF Init, TypeOK

LEMMA RecordType ==
    ASSUME TypeOK, AtRule, NEW a \in ActKind \union {"skipped"}, Record(a)
    PROVE  hits' \in Seq(Hit)
<1>1. Top \in FrameT
  BY TopType DEF AtRule, Executing
<1>2. [p |-> Top.p, pc |-> Top.pc, action |-> a] \in Hit
  BY <1>1 DEF FrameT, Hit
<1> QED
  BY <1>2 DEF Record, TypeOK

(* A rule that matched was recorded under its verdict. *)
LEMMA MatchesType ==
    ASSUME TypeOK, NEW K, RuleMatches(K)
    PROVE  /\ AtRule /\ Found \in [out : Outcome, act : Action]
           /\ hits' \in Seq(Hit)
<1>1. AtRule /\ Found \in [out : Outcome, act : Action]
  BY FoundType DEF RuleMatches
<1>2. Found.act.kind \in ActKind
  BY <1>1 DEF Action
<1> QED
  BY <1>1, <1>2, RecordType DEF RuleMatches

LEMMA StepType ==
    ASSUME TypeOK, AtRule, Step, hits' \in Seq(Hit)
    PROVE  TypeOK'
<1>1. stack \in Seq(FrameT) /\ stack # <<>>
  BY DEF TypeOK, AtRule, Executing
<1>2. stack' \in Seq(FrameT) /\ Len(stack') = Len(stack)
  BY <1>1, AdvancedType DEF Step
<1>3. \A i \in 1 .. Len(stack') : stack'[i].p \in Places(rs')
  <2>0. stack' = Advanced(stack)
    BY DEF Step
  <2>1. \A i \in 1 .. Len(stack) : stack'[i].p = stack[i].p
    BY <1>1, <2>0, AdvancedType
  <2>2. rs' = rs
    BY DEF Step, rs
  <2> QED
    BY <1>2, <2>1, <2>2 DEF TypeOK
<1> QED
  BY <1>2, <1>3 DEF Step, TypeOK, rs

LEMMA ReturnType ==
    ASSUME TypeOK, NEW r \in Returns, Return(r), hits' \in Seq(Hit),
           dnat' \in DNATTarget \union {NoDNAT}
    PROVE  TypeOK'
  BY DEF Return, TypeOK, rs

LEMMA TypeNext == TypeOK /\ [Next]_vars => TypeOK'
<1> SUFFICES ASSUME TypeOK, [Next]_vars PROVE TypeOK'
  OBVIOUS
<1>1. ASSUME NEW why \in Why, Refuse(why) PROVE TypeOK'
  <2>1. Res("unknown", why) \in Results
    BY DEF Res, Results
  <2> QED
    BY <1>1, <2>1 DEF Refuse, TypeOK, rs
<1>2. CASE RefuseIngress
  BY <1>1, <1>2 DEF RefuseIngress, Why
<1>3. CASE RefuseHook
  BY <1>1, <1>3 DEF RefuseHook, Why
<1>4. CASE Collect
  <2>1. left' \subseteq Places(rs) /\ started' \in BOOLEAN
    BY <1>4 DEF Collect, BaseChains
  <2> QED
    BY <1>4, <2>1 DEF Collect, TypeOK, rs
<1>5. ASSUME NEW p \in left, EnterBase(p) PROVE TypeOK'
  <2>1. p \in Places(rs) /\ Frame(p, "base") \in FrameT /\ Frame(p, "base").p = p
    BY CallType, PlaceType DEF TypeOK, Frame, FrameT
  <2>2. stack' \in Seq(FrameT) /\ Len(stack') = 1 /\ stack'[1].p = p
    BY <1>5, <2>1 DEF EnterBase
  <2>3. 1 <= MaxJumpDepth + 2
    BY MaxJumpDepthType
  <2> QED
    BY <1>5, <2>1, <2>2, <2>3 DEF EnterBase, TypeOK, rs
<1>6. CASE BaseDone
  <2>1. stack' \in Seq(FrameT) /\ Len(stack') = 0
    BY <1>6, EmptySeq DEF BaseDone
  <2>2. result' \in Results \union {NoResult}
    BY <1>6, BaseResultType DEF BaseDone, TypeOK
  <2>3. 0 <= MaxJumpDepth + 2
    BY MaxJumpDepthType
  <2>4. \A i \in 1 .. Len(stack') : stack'[i].p \in Places(rs)
    BY <2>1
  <2> QED
    BY <1>6, <2>1, <2>2, <2>3, <2>4, RunningType DEF BaseDone, TypeOK, rs
<1>7. CASE AllAccepted
  <2>1. Res("accept", "hook") \in Results
    BY DEF Res, Results, Why
  <2> QED
    BY <1>7, <2>1 DEF AllAccepted, TypeOK, rs
<1>8. ASSUME NEW k \in {"accept", "drop", "unknown"}, NEW why \in Why
      PROVE  Res(k, why) \in Returns
  BY DEF Res, Returns
<1>9. CASE TooDeep
  <2>1. Res("unknown", "depth") \in Returns
    BY <1>8 DEF Why
  <2> QED
    BY <1>9, <2>1, ReturnType DEF TooDeep, TypeOK
<1>10. CASE ChainEnd
  BY <1>10, FallthroughType, ReturnType DEF ChainEnd, TypeOK
<1>11. CASE RuleNoMatch
  BY <1>11, StepType DEF RuleNoMatch, TypeOK
<1>12. CASE RuleSkipped
  BY <1>12, StepType, RecordType DEF RuleSkipped
<1>13. CASE RuleUnknown
  <2>1. Res("unknown", "expression") \in Returns
    BY <1>8 DEF Why
  <2>2. Found.act.kind \in ActKind
    BY <1>13, FoundType DEF RuleUnknown, Action
  <2>3. hits' \in Seq(Hit)
    BY <1>13, <2>2, RecordType DEF RuleUnknown
  <2> QED
    BY <1>13, <2>1, <2>3, ReturnType DEF RuleUnknown, TypeOK
<1>14. CASE RuleContinue
  BY <1>14, MatchesType, StepType DEF RuleContinue
<1>15. CASE RuleAccept
  <2>1. Res("accept", "rule") \in Returns
    BY <1>8 DEF Why
  <2> QED
    BY <1>15, <2>1, MatchesType, ReturnType DEF RuleAccept, TypeOK
<1>16. CASE RuleDrop
  <2>1. Res("drop", "rule") \in Returns
    BY <1>8 DEF Why
  <2> QED
    BY <1>16, <2>1, MatchesType, ReturnType DEF RuleDrop, TypeOK
<1>17. CASE RuleDNAT
  <2>1. Res("accept", "rule") \in Returns
    BY <1>8 DEF Why
  <2>2. dnat' \in DNATTarget \union {NoDNAT}
    BY <1>17, MatchesType DEF RuleDNAT, Action
  <2> QED
    BY <1>17, <2>1, <2>2, MatchesType, ReturnType DEF RuleDNAT
<1>18. CASE RuleUnhandled
  <2>1. Res("unknown", "verdict") \in Returns
    BY <1>8 DEF Why
  <2> QED
    BY <1>18, <2>1, MatchesType, ReturnType DEF RuleUnhandled, TypeOK
<1>19. CASE RuleReturn
  BY <1>19, FallthroughType, MatchesType, ReturnType DEF RuleReturn, TypeOK
<1>20. CASE RuleCall
  <2>1. AtRule /\ hits' \in Seq(Hit) /\ Found.act.kind \in {"jump", "goto"}
    BY <1>20, MatchesType DEF RuleCall, RuleMatches
  <2>2. PICK p \in CalledChain : stack' = Append(stack, Frame(p, Found.act.kind))
    BY <1>20 DEF RuleCall
  <2>3. p \in Places(rs) /\ p \in Nat \X Nat
    BY FindChainType, CallType, PlaceType DEF CalledChain
  <2>4. Frame(p, Found.act.kind) \in FrameT /\ Frame(p, Found.act.kind).p = p
    BY <2>1, <2>3 DEF Frame, FrameT
  <2>5. /\ stack' \in Seq(FrameT) /\ Len(stack') = Len(stack) + 1
        /\ \A i \in 1 .. Len(stack) : stack'[i] = stack[i]
        /\ stack'[Len(stack) + 1].p = p
    BY <2>2, <2>4 DEF TypeOK
  <2>6. Len(stack) + 1 <= MaxJumpDepth + 2
    BY <2>1, MaxJumpDepthType, TopType DEF AtRule, Executing, Depth
  <2>7. \A i \in 1 .. Len(stack') : stack'[i].p \in Places(rs)
    BY <2>3, <2>5 DEF TypeOK
  <2> QED
    BY <1>20, <2>1, <2>5, <2>6, <2>7 DEF RuleCall, TypeOK, rs
<1>21. CASE RuleMissing
  <2>1. Res("unknown", "chain") \in Returns
    BY <1>8 DEF Why
  <2> QED
    BY <1>21, <2>1, MatchesType, ReturnType DEF RuleMissing, TypeOK
<1>22. CASE ReturnToCaller
  <2> DEFINE below == SubSeq(stack, 1, Len(stack) - 1)
  <2>1. /\ below \in Seq(FrameT) /\ Len(below) = Len(stack) - 1 /\ below # <<>>
        /\ \A i \in 1 .. Len(stack) - 1 : below[i] = stack[i]
    BY <1>22, BelowType DEF ReturnToCaller, TypeOK
  <2>2. stack' = Advanced(below) \/ stack' = below
    BY <1>22 DEF ReturnToCaller
  <2> HIDE DEF below
  <2>3. stack' \in Seq(FrameT) /\ Len(stack') = Len(stack) - 1
    BY <2>1, <2>2, AdvancedType
  <2>4. ASSUME NEW i \in 1 .. Len(stack) - 1
        PROVE  stack'[i].p = stack[i].p
    <3>1. Advanced(below)[i].p = below[i].p
      BY <2>1, AdvancedType
    <3> QED
      BY <2>1, <2>2, <3>1
  <2>5. ret' \in Returns
    BY <1>22, AfterCallReturns DEF ReturnToCaller, TypeOK
  <2>6. Len(stack') <= MaxJumpDepth + 2
    BY <2>3, MaxJumpDepthType, LenProperties DEF TypeOK
  <2>7. \A i \in 1 .. Len(stack') : stack'[i].p \in Places(rs)
    BY <2>3, <2>4, LenProperties DEF TypeOK
  <2> QED
    BY <1>22, <2>3, <2>5, <2>6, <2>7 DEF ReturnToCaller, TypeOK, rs
<1>23. CASE UNCHANGED vars
  BY <1>23 DEF vars, TypeOK, rs
<1> QED
  BY <1>2, <1>3, <1>4, <1>5, <1>6, <1>7, <1>9, <1>10, <1>11, <1>12, <1>13, <1>14,
     <1>15, <1>16, <1>17, <1>18, <1>19, <1>20, <1>21, <1>22, <1>23
  DEF Next, Walk, Returned

THEOREM TypeCorrect == Spec => []TypeOK
  BY TypeInit, TypeNext, PTL DEF Spec

------------------------------------------------------------------------------
(* The shape of the stack.                                                 *)
LEMMA ShapeReturn ==
    ASSUME TypeOK, StackShape, Executing, NEW r, Return(r), r.kind # "running",
           r.kind \in {"none", "unwind"} => ~Here.base, r.why # "escape"
    PROVE  StackShape'
<1>1. stack # <<>> /\ stack' = stack /\ rs' = rs /\ Here' = Here /\ left' = left
  BY DEF Executing, Return, rs, Here, Top
<1> QED
  BY <1>1 DEF StackShape, Return

LEMMA ShapeStep ==
    ASSUME TypeOK, StackShape, AtRule, Step
    PROVE  StackShape'
<1>1. stack \in Seq(FrameT) /\ stack # <<>> /\ Len(stack) \in Nat \ {0} /\ ret = Running
  BY TopType DEF TypeOK, AtRule, Executing
<1>2. stack' = Advanced(stack) /\ ret' = Running /\ rs' = rs
  BY <1>1 DEF Step, rs
<1>3. /\ stack' # <<>> /\ Len(stack') = Len(stack)
      /\ \A i \in 1 .. Len(stack) : stack'[i].p = stack[i].p
      /\ \A i \in 1 .. Len(stack) : stack'[i].via = stack[i].via
  BY <1>1, <1>2, AdvancedType, EmptySeq
<1>4. started' = started /\ result' = result /\ left' = left /\ started /\ result = NoResult
  BY DEF Step, AtRule, Executing, Walking
<1>5. stack'[1].via = "base" /\ ChainAt(rs, stack'[1].p).base
  BY <1>1, <1>3 DEF StackShape
<1>6. \A i \in 1 .. Len(stack') : i # 1 => stack'[i].via \in {"jump", "goto"}
  BY <1>1, <1>3 DEF StackShape
<1> QED
  BY <1>2, <1>3, <1>4, <1>5, <1>6, RunningType DEF StackShape

LEMMA ShapeInit == Init => StackShape
<1> SUFFICES ASSUME Init PROVE StackShape
  OBVIOUS
<1>1. stack = <<>> /\ Len(stack) = 0
  BY DEF Init
<1>2. NoResult.why # "escape"
  BY DEF NoResult
<1>3. ret = Running /\ ret.kind \notin {"none", "unwind"} /\ ret.why # "escape"
  BY RunningType DEF Init
<1>4. \A i \in 1 .. Len(stack) : i # 1 => stack[i].via \in {"jump", "goto"}
  BY <1>1
<1>5. left = {} /\ result = NoResult
  BY DEF Init
<1> QED
  BY <1>1, <1>2, <1>3, <1>4, <1>5 DEF StackShape

LEMMA ShapeNext == TypeOK /\ StackShape /\ [Next]_vars => StackShape'
<1> SUFFICES ASSUME TypeOK, StackShape, [Next]_vars PROVE StackShape'
  OBVIOUS
<1>1. ASSUME NEW why \in Why \ {"escape"}, Refuse(why) PROVE StackShape'
  <2>1. stack' = stack /\ rs' = rs /\ stack = <<>> /\ Res("unknown", why).why # "escape"
    BY <1>1 DEF Refuse, StackShape, rs, Res
  <2> QED
    BY <1>1, <2>1, RunningType DEF Refuse, StackShape
<1>2. CASE RefuseIngress
  BY <1>1, <1>2 DEF RefuseIngress, Why
<1>3. CASE RefuseHook
  BY <1>1, <1>3 DEF RefuseHook, Why
<1>4. CASE Collect
  <2>1. stack' = stack /\ rs' = rs /\ stack = <<>>
    BY <1>4 DEF Collect, StackShape, rs
  <2>2. \A p \in left' : ChainAt(rs, p).base
    BY <1>4 DEF Collect, BaseChains
  <2> QED
    BY <1>4, <2>1, <2>2, RunningType DEF Collect, StackShape
<1>5. ASSUME NEW p \in left, EnterBase(p) PROVE StackShape'
  <2>1. /\ Frame(p, "base").p = p /\ Frame(p, "base").via = "base"
        /\ ChainAt(rs, p).base /\ rs' = rs
    BY <1>5 DEF Frame, StackShape, EnterBase, rs
  <2>2. stack' # <<>> /\ Len(stack') = 1 /\ stack'[1] = Frame(p, "base")
    BY <1>5 DEF EnterBase
  <2>3. ret' = Running /\ started' = started /\ result' = result /\ started /\ result = NoResult
    BY <1>5 DEF EnterBase, StackShape, Walking
  <2>4. \A q \in left' : ChainAt(rs, q).base
    BY <1>5 DEF EnterBase, StackShape
  <2>5. \A i \in 1 .. Len(stack') : i # 1 => stack'[i].via \in {"jump", "goto"}
    BY <2>2
  <2>6. stack'[1].via = "base" /\ ChainAt(rs', stack'[1].p).base
    BY <2>1, <2>2
  <2>7. ret'.kind \notin {"none", "unwind"} /\ ret'.why # "escape"
    BY <2>3, RunningType
  <2>8. result'.why # "escape"
    BY <2>3 DEF StackShape
  <2> QED
    BY <2>1, <2>2, <2>3, <2>4, <2>5, <2>6, <2>7, <2>8 DEF StackShape
<1>6. CASE BaseDone
  <2>1. stack' = <<>> /\ Len(stack') = 0 /\ ret' = Running /\ rs' = rs /\ left' = left
    BY <1>6 DEF BaseDone, rs
  <2>2. Here.base
    BY <1>6 DEF BaseDone, StackShape, Here, Top
  <2>3. ret.kind \in {"accept", "drop", "unknown"}
    BY <1>6, <2>2 DEF BaseDone, StackShape, TypeOK, Returns
  <2>4. result'.why # "escape"
    BY <1>6, <2>3, BaseResultType DEF BaseDone, StackShape, TypeOK
  <2>5. \A i \in 1 .. Len(stack') : i # 1 => stack'[i].via \in {"jump", "goto"}
    BY <2>1
  <2>6. ret'.kind \notin {"none", "unwind"} /\ ret'.why # "escape"
    BY <2>1, RunningType
  <2>7. \A p \in left' : ChainAt(rs', p).base
    BY <2>1 DEF StackShape
  <2> QED
    BY <2>1, <2>4, <2>5, <2>6, <2>7 DEF StackShape
<1>7. CASE AllAccepted
  <2>1. stack' = stack /\ rs' = rs /\ stack = <<>> /\ Res("accept", "hook").why # "escape"
    BY <1>7 DEF AllAccepted, rs, Res
  <2> QED
    BY <1>7, <2>1, RunningType DEF AllAccepted, StackShape
<1>8. ASSUME NEW k \in {"accept", "drop", "unknown"}, NEW why \in Why \ {"escape"},
             Executing, Return(Res(k, why))
      PROVE  StackShape'
  <2>1. Res(k, why).kind = k /\ Res(k, why).why = why
    BY DEF Res
  <2> QED
    BY <1>8, <2>1, ShapeReturn
<1>9. CASE TooDeep
  BY <1>8, <1>9 DEF TooDeep, Why
<1>10. CASE ChainEnd
  BY <1>10, FallthroughType, ShapeReturn DEF ChainEnd
<1>11. CASE RuleNoMatch
  BY <1>11, ShapeStep DEF RuleNoMatch
<1>12. CASE RuleSkipped
  BY <1>12, ShapeStep DEF RuleSkipped
<1>13. CASE RuleUnknown
  BY <1>8, <1>13 DEF RuleUnknown, AtRule, Why
<1>14. CASE RuleContinue
  BY <1>14, ShapeStep DEF RuleContinue, RuleMatches
<1>15. CASE RuleAccept
  BY <1>8, <1>15 DEF RuleAccept, RuleMatches, AtRule, Why
<1>16. CASE RuleDrop
  BY <1>8, <1>16 DEF RuleDrop, RuleMatches, AtRule, Why
<1>17. CASE RuleDNAT
  BY <1>8, <1>17 DEF RuleDNAT, RuleMatches, AtRule, Why
<1>18. CASE RuleUnhandled
  BY <1>8, <1>18 DEF RuleUnhandled, RuleMatches, AtRule, Why
<1>19. CASE RuleReturn
  BY <1>19, FallthroughType, ShapeReturn DEF RuleReturn, RuleMatches, AtRule
<1>20. CASE RuleCall
  <2>1. AtRule /\ Found.act.kind \in {"jump", "goto"}
    BY <1>20 DEF RuleCall, RuleMatches
  <2>2. PICK p \in CalledChain : stack' = Append(stack, Frame(p, Found.act.kind))
    BY <1>20 DEF RuleCall
  <2>3. /\ stack \in Seq(FrameT) /\ Len(stack) \in Nat \ {0} /\ stack # <<>> /\ ret = Running
        /\ started /\ result = NoResult
    BY <2>1, TopType DEF TypeOK, AtRule, Executing, Walking
  <2>4. Frame(p, Found.act.kind).via \in {"jump", "goto"}
    BY <2>1 DEF Frame
  <2>5. /\ stack' # <<>> /\ Len(stack') = Len(stack) + 1
        /\ \A i \in 1 .. Len(stack) : stack'[i] = stack[i]
        /\ stack'[Len(stack) + 1].via \in {"jump", "goto"}
    BY <2>2, <2>3, <2>4
  <2>6. \A i \in 1 .. Len(stack') : i # 1 => stack'[i].via \in {"jump", "goto"}
    BY <2>3, <2>5 DEF StackShape
  <2>7. stack'[1] = stack[1]
    BY <2>3, <2>5
  <2>8. ret' = ret /\ rs' = rs /\ left' = left /\ started' = started /\ result' = result
    BY <1>20 DEF RuleCall, rs
  <2> QED
    BY <2>3, <2>5, <2>6, <2>7, <2>8, RunningType DEF StackShape
<1>21. CASE RuleMissing
  BY <1>8, <1>21 DEF RuleMissing, RuleMatches, AtRule, Why
<1>22. CASE ReturnToCaller
  <2> DEFINE below == SubSeq(stack, 1, Len(stack) - 1)
  <2>1. /\ below \in Seq(FrameT) /\ Len(below) = Len(stack) - 1 /\ below # <<>>
        /\ \A i \in 1 .. Len(stack) - 1 : below[i] = stack[i]
    BY <1>22, BelowType DEF ReturnToCaller, TypeOK
  <2>2. stack' = Advanced(below) \/ stack' = below
    BY <1>22 DEF ReturnToCaller
  <2> HIDE DEF below
  <2>n. Len(stack) \in Nat /\ Len(stack) > 1 /\ stack # <<>>
    BY <1>22, LenProperties, EmptySeq DEF ReturnToCaller, TypeOK
  <2>3. stack' \in Seq(FrameT) /\ Len(stack') = Len(stack) - 1 /\ stack' # <<>>
    BY <2>1, <2>2, <2>n, AdvancedType, EmptySeq
  <2>4. ASSUME NEW i \in 1 .. Len(stack) - 1
        PROVE  stack'[i].p = stack[i].p /\ stack'[i].via = stack[i].via
    <3>1. Advanced(below)[i].p = below[i].p /\ Advanced(below)[i].via = below[i].via
      BY <2>1, AdvancedType
    <3> QED
      BY <2>1, <2>2, <3>1
  <2>5. Top.via \in {"jump", "goto"}
    BY <2>n DEF StackShape, Top
  <2>6. /\ ret' = AfterCall(ret, Top.via, Caller.p) /\ ret.kind # "running"
        /\ ret \in Returns /\ ret.why # "escape"
    BY <1>22 DEF ReturnToCaller, StackShape, TypeOK
  <2>7. /\ ret'.why # "escape" /\ (ret'.kind = "running" => ret' = Running)
        /\ ret'.kind \in {"none", "unwind"} => ~ChainAt(rs, Caller.p).base
    BY <2>5, <2>6, AfterCallType
  <2>8. rs' = rs /\ left' = left /\ started' = started /\ result' = result
        /\ started /\ result = NoResult
    BY <1>22 DEF ReturnToCaller, rs, Walking
  <2>9. Top'.p = Caller.p
    BY <2>n, <2>3, <2>4 DEF Top, Caller
  <2>10. ret'.kind \in {"none", "unwind"} => ~Here'.base
    BY <2>7, <2>8, <2>9 DEF Here
  <2>11. stack'[1].via = "base" /\ ChainAt(rs, stack'[1].p).base
    BY <2>n, <2>4 DEF StackShape
  <2>12. \A i \in 1 .. Len(stack') : i # 1 => stack'[i].via \in {"jump", "goto"}
    BY <2>n, <2>3, <2>4 DEF StackShape
  <2> QED
    BY <2>3, <2>7, <2>8, <2>10, <2>11, <2>12 DEF StackShape
<1>23. CASE UNCHANGED vars
  BY <1>23 DEF vars, StackShape, rs, Here, Top
<1> QED
  BY <1>2, <1>3, <1>4, <1>5, <1>6, <1>7, <1>9, <1>10, <1>11, <1>12, <1>13, <1>14,
     <1>15, <1>16, <1>17, <1>18, <1>19, <1>20, <1>21, <1>22, <1>23
  DEF Next, Walk, Returned

(* The defence in depth of Traverse (traverse.go:172) is dead code: no     *)
(* base chain ever yields "none" or "unwind".                              *)
THEOREM BaseChainsAlwaysDecide == Spec => []NothingEscapes
<1>1. Init => TypeOK /\ StackShape
  BY TypeInit, ShapeInit
<1>2. TypeOK /\ StackShape /\ [Next]_vars => (TypeOK /\ StackShape)'
  BY TypeNext, ShapeNext
<1>3. StackShape => NothingEscapes
  BY DEF StackShape, NothingEscapes
<1> QED
  BY <1>1, <1>2, <1>3, PTL DEF Spec

------------------------------------------------------------------------------
(* The walk reads one ruleset, and answers for one packet.                 *)
LEMMA CallKept == [Next]_vars => call' = call /\ rs' = rs
<1> SUFFICES ASSUME [Next]_vars PROVE call' = call
  BY DEF rs
<1> QED
  BY DEF Next, Walk, Returned, vars, RefuseIngress, RefuseHook, Refuse, Collect, EnterBase,
         BaseDone, AllAccepted, TooDeep, ChainEnd, RuleNoMatch, RuleSkipped, RuleUnknown,
         RuleContinue, RuleAccept, RuleDrop, RuleDNAT, RuleUnhandled, RuleReturn, RuleCall,
         RuleMissing, ReturnToCaller, Return, Step

------------------------------------------------------------------------------
(* The rule that decides is the last one of the trace.                     *)
NoneDecided == \A i \in 1 .. Len(hits) : HitDecides(hits[i]) = "nothing"

LEMMA DecisionType ==
    /\ \A h : HitDecides(h) \in {"drop", "unknown", "nothing"}
    /\ \A a : HitDecides([p |-> Top.p, pc |-> Top.pc, action |-> a]) = Decision(Found)
  BY DEF HitDecides, Decision, Found

LEMMA DecisionKept ==
    ASSUME call' = call
    PROVE  \A h : HitDecides(h)' = HitDecides(h)
  BY DEF HitDecides, rs

LEMMA NoneDecidedYet ==
    ASSUME DecidingHitDecides, ret = Running, result = NoResult
    PROVE  NoneDecided
<1>1. ret.kind = "running" /\ result.kind = "pending"
  BY RunningType DEF NoResult
<1> QED
  BY <1>1, DecisionType DEF DecidingHitDecides, NoneDecided

(* What the trace looks like after one more rule was recorded. *)
LEMMA OneMoreHit ==
    ASSUME TypeOK, NoneDecided, call' = call, NEW a, Record(a)
    PROVE  /\ Len(hits') \in Nat \ {0}
           /\ HitDecides(hits[Len(hits)])' = Decision(Found)
           /\ \A i \in 1 .. Len(hits') : i # Len(hits') => HitDecides(hits[i])' = "nothing"
<1> DEFINE h == [p |-> Top.p, pc |-> Top.pc, action |-> a]
<1>1. hits' = Append(hits, h)
  BY DEF Record
<1>2. hits \in Seq(Hit) /\ Len(hits) \in Nat
  BY LenProperties DEF TypeOK
<1>3. HitDecides(h) = Decision(Found)
  BY DecisionType
<1> HIDE DEF h
<1>4. /\ Len(hits') = Len(hits) + 1 /\ hits'[Len(hits) + 1] = h
      /\ \A i \in 1 .. Len(hits) : hits'[i] = hits[i]
  BY <1>1, <1>2
<1> QED
  BY <1>2, <1>3, <1>4, DecisionKept DEF NoneDecided

LEMMA StillNone ==
    ASSUME TypeOK, NoneDecided, call' = call,
           \/ hits' = hits
           \/ Decision(Found) = "nothing" /\ \E a : Record(a)
    PROVE  DecidingHitDecides'
<1>1. CASE hits' = hits
  BY <1>1, DecisionKept DEF NoneDecided, DecidingHitDecides
<1>2. ASSUME NEW a, Decision(Found) = "nothing", Record(a) PROVE DecidingHitDecides'
  <2>1. \A i \in 1 .. Len(hits') : HitDecides(hits[i])' = "nothing"
    BY <1>2, OneMoreHit
  <2> QED
    BY <2>1 DEF DecidingHitDecides
<1> QED
  BY <1>1, <1>2

(* A deciding rule is recorded as the last hit and its result returned.    *)
LEMMA DecidesNow ==
    ASSUME TypeOK, NoneDecided, result = NoResult, call' = call, NEW a, Record(a),
           NEW r, Return(r), r.kind = Decision(Found)
    PROVE  DecidingHitDecides'
<1>1. ret' = r /\ result' = NoResult
  BY DEF Return
<1>2. /\ HitDecides(hits[Len(hits)])' = Decision(Found)
      /\ \A i \in 1 .. Len(hits') : i # Len(hits') => HitDecides(hits[i])' = "nothing"
  BY OneMoreHit
<1> QED
  BY <1>1, <1>2 DEF DecidingHitDecides

LEMMA DecidingNext ==
    TypeOK /\ StackShape /\ DecidingHitDecides /\ [Next]_vars => DecidingHitDecides'
<1> SUFFICES ASSUME TypeOK, StackShape, DecidingHitDecides, [Next]_vars
             PROVE  DecidingHitDecides'
  OBVIOUS
<1>c. call' = call
  BY CallKept
<1>1. CASE ret = Running /\ result = NoResult
  <2>0. NoneDecided
    BY <1>1, NoneDecidedYet
  <2>1. CASE hits' = hits
    BY <1>c, <2>0, <2>1, StillNone
  <2>2. CASE RuleSkipped
    <3>1. Decision(Found) = "nothing" /\ Record("skipped")
      BY <2>2 DEF RuleSkipped, Decision, Dropped, Unresolved
    <3> QED
      BY <1>c, <2>0, <3>1, StillNone
  <2>3. CASE RuleUnknown
    <3>1. Decision(Found) = "unknown" /\ Record(Found.act.kind)
      BY <2>3 DEF RuleUnknown, Decision, Dropped, Unresolved
    <3>2. Return(Res("unknown", "expression")) /\ Res("unknown", "expression").kind = "unknown"
      BY <2>3 DEF RuleUnknown, Res
    <3> QED
      BY <1>1, <1>c, <2>0, <3>1, <3>2, DecidesNow
  <2>4. ASSUME NEW K, RuleMatches(K), K \cap {"drop", "reject", "queue", "unknown"} = {}
        PROVE  DecidingHitDecides'
    <3>1. Decision(Found) = "nothing" /\ Record(Found.act.kind)
      BY <2>4 DEF RuleMatches, Decision, Dropped, Unresolved
    <3> QED
      BY <1>c, <2>0, <3>1, StillNone
  <2>5. CASE RuleDrop
    <3>1. Decision(Found) = "drop" /\ Record(Found.act.kind)
      BY <2>5 DEF RuleDrop, RuleMatches, Decision, Dropped
    <3>2. Return(Res("drop", "rule")) /\ Res("drop", "rule").kind = "drop"
      BY <2>5 DEF RuleDrop, Res
    <3> QED
      BY <1>1, <1>c, <2>0, <3>1, <3>2, DecidesNow
  <2>6. CASE RuleUnhandled
    <3>1. Decision(Found) = "unknown" /\ Record(Found.act.kind)
      BY <2>6 DEF RuleUnhandled, RuleMatches, Decision, Dropped, Unresolved
    <3>2. Return(Res("unknown", "verdict")) /\ Res("unknown", "verdict").kind = "unknown"
      BY <2>6 DEF RuleUnhandled, Res
    <3> QED
      BY <1>1, <1>c, <2>0, <3>1, <3>2, DecidesNow
  <2>7. CASE RuleContinue \/ RuleAccept \/ RuleDNAT \/ RuleReturn \/ RuleCall \/ RuleMissing
    BY <2>4, <2>7 DEF RuleContinue, RuleAccept, RuleDNAT, RuleReturn, RuleCall, RuleMissing
  <2> QED
    BY <2>1, <2>2, <2>3, <2>5, <2>6, <2>7
    DEF Next, Walk, Returned, vars, RefuseIngress, RefuseHook, Refuse, Collect, EnterBase,
        BaseDone, AllAccepted, TooDeep, ChainEnd, RuleNoMatch, ReturnToCaller
<1>2. CASE ret # Running /\ result = NoResult
  <2>1. stack # <<>> /\ started
    BY <1>2 DEF StackShape
  <2>2. ReturnToCaller \/ BaseDone \/ UNCHANGED vars
    BY <1>2, <2>1
    DEF Next, Walk, Returned, RefuseIngress, RefuseHook, Refuse, Collect, EnterBase,
        AllAccepted, TooDeep, ChainEnd, RuleNoMatch, RuleSkipped, RuleUnknown, RuleContinue,
        RuleAccept, RuleDrop, RuleDNAT, RuleUnhandled, RuleReturn, RuleCall, RuleMissing,
        RuleMatches, AtRule, Executing
  <2>3. CASE ReturnToCaller
    <3>1. ret' = AfterCall(ret, Top.via, Caller.p) /\ hits' = hits /\ result' = result
      BY <2>3 DEF ReturnToCaller
    <3>2. ret.kind \in {"drop", "unknown"} => ret' = ret
      BY <3>1 DEF AfterCall
    <3>3. \A h : HitDecides(h)' = HitDecides(h) /\ HitDecides(h) \in {"drop", "unknown", "nothing"}
      BY <1>c, DecisionKept, DecisionType
    <3>4. result.kind = "pending"
      BY <1>2 DEF NoResult
    <3> QED
      BY <1>2, <3>1, <3>2, <3>3, <3>4 DEF DecidingHitDecides
  <2>4. CASE BaseDone
    <3>1. result' = BaseResult(ret) /\ hits' = hits
      BY <2>4 DEF BaseDone
    <3>2. ret.kind \in {"drop", "unknown"} => result' = ret
      BY <3>1, BaseResultType DEF TypeOK
    <3>3. \A h : HitDecides(h)' = HitDecides(h) /\ HitDecides(h) \in {"drop", "unknown", "nothing"}
      BY <1>c, DecisionKept, DecisionType
    <3>4. result.kind = "pending"
      BY <1>2 DEF NoResult
    <3> QED
      BY <1>2, <3>1, <3>2, <3>3, <3>4 DEF DecidingHitDecides
  <2>5. CASE UNCHANGED vars
    BY <1>c, <2>5, DecisionKept DEF vars, DecidingHitDecides
  <2> QED
    BY <2>2, <2>3, <2>4, <2>5
<1>3. CASE result # NoResult
  <2>1. UNCHANGED vars
    BY <1>3
    DEF Next, Walk, Returned, RefuseIngress, RefuseHook, Refuse, Collect, EnterBase, BaseDone,
        AllAccepted, TooDeep, ChainEnd, RuleNoMatch, RuleSkipped, RuleUnknown, RuleContinue,
        RuleAccept, RuleDrop, RuleDNAT, RuleUnhandled, RuleReturn, RuleCall, RuleMissing,
        RuleMatches, AtRule, Executing, ReturnToCaller, Walking
  <2> QED
    BY <1>c, <2>1, DecisionKept DEF vars, DecidingHitDecides
<1> QED
  BY <1>1, <1>2, <1>3

(* A drop or an unresolved rule is never turned into anything else by a    *)
(* calling chain or by a later base chain.                                 *)
THEOREM DecidingRuleDecides == Spec => []DecidingHitDecides
<1>1. Init => TypeOK /\ StackShape /\ DecidingHitDecides
  <2>1. Init => DecidingHitDecides
    BY DEF Init, DecidingHitDecides
  <2> QED
    BY <2>1, TypeInit, ShapeInit
<1>2. TypeOK /\ StackShape /\ DecidingHitDecides /\ [Next]_vars
        => (TypeOK /\ StackShape /\ DecidingHitDecides)'
  BY TypeNext, ShapeNext, DecidingNext
<1> QED
  BY <1>1, <1>2, PTL DEF Spec

------------------------------------------------------------------------------
(* A goto never comes back.  Every frame but the innermost stands at the   *)
(* jump or goto that started the next one, and "none" is only returned     *)
(* from the end of a chain or a return, never out of the middle of a call. *)
CallsInv ==
    /\ \A i \in 1 .. Len(stack) : i < Len(stack) => Calling(i)
    /\ ret.kind = "none" => ~Calling(Len(stack))

LEMMA CallingKept ==
    ASSUME call' = call, NEW i, stack'[i] = stack[i]
    PROVE  Calling(i)' <=> Calling(i)
  BY DEF Calling, rs

LEMMA NeverNone ==
    ASSUME NEW r, NEW via \in {"jump", "goto"}, NEW p
    PROVE  AfterCall(r, via, p).kind # "none"
<1>1. Unwind(p).kind # "none"
  BY ResultTypes DEF Unwind, Res
<1>2. CASE r.kind = "unwind"
  BY <1>1, <1>2 DEF AfterCall
<1>3. CASE r.kind = "none"
  BY <1>1, <1>3, RunningType DEF AfterCall
<1>4. CASE r.kind \notin {"none", "unwind"}
  BY <1>4 DEF AfterCall
<1> QED
  BY <1>2, <1>3, <1>4

LEMMA CallsReturn ==
    ASSUME CallsInv, call' = call, NEW r, Return(r), r.kind = "none" => ~Calling(Len(stack))
    PROVE  CallsInv'
<1>1. stack' = stack /\ ret' = r
  BY DEF Return
<1> QED
  BY <1>1, CallingKept DEF CallsInv

LEMMA CallsStep ==
    ASSUME TypeOK, CallsInv, AtRule, Step, call' = call
    PROVE  CallsInv'
<1>1. stack \in Seq(FrameT) /\ stack # <<>> /\ ret' = Running
  BY DEF TypeOK, AtRule, Executing, Step
<1>2. /\ Len(stack') = Len(stack)
      /\ \A i \in 1 .. Len(stack) : i < Len(stack) => stack'[i] = stack[i]
  BY <1>1, AdvancedType DEF Step
<1> QED
  BY <1>1, <1>2, RunningType, CallingKept DEF CallsInv

(* What a step that returns to a caller leaves of the frames below. *)
LEMMA PopLeaves ==
    ASSUME TypeOK, StackShape, ReturnToCaller
    PROVE  /\ Len(stack) \in Nat /\ Len(stack) > 1
           /\ Len(stack') = Len(stack) - 1
           /\ \A i \in 1 .. Len(stack) - 1 : i < Len(stack) - 1 => stack'[i] = stack[i]
           /\ \A i \in 1 .. Len(stack) - 1 : stack'[i].via = stack[i].via
           /\ ret' # Running => \A i \in 1 .. Len(stack) - 1 : stack'[i] = stack[i]
           /\ ret'.kind # "none"
           /\ ret' = Running => ret.kind = "none" /\ Top.via = "jump"
<1> DEFINE below == SubSeq(stack, 1, Len(stack) - 1)
<1>1. /\ below \in Seq(FrameT) /\ Len(below) = Len(stack) - 1 /\ below # <<>>
      /\ \A j \in 1 .. Len(stack) - 1 : below[j] = stack[j]
  BY BelowType DEF ReturnToCaller, TypeOK
<1>2. stack' = IF ret' = Running THEN Advanced(below) ELSE below
  BY DEF ReturnToCaller
<1> HIDE DEF below
<1>3. Len(stack) \in Nat /\ Len(stack) > 1
  BY LenProperties DEF ReturnToCaller, TypeOK
<1>4. /\ Len(Advanced(below)) = Len(stack) - 1
      /\ \A j \in 1 .. Len(stack) - 1 : Advanced(below)[j].via = stack[j].via
      /\ \A j \in 1 .. Len(stack) - 1 : j < Len(stack) - 1 => Advanced(below)[j] = stack[j]
  BY <1>1, AdvancedType
<1>5. Top.via \in {"jump", "goto"}
  BY <1>3 DEF StackShape, Top
<1>6. ret' = AfterCall(ret, Top.via, Caller.p) /\ ret.kind # "running"
  BY DEF ReturnToCaller, StackShape
<1>7. ret'.kind # "none"
  BY <1>5, <1>6, NeverNone
<1>8. ret' = Running => ret.kind = "none" /\ Top.via = "jump"
  <2>1. ASSUME ret.kind = "unwind" \/ (ret.kind = "none" /\ Top.via = "goto")
        PROVE  ret' # Running
    <3>1. ret' = Unwind(Caller.p)
      BY <1>6, <2>1 DEF AfterCall
    <3> QED
      BY <3>1, UnwindType, RunningType
  <2>2. ASSUME ret.kind \notin {"none", "unwind"} PROVE ret' # Running
    <3>1. ret' = ret
      BY <1>6, <2>2 DEF AfterCall
    <3> QED
      BY <1>6, <3>1, RunningType
  <2> QED
    BY <1>5, <2>1, <2>2
<1> QED
  BY <1>1, <1>2, <1>3, <1>4, <1>7, <1>8

LEMMA CallsInit == Init => CallsInv
<1> SUFFICES ASSUME Init PROVE CallsInv
  OBVIOUS
<1>1. Len(stack) = 0 /\ ret.kind = "running"
  BY RunningType DEF Init
<1> QED
  BY <1>1 DEF CallsInv

LEMMA CallsNext == TypeOK /\ StackShape /\ CallsInv /\ [Next]_vars => CallsInv'
<1> SUFFICES ASSUME TypeOK, StackShape, CallsInv, [Next]_vars PROVE CallsInv'
  OBVIOUS
<1>c. call' = call
  BY CallKept
<1>1. CASE stack' = stack /\ ret' = ret
  BY <1>c, <1>1, CallingKept DEF CallsInv
<1>2. ASSUME NEW p \in left, EnterBase(p) PROVE CallsInv'
  <2>1. Len(stack') = 1 /\ ret' = Running
    BY <1>2 DEF EnterBase, StackShape
  <2>2. ret'.kind # "none"
    BY <2>1, RunningType
  <2>3. \A i \in 1 .. Len(stack') : i < Len(stack') => FALSE
    BY <2>1
  <2> QED
    BY <2>2, <2>3 DEF CallsInv
<1>3. CASE BaseDone
  <2>1. Len(stack') = 0 /\ ret' = Running
    BY <1>3 DEF BaseDone
  <2>2. ret'.kind # "none"
    BY <2>1, RunningType
  <2>3. \A i \in 1 .. Len(stack') : i < Len(stack') => FALSE
    BY <2>1
  <2> QED
    BY <2>2, <2>3 DEF CallsInv
<1>4. CASE TooDeep \/ RuleUnknown \/ RuleAccept \/ RuleDrop \/ RuleDNAT \/ RuleUnhandled \/ RuleMissing
  <2>1. ASSUME NEW k \in {"accept", "drop", "unknown"}, NEW why, Return(Res(k, why))
        PROVE  CallsInv'
    <3>1. Res(k, why).kind # "none"
      BY DEF Res
    <3> QED
      BY <1>c, <2>1, <3>1, CallsReturn
  <2> QED
    BY <1>4, <2>1 DEF TooDeep, RuleUnknown, RuleAccept, RuleDrop, RuleDNAT, RuleUnhandled, RuleMissing
<1>5. CASE RuleReturn
  <2>1. ~Calling(Len(stack))
    BY <1>5 DEF RuleReturn, RuleMatches, Calling, Found, Top
  <2> QED
    BY <1>c, <1>5, <2>1, CallsReturn DEF RuleReturn
<1>6. CASE ChainEnd
  <2>1. Top.pc \in Nat /\ Len(Here.rules) \in Nat
    BY <1>6, TopType, LenProperties DEF ChainEnd, Executing, FrameT, Chain
  <2>2. ~(Top.pc <= Len(Here.rules))
    BY <1>6, <2>1 DEF ChainEnd
  <2>3. ~Calling(Len(stack))
    BY <2>2 DEF Calling, Top, Here
  <2> QED
    BY <1>c, <1>6, <2>3, CallsReturn DEF ChainEnd
<1>7. CASE RuleNoMatch \/ RuleSkipped \/ RuleContinue
  BY <1>c, <1>7, CallsStep DEF RuleNoMatch, RuleSkipped, RuleContinue, RuleMatches
<1>8. CASE RuleCall
  <2>1. Calling(Len(stack))
    BY <1>8 DEF RuleCall, RuleMatches, AtRule, Calling, Found, Top, Here
  <2>2. PICK p : stack' = Append(stack, Frame(p, Found.act.kind))
    BY <1>8 DEF RuleCall
  <2>3. ret' = Running /\ Len(stack) \in Nat /\ stack \in Seq(FrameT)
    BY <1>8, LenProperties DEF RuleCall, RuleMatches, AtRule, Executing, TypeOK
  <2>4. Len(stack') = Len(stack) + 1 /\ \A i \in 1 .. Len(stack) : stack'[i] = stack[i]
    BY <2>2, <2>3
  <2>5. ASSUME NEW i \in 1 .. Len(stack'), i < Len(stack') PROVE Calling(i)'
    <3>1. i \in 1 .. Len(stack) /\ (i < Len(stack) \/ i = Len(stack)) /\ stack'[i] = stack[i]
      BY <2>3, <2>4, <2>5
    <3>2. Calling(i)
      BY <2>1, <3>1 DEF CallsInv
    <3> QED
      BY <1>c, <3>1, <3>2, CallingKept
  <2>6. ret'.kind # "none"
    BY <2>3, RunningType
  <2> QED
    BY <2>5, <2>6 DEF CallsInv
<1>9. CASE ReturnToCaller
  <2>1. /\ Len(stack) \in Nat /\ Len(stack') = Len(stack) - 1 /\ ret'.kind # "none"
        /\ \A i \in 1 .. Len(stack) - 1 : i < Len(stack) - 1 => stack'[i] = stack[i]
    BY <1>9, PopLeaves
  <2>2. ASSUME NEW i \in 1 .. Len(stack'), i < Len(stack') PROVE Calling(i)'
    <3>1. i \in 1 .. Len(stack) /\ i < Len(stack) /\ stack'[i] = stack[i]
      BY <2>1, <2>2
    <3> QED
      BY <1>c, <3>1, CallingKept DEF CallsInv
  <2> QED
    BY <2>1, <2>2 DEF CallsInv
<1> QED
  BY <1>1, <1>2, <1>3, <1>4, <1>5, <1>6, <1>7, <1>8, <1>9
  DEF Next, Walk, Returned, vars, RefuseIngress, RefuseHook, Refuse, Collect, AllAccepted

(* A dead frame keeps its place, and stays dead until it leaves the stack. *)
LEMMA GotoStep ==
    ASSUME TypeOK, StackShape, CallsInv, Next,
           NEW i \in 1 .. Len(stack), Dead(i), i <= Len(stack')
    PROVE  stack'[i] = stack[i] /\ Dead(i)'
<1>c. call' = call
  BY CallKept
<1>s. stack \in Seq(FrameT) /\ Len(stack) \in Nat \ {0} /\ stack # <<>>
  BY LenProperties, EmptySeq DEF TypeOK
<1>1. CASE UNCHANGED vars
  BY <1>1 DEF vars, Dead, Calling, rs
<1>2. CASE ret = Running
  <2>1. PICK k \in i + 1 .. Len(stack) : stack[k].via = "goto"
    BY <1>2 DEF Dead
  <2>2. CASE stack' = stack
    BY <2>1, <2>2 DEF Dead
  <2>3. CASE Step
    <3>1. /\ Len(stack') = Len(stack) /\ stack'[k].via = stack[k].via
          /\ i < Len(stack) => stack'[i] = stack[i]
      BY <1>s, <2>1, <2>3, AdvancedType DEF Step
    <3> QED
      BY <1>s, <2>1, <3>1 DEF Dead
  <2>4. CASE RuleCall
    <3>1. Len(stack') = Len(stack) + 1 /\ stack'[k] = stack[k] /\ stack'[i] = stack[i]
      BY <1>s, <2>1, <2>4 DEF RuleCall
    <3> QED
      BY <1>s, <2>1, <3>1 DEF Dead
  <2> QED
    BY <1>2, <1>s, <2>2, <2>3, <2>4
    DEF Next, Walk, Returned, vars, RefuseIngress, RefuseHook, Refuse, Collect, EnterBase,
        BaseDone, AllAccepted, TooDeep, ChainEnd, RuleNoMatch, RuleSkipped, RuleUnknown,
        RuleContinue, RuleAccept, RuleDrop, RuleDNAT, RuleUnhandled, RuleReturn, RuleMissing,
        ReturnToCaller, Return
<1>3. CASE ret # Running /\ ReturnToCaller
  <2>1. CASE ret' = Running
    <3>1. ret.kind = "none" /\ Top.via = "jump"
      BY <1>3, <2>1, PopLeaves
    <3>2. PICK k \in i + 1 .. Len(stack) : stack[k].via = "goto"
      BY <3>1 DEF Dead, CallsInv
    <3>3. k # Len(stack)
      BY <3>1, <3>2 DEF Top
    <3>4. k \in 1 .. Len(stack) - 1 /\ i < k /\ i < Len(stack) - 1 /\ i \in 1 .. Len(stack) - 1
      BY <1>s, <3>2, <3>3
    <3>5. /\ Len(stack') = Len(stack) - 1
          /\ stack'[k].via = stack[k].via /\ stack'[i] = stack[i]
      BY <1>3, <3>4, PopLeaves
    <3>6. k \in i + 1 .. Len(stack')
      BY <1>s, <3>4, <3>5
    <3> QED
      BY <3>2, <3>5, <3>6 DEF Dead
  <2>2. CASE ret' # Running
    <3>1. /\ Len(stack) > 1 /\ Len(stack') = Len(stack) - 1
          /\ \A j \in 1 .. Len(stack) - 1 : stack'[j] = stack[j]
      BY <1>3, <2>2, PopLeaves
    <3>2. PICK n \in Nat : n = Len(stack')
      BY <1>s, <3>1
    <3>3. n \in 1 .. Len(stack) - 1 /\ n \in 1 .. Len(stack) /\ n < Len(stack)
      BY <1>s, <3>1, <3>2
    <3>4. Calling(n)
      BY <3>3 DEF CallsInv
    <3>5. Calling(n)'
      BY <1>c, <3>1, <3>3, <3>4, CallingKept
    <3>6. i \in 1 .. Len(stack) - 1
      BY <1>s, <3>1
    <3> QED
      BY <2>2, <3>1, <3>2, <3>5, <3>6 DEF Dead
  <2> QED
    BY <2>1, <2>2
<1>4. CASE ret # Running /\ BaseDone
  BY <1>4 DEF BaseDone
<1> QED
  BY <1>s, <1>1, <1>2, <1>3, <1>4
  DEF Next, Walk, Returned, RefuseIngress, RefuseHook, Refuse, Collect, EnterBase,
      AllAccepted, TooDeep, ChainEnd, RuleNoMatch, RuleSkipped, RuleUnknown, RuleContinue,
      RuleAccept, RuleDrop, RuleDNAT, RuleUnhandled, RuleReturn, RuleCall, RuleMissing,
      RuleMatches, AtRule, Executing, StackShape

(* A goto never comes back: not to the chain that issued it, nor, however  *)
(* many returns later, to any chain that called it.                        *)
THEOREM GotoNeverReturns == Spec => GotoNeverResumes
<1>1. Init => TypeOK /\ StackShape /\ CallsInv
  BY TypeInit, ShapeInit, CallsInit
<1>2. TypeOK /\ StackShape /\ CallsInv /\ [Next]_vars => (TypeOK /\ StackShape /\ CallsInv)'
  BY TypeNext, ShapeNext, CallsNext
<1>3. TypeOK /\ StackShape /\ CallsInv /\ [Next]_vars =>
        [\A i \in 1 .. Len(stack) :
            Dead(i) /\ i <= Len(stack') => stack'[i] = stack[i] /\ Dead(i)']_vars
  BY GotoStep
<1> QED
  BY <1>1, <1>2, <1>3, PTL DEF Spec, GotoNeverResumes

------------------------------------------------------------------------------
(* Jumps stay in their table when table names do not clash.                *)
TableInv ==
    /\ \A p \in left : Visible(p[1])
    /\ \A i \in 1 .. Len(stack) : Visible(stack[i].p[1])
    /\ NamesUnique => \A i \in 1 .. Len(stack) : stack[i].p[1] = stack[1].p[1]

LEMMA OwnSets ==
    ASSUME TypeOK, NamesUnique, NEW t, Visible(t)
    PROVE  TableSets(rs, call.family, rs[t].name) = rs[t].sets
<1> DEFINE named == {u \in 1 .. Len(rs) : rs[u].name = rs[t].name /\ InFamily(rs, call.family, u)}
           first == {u \in named : \A v \in named : u <= v}
<1>1. named = {t}
  BY DEF NamesUnique, Visible
<1>2. t \in Nat
  BY CallType, LenProperties DEF Visible
<1>3. first = {t}
  BY <1>1, <1>2
<1>4. TableSets(rs, call.family, rs[t].name)
        = IF first = {} THEN <<>> ELSE rs[CHOOSE u \in first : TRUE].sets
  BY DEF TableSets
<1> QED
  BY <1>3, <1>4

LEMMA TableKeeps == TypeOK /\ TableInv => UniqueNamesKeepTable
  BY OwnSets DEF TableInv, UniqueNamesKeepTable, WalkStaysInTable

LEMMA TableInit == Init => TableInv
<1> SUFFICES ASSUME Init PROVE TableInv
  OBVIOUS
<1>1. left = {} /\ stack = <<>> /\ Len(stack) = 0
  BY DEF Init
<1>2. \A i \in 1 .. Len(stack) : FALSE
  BY <1>1
<1> QED
  BY <1>1, <1>2 DEF TableInv

LEMMA TableNext == TypeOK /\ StackShape /\ TableInv /\ [Next]_vars => TableInv'
<1> SUFFICES ASSUME TypeOK, StackShape, TableInv, [Next]_vars PROVE TableInv'
  OBVIOUS
<1>c. call' = call /\ rs' = rs /\ (NamesUnique' <=> NamesUnique)
      /\ \A t : Visible(t)' <=> Visible(t)
  <2>1. call' = call
    BY CallKept
  <2> QED
    BY <2>1 DEF rs, NamesUnique, Visible
<1>s. stack \in Seq(FrameT) /\ Len(stack) \in Nat
  BY LenProperties DEF TypeOK
<1>1. CASE stack' = stack /\ left' = left
  BY <1>c, <1>1 DEF TableInv
<1>2. CASE Collect
  <2>1. \A p \in left' : Visible(p[1])
    BY <1>2, CallType, PlaceType DEF Collect, BaseChains, Visible
  <2>2. stack' = stack
    BY <1>2 DEF Collect
  <2> QED
    BY <1>c, <2>1, <2>2 DEF TableInv
<1>3. ASSUME NEW p \in left, EnterBase(p) PROVE TableInv'
  <2>1. Len(stack') = 1 /\ stack'[1].p = p
    BY <1>3 DEF EnterBase, Frame
  <2>2. left' \subseteq left /\ Visible(p[1])
    BY <1>3 DEF EnterBase, TableInv
  <2>3. \A i \in 1 .. Len(stack') : i = 1
    BY <2>1
  <2> QED
    BY <1>c, <2>1, <2>2, <2>3 DEF TableInv
<1>4. CASE BaseDone
  <2>1. \A i \in 1 .. Len(stack') : FALSE
    BY <1>4 DEF BaseDone
  <2> QED
    BY <1>c, <1>4, <2>1 DEF BaseDone, TableInv
<1>5. CASE Step /\ AtRule
  <2>1. stack # <<>> /\ stack' = Advanced(stack) /\ left' = left
    BY <1>5 DEF Step, AtRule, Executing
  <2>2. Len(stack') = Len(stack) /\ 1 \in 1 .. Len(stack)
    BY <1>s, <2>1, AdvancedType, EmptySeq
  <2>3. ASSUME NEW i \in 1 .. Len(stack) PROVE stack'[i].p = stack[i].p
    BY <1>s, <2>1, AdvancedType
  <2> QED
    BY <1>c, <2>1, <2>2, <2>3 DEF TableInv
<1>6. CASE RuleCall
  <2>1. PICK p \in CalledChain : stack' = Append(stack, Frame(p, Found.act.kind))
    BY <1>6 DEF RuleCall
  <2>2. stack # <<>> /\ Len(stack) \in Nat \ {0}
    BY <1>6, <1>s, EmptySeq DEF RuleCall, RuleMatches, AtRule, Executing
  <2>3. /\ Len(stack') = Len(stack) + 1
        /\ \A i \in 1 .. Len(stack) : stack'[i] = stack[i]
        /\ stack'[Len(stack) + 1].p = p
    BY <1>s, <2>1 DEF Frame
  <2>4. rs[p[1]].name = rs[Top.p[1]].name /\ InFamily(rs, call.family, p[1])
    BY DEF CalledChain, FindChain, FirstPlace
  <2>5. p[1] \in 1 .. Len(rs)
    BY FindChainType, CallType, PlaceType DEF CalledChain
  <2>6. Visible(p[1]) /\ Visible(Top.p[1])
    BY <2>2, <2>4, <2>5 DEF Visible, TableInv, Top
  <2>7. NamesUnique => p[1] = Top.p[1]
    BY <2>4, <2>6 DEF NamesUnique, Visible
  <2>8. NamesUnique => p[1] = stack[1].p[1]
    BY <2>2, <2>7 DEF TableInv, Top
  <2>9. left' = left
    BY <1>6 DEF RuleCall
  <2>10. \A i \in 1 .. Len(stack') : Visible(stack'[i].p[1])
    BY <2>2, <2>3, <2>6 DEF TableInv
  <2>11. NamesUnique => \A i \in 1 .. Len(stack') : stack'[i].p[1] = stack'[1].p[1]
    BY <2>2, <2>3, <2>8 DEF TableInv
  <2> QED
    BY <1>c, <2>9, <2>10, <2>11 DEF TableInv
<1>7. CASE ReturnToCaller
  <2> DEFINE below == SubSeq(stack, 1, Len(stack) - 1)
  <2>1. /\ below \in Seq(FrameT) /\ Len(below) = Len(stack) - 1 /\ below # <<>>
        /\ \A i \in 1 .. Len(stack) - 1 : below[i] = stack[i]
    BY <1>7, BelowType DEF ReturnToCaller, TypeOK
  <2>2. stack' = Advanced(below) \/ stack' = below
    BY <1>7 DEF ReturnToCaller
  <2> HIDE DEF below
  <2>3. Len(stack') = Len(stack) - 1 /\ Len(stack) > 1 /\ left' = left
    BY <1>7, <2>1, <2>2, AdvancedType DEF ReturnToCaller
  <2>4. ASSUME NEW i \in 1 .. Len(stack) - 1
        PROVE  stack'[i].p = stack[i].p
    <3>1. Advanced(below)[i].p = below[i].p
      BY <2>1, AdvancedType
    <3> QED
      BY <2>1, <2>2, <3>1
  <2>5. \A i \in 1 .. Len(stack') : Visible(stack'[i].p[1])
    BY <1>s, <2>3, <2>4 DEF TableInv
  <2>6. NamesUnique => \A i \in 1 .. Len(stack') : stack'[i].p[1] = stack'[1].p[1]
    BY <1>s, <2>3, <2>4 DEF TableInv
  <2> QED
    BY <1>c, <2>3, <2>5, <2>6 DEF TableInv
<1> QED
  BY <1>1, <1>2, <1>3, <1>4, <1>5, <1>6, <1>7
  DEF Next, Walk, Returned, vars, RefuseIngress, RefuseHook, Refuse, AllAccepted, TooDeep,
      ChainEnd, RuleNoMatch, RuleSkipped, RuleUnknown, RuleContinue, RuleAccept, RuleDrop,
      RuleDNAT, RuleUnhandled, RuleReturn, RuleMissing, Return, RuleMatches

(* With no two visible tables of one name, every chain of a walk belongs   *)
(* to the table of its base chain, and its rules see that table's sets.    *)
THEOREM JumpsStayInTheirTable == Spec => []UniqueNamesKeepTable
<1>1. Init => TypeOK /\ StackShape /\ TableInv
  BY TypeInit, ShapeInit, TableInit
<1>2. TypeOK /\ StackShape /\ TableInv /\ [Next]_vars => (TypeOK /\ StackShape /\ TableInv)'
  BY TypeNext, ShapeNext, TableNext
<1> QED
  BY <1>1, <1>2, TableKeeps, PTL DEF Spec

------------------------------------------------------------------------------
(***************************************************************************)
(* Traverse implements HookSpec: the call stack of walkChain, with its     *)
(* unwinding, comes to what the specification of a hook says.              *)
(***************************************************************************)
(* HookSpec reads a ruleset as Traverse does.                              *)
LEMMA SameReading ==
    /\ \A r, p : Hook!ChainAt(r, p) = ChainAt(r, p)
    /\ \A k, w : Hook!Res(k, w) = Res(k, w)
    /\ \A r, p : Hook!BasePolicyResult(r, p) = BasePolicyResult(r, p)
<1>1. \A r, p : Hook!ChainAt(r, p) = ChainAt(r, p)
  BY DEF Hook!ChainAt, ChainAt
<1>2. \A k, w : Hook!Res(k, w) = Res(k, w)
  BY DEF Hook!Res, Res
<1>3. \A r, p : Hook!BasePolicyResult(r, p) = BasePolicyResult(r, p)
  BY <1>1, <1>2 DEF Hook!BasePolicyResult, BasePolicyResult
<1> QED
  BY <1>1, <1>2, <1>3

LEMMA SameWalk ==
    /\ \A r, f, h : Hook!BaseChains(r, f, h) = BaseChains(r, f, h)
    /\ \A r, i : Hook!IngressUnmodelled(r, i) <=> IngressUnmodelled(r, i)
    /\ \A r, f : Hook!UnknownHook(r, f) <=> UnknownHook(r, f)
    /\ \A r, l, p : Hook!IsNext(r, l, p) <=> IsNext(r, l, p)
    /\ \A r, f, t, c : Hook!FindChain(r, f, t, c) = FindChain(r, f, t, c)
    /\ \A r, f, p, c : Hook!Matched(r, f, p, c) = Matched(r, f, p, c)
<1>1. \A r : Hook!Places(r) = Places(r)
  BY DEF Hook!Places, Places
<1>2. \A r, f, t : Hook!InFamily(r, f, t) <=> InFamily(r, f, t)
  BY DEF Hook!InFamily, InFamily
<1>3. \A k, l : Hook!LexLess(k, l) <=> LexLess(k, l)
  BY DEF Hook!LexLess, LexLess
<1>4. \A r, f, h : Hook!BaseChains(r, f, h) = BaseChains(r, f, h)
  BY <1>1, <1>2, SameReading DEF Hook!BaseChains, BaseChains
<1>5. \A r, i : Hook!IngressUnmodelled(r, i) <=> IngressUnmodelled(r, i)
  BY <1>1, SameReading DEF Hook!IngressUnmodelled, IngressUnmodelled, Hook!ChainSeesIface, ChainSeesIface
<1>6. \A r, f : Hook!UnknownHook(r, f) <=> UnknownHook(r, f)
  BY <1>1, <1>2, SameReading DEF Hook!UnknownHook, UnknownHook, Hook!KnownHooks, KnownHooks
<1>7. \A r, p : Hook!SortKey(r, p) = SortKey(r, p)
  BY SameReading DEF Hook!SortKey, SortKey
<1>8. \A r, l, p : Hook!IsNext(r, l, p) <=> IsNext(r, l, p)
  BY <1>3, <1>7 DEF Hook!IsNext, IsNext
<1>9. \A S : Hook!FirstPlace(S) = FirstPlace(S)
  BY <1>3 DEF Hook!FirstPlace, FirstPlace
<1>10. \A r, f, t, c : Hook!FindChain(r, f, t, c) = FindChain(r, f, t, c)
  BY <1>1, <1>2, <1>9, SameReading DEF Hook!FindChain, FindChain
<1>11. \A r, f, n : Hook!TableSets(r, f, n) = TableSets(r, f, n)
  <2> TAKE r, f, n
  <2> DEFINE named  == {t \in 1 .. Len(r) : r[t].name = n /\ InFamily(r, f, t)}
             namedH == {t \in 1 .. Len(r) : r[t].name = n /\ Hook!InFamily(r, f, t)}
             Sets(N) == LET first == {t \in N : \A u \in N : t <= u}
                        IN  IF first = {} THEN <<>> ELSE r[CHOOSE t \in first : TRUE].sets
  <2>1. named = namedH
    BY <1>2
  <2>2. TableSets(r, f, n) = Sets(named) /\ Hook!TableSets(r, f, n) = Sets(namedH)
    BY DEF TableSets, Hook!TableSets
  <2> HIDE DEF named, namedH, Sets
  <2> QED
    BY <2>1, <2>2
<1>12. \A r, f, p, c : Hook!Matched(r, f, p, c) = Matched(r, f, p, c)
  BY <1>11, SameReading DEF Hook!Matched, Matched
<1> QED
  BY <1>4, <1>5, <1>6, <1>8, <1>10, <1>12

------------------------------------------------------------------------------
(* What the mapping makes of a call stack.                                 *)
LEMMA Greatest ==
    ASSUME NEW n \in Nat, NEW S \in SUBSET (1 .. n), S # {}
    PROVE  \E m \in S : \A j \in S : j <= m
<1> DEFINE T == {k \in Nat : \A X \in SUBSET (1 .. k) : X # {} => \E m \in X : \A j \in X : j <= m}
<1>1. 0 \in T
  <2>1. 1 .. 0 = {}
    OBVIOUS
  <2> QED
    BY <2>1
<1>2. ASSUME NEW k \in Nat, k \in T
      PROVE  k + 1 \in T
  <2> SUFFICES ASSUME NEW X \in SUBSET (1 .. k + 1), X # {}
               PROVE  \E m \in X : \A j \in X : j <= m
    OBVIOUS
  <2>1. CASE k + 1 \in X
    BY <2>1
  <2>2. CASE k + 1 \notin X
    <3>1. X \in SUBSET (1 .. k)
      BY <2>2
    <3> QED
      BY <1>2, <3>1
  <2> QED
    BY <2>1, <2>2
<1> HIDE DEF T
<1>3. n \in T
  BY <1>1, <1>2, Induction
<1> QED
  BY <1>3 DEF T

(* A stack with a base chain at the bottom. *)
Grounded(r, s) ==
    /\ s \in Seq(FrameT) /\ s # <<>>
    /\ s[1].via = "base" /\ ChainAt(r, s[1].p).base
    /\ \A i \in 2 .. Len(s) : s[i].via \in {"jump", "goto"}

IsOwner(r, s, k, m) ==
    m \in Bases(r, s, k) /\ \A j \in Bases(r, s, k) : j <= m

IsLiveFrom(s, m) ==
    m \in 1 .. Len(s) /\ s[m].via # "jump" /\ \A j \in m + 1 .. Len(s) : s[j].via = "jump"

LEMMA OwnerExists ==
    ASSUME NEW r, NEW s, Grounded(r, s), NEW k \in 1 .. Len(s)
    PROVE  \E m : IsOwner(r, s, k, m) /\ Owner(r, s, k) = s[m].p
<1> DEFINE m0 == CHOOSE i \in Bases(r, s, k) : \A j \in Bases(r, s, k) : j <= i
<1>1. Len(s) \in Nat /\ k \in Nat /\ 1 \in Bases(r, s, k) /\ Bases(r, s, k) \in SUBSET (1 .. k)
  BY DEF Grounded, Bases
<1>2. \E m \in Bases(r, s, k) : \A j \in Bases(r, s, k) : j <= m
  <2> HIDE DEF Bases
  <2> QED
    BY <1>1, Greatest
<1>3. IsOwner(r, s, k, m0)
  BY <1>2 DEF IsOwner
<1>4. Owner(r, s, k) = s[m0].p
  BY DEF Owner
<1> QED
  BY <1>3, <1>4

LEMMA OwnerIs ==
    ASSUME NEW r, NEW s, Grounded(r, s), NEW k \in 1 .. Len(s), NEW m, IsOwner(r, s, k, m)
    PROVE  Owner(r, s, k) = s[m].p
<1>1. PICK o : IsOwner(r, s, k, o) /\ Owner(r, s, k) = s[o].p
  BY OwnerExists
<1>2. Bases(r, s, k) \subseteq 1 .. k /\ k \in Nat
  BY DEF Bases, Grounded
<1>3. o = m
  BY <1>1, <1>2 DEF IsOwner
<1> QED
  BY <1>1, <1>3

(* The owner of a frame is its own chain, when that is a base chain, or    *)
(* the owner of the frame below.                                           *)
LEMMA OwnerStep ==
    ASSUME NEW r, NEW s, Grounded(r, s), NEW k \in 1 .. Len(s)
    PROVE  /\ ChainAt(r, s[k].p).base => Owner(r, s, k) = s[k].p
           /\ ~ChainAt(r, s[k].p).base => k > 1 /\ Owner(r, s, k) = Owner(r, s, k - 1)
<1>1. Len(s) \in Nat
  BY DEF Grounded
<1>2. ASSUME ChainAt(r, s[k].p).base
      PROVE  Owner(r, s, k) = s[k].p
  <2>1. IsOwner(r, s, k, k)
    BY <1>1, <1>2 DEF IsOwner, Bases
  <2> QED
    BY <2>1, OwnerIs
<1>3. ASSUME ~ChainAt(r, s[k].p).base
      PROVE  k > 1 /\ Owner(r, s, k) = Owner(r, s, k - 1)
  <2>1. k > 1 /\ k - 1 \in 1 .. Len(s)
    BY <1>1, <1>3 DEF Grounded
  <2>2. PICK m : IsOwner(r, s, k - 1, m) /\ Owner(r, s, k - 1) = s[m].p
    BY <2>1, OwnerExists
  <2>3. Bases(r, s, k) = Bases(r, s, k - 1)
    BY <1>1, <1>3, <2>1 DEF Bases
  <2>4. IsOwner(r, s, k, m)
    BY <2>2, <2>3 DEF IsOwner
  <2> QED
    BY <2>1, <2>2, <2>4, OwnerIs
<1> QED
  BY <1>2, <1>3

(* Two stacks that hold the same chains up to a frame agree on its owner.  *)
LEMMA OwnerSame ==
    ASSUME NEW r, NEW s, NEW t, Grounded(r, s), Grounded(r, t), NEW k \in 1 .. Len(s),
           k <= Len(t), \A i \in 1 .. k : s[i].p = t[i].p
    PROVE  Owner(r, s, k) = Owner(r, t, k)
<1>1. Len(s) \in Nat /\ Len(t) \in Nat /\ k \in 1 .. Len(t)
  BY DEF Grounded
<1>2. PICK m : IsOwner(r, s, k, m) /\ Owner(r, s, k) = s[m].p
  BY OwnerExists
<1>3. Bases(r, s, k) = Bases(r, t, k)
  BY DEF Bases
<1>4. IsOwner(r, t, k, m) /\ m \in 1 .. k
  BY <1>2, <1>3 DEF IsOwner, Bases
<1> QED
  BY <1>1, <1>2, <1>4, OwnerIs

LEMMA LiveFromExists ==
    ASSUME NEW r, NEW s, Grounded(r, s)
    PROVE  IsLiveFrom(s, LiveFrom(s))
<1> DEFINE N == {i \in 1 .. Len(s) : s[i].via # "jump"}
<1>1. Len(s) \in Nat /\ Len(s) >= 1
  BY EmptySeq DEF Grounded
<1>2. N \in SUBSET (1 .. Len(s)) /\ 1 \in N
  BY <1>1 DEF Grounded
<1>3. PICK m \in N : \A j \in N : j <= m
  <2> HIDE DEF N
  <2> QED
    BY <1>1, <1>2, Greatest
<1>4. IsLiveFrom(s, m)
  BY <1>1, <1>3 DEF IsLiveFrom
<1> QED
  BY <1>4 DEF LiveFrom, IsLiveFrom

LEMMA LiveFromIs ==
    ASSUME NEW r, NEW s, Grounded(r, s), NEW m, IsLiveFrom(s, m)
    PROVE  LiveFrom(s) = m
<1>1. IsLiveFrom(s, LiveFrom(s)) /\ Len(s) \in Nat
  BY LiveFromExists DEF Grounded
<1> HIDE DEF Grounded
<1>2. LiveFrom(s) \in Nat /\ m \in Nat
  BY <1>1 DEF IsLiveFrom
<1>3. ~(LiveFrom(s) < m) /\ ~(m < LiveFrom(s))
  BY <1>1, <1>2 DEF IsLiveFrom
<1> QED
  BY <1>2, <1>3

Entry(r, s, i) == [p |-> s[i].p, pc |-> s[i].pc, owner |-> Owner(r, s, i)]

LEMMA LiveIs ==
    ASSUME NEW r, NEW s, Grounded(r, s), NEW m, IsLiveFrom(s, m)
    PROVE  /\ Len(s) \in Nat /\ m \in 1 .. Len(s)
           /\ Live(r, s) = [k \in 1 .. Len(s) - m + 1 |-> Entry(r, s, m + k - 1)]
           /\ Len(Live(r, s)) = Len(s) - m + 1
<1>1. LiveFrom(s) = m
  BY LiveFromIs
<1>2. Live(r, s) = [k \in 1 .. Len(s) - m + 1 |-> Entry(r, s, m + k - 1)]
  BY <1>1 DEF Live, Entry
<1>3. Len(s) \in Nat /\ m \in 1 .. Len(s)
  BY DEF Grounded, IsLiveFrom
<1>4. Len(s) - m + 1 \in Nat
  BY <1>3
<1> QED
  BY <1>2, <1>3, <1>4

(* The innermost live frame is the top of the stack, and frames wait below *)
(* it exactly when a jump started it.                                      *)
LEMMA LiveTop ==
    ASSUME NEW r, NEW s, Grounded(r, s)
    PROVE  /\ Len(Live(r, s)) \in Nat \ {0} /\ Live(r, s) # <<>>
           /\ Live(r, s)[Len(Live(r, s))] = Entry(r, s, Len(s))
           /\ Len(Live(r, s)) > 1 <=> s[Len(s)].via = "jump"
<1> DEFINE m == LiveFrom(s)  f == Live(r, s)
<1>1. IsLiveFrom(s, m)
  BY LiveFromExists
<1>2. /\ Len(s) \in Nat /\ m \in 1 .. Len(s)
      /\ f = [k \in 1 .. Len(s) - m + 1 |-> Entry(r, s, m + k - 1)]
      /\ Len(f) = Len(s) - m + 1
  BY <1>1, LiveIs
<1> HIDE DEF m, f
<1>3. Len(f) \in Nat \ {0} /\ f[Len(f)] = Entry(r, s, Len(s))
  <2>1. Len(s) - m + 1 \in 1 .. Len(s) - m + 1 /\ m + (Len(s) - m + 1) - 1 = Len(s)
    BY <1>2
  <2> QED
    BY <1>2, <2>1
<1>4. f # <<>>
  <2>1. Len(<<>>) = 0
    OBVIOUS
  <2> QED
    BY <1>3, <2>1
<1>5. Len(f) > 1 <=> s[Len(s)].via = "jump"
  BY <1>1, <1>2 DEF IsLiveFrom
<1> QED
  BY <1>3, <1>4, <1>5 DEF f

LEMMA SameFrames ==
    ASSUME NEW n, NEW f, NEW g, f = [k \in 1 .. n |-> f[k]], g = [k \in 1 .. n |-> g[k]],
           \A k \in 1 .. n : f[k] = g[k]
    PROVE  f = g
  OBVIOUS

LEMMA LiveEnter ==
    ASSUME NEW r, NEW p, Frame(p, "base") \in FrameT, ChainAt(r, p).base
    PROVE  /\ Grounded(r, <<Frame(p, "base")>>)
           /\ Live(r, <<Frame(p, "base")>>) = <<[p |-> p, pc |-> 1, owner |-> p]>>
<1> DEFINE s == <<Frame(p, "base")>>
<1>1. /\ s \in Seq(FrameT) /\ Len(s) = 1 /\ s # <<>>
      /\ s[1].p = p /\ s[1].pc = 1 /\ s[1].via = "base"
  BY DEF Frame
<1> HIDE DEF s
<1>2. Grounded(r, s) /\ IsLiveFrom(s, 1)
  BY <1>1 DEF Grounded, IsLiveFrom
<1>3. Owner(r, s, 1) = p
  BY <1>1, <1>2, OwnerStep
<1>4. Live(r, s) = [k \in 1 .. 1 |-> Entry(r, s, 1 + k - 1)]
  <2>1. Len(s) - 1 + 1 = 1
    BY <1>1
  <2> QED
    BY <1>2, <2>1, LiveIs
<1>5. Entry(r, s, 1) = [p |-> p, pc |-> 1, owner |-> p]
  BY <1>1, <1>3 DEF Entry
<1>6. Live(r, s) = <<Entry(r, s, 1)>>
  BY <1>4
<1> QED
  BY <1>2, <1>5, <1>6 DEF s

LEMMA LiveAdvance ==
    ASSUME NEW r, NEW s, Grounded(r, s)
    PROVE  /\ Grounded(r, Advanced(s))
           /\ Live(r, Advanced(s)) = [Live(r, s) EXCEPT ![Len(Live(r, s))].pc = @ + 1]
<1> DEFINE t == Advanced(s)  m == LiveFrom(s)  n == Len(s) - m + 1
           f == Live(r, s)
           g == [f EXCEPT ![Len(f)].pc = @ + 1]
<1>1. /\ s \in Seq(FrameT) /\ s # <<>> /\ Len(s) \in Nat \ {0}
      /\ t \in Seq(FrameT) /\ Len(t) = Len(s)
      /\ \A i \in 1 .. Len(s) : t[i].p = s[i].p /\ t[i].via = s[i].via
      /\ \A i \in 1 .. Len(s) : i < Len(s) => t[i] = s[i]
  BY AdvancedType, EmptySeq DEF Grounded
<1>2. t[Len(s)].pc = s[Len(s)].pc + 1
  <2>1. s[Len(s)] \in FrameT
    BY <1>1, ElementOfSeq
  <2> QED
    BY <1>1, <2>1 DEF Advanced, FrameT
<1> HIDE DEF t
<1>3. t # <<>>
  BY <1>1, EmptySeq
<1>4. Grounded(r, t)
  BY <1>1, <1>3 DEF Grounded
<1>5. IsLiveFrom(s, m) /\ IsLiveFrom(t, m)
  <2>1. IsLiveFrom(s, m)
    BY <1>1, LiveFromExists
  <2> HIDE DEF m
  <2> QED
    BY <1>1, <2>1 DEF IsLiveFrom
<1>6. m \in 1 .. Len(s) /\ n \in Nat \ {0}
  BY <1>1, <1>5 DEF IsLiveFrom
<1>7. /\ f = [k \in 1 .. n |-> Entry(r, s, m + k - 1)] /\ Len(f) = n
      /\ Live(r, t) = [k \in 1 .. n |-> Entry(r, t, m + k - 1)]
  BY <1>1, <1>4, <1>5, LiveIs
<1> HIDE DEF f, m, n
<1>8. ASSUME NEW k \in 1 .. n
      PROVE  Live(r, t)[k] = g[k]
  <2>1. m + k - 1 \in 1 .. Len(s) /\ (k = n <=> m + k - 1 = Len(s))
    BY <1>1, <1>6 DEF n
  <2> DEFINE i == m + k - 1
  <2> HIDE DEF i
  <2>2. Owner(r, t, i) = Owner(r, s, i)
    BY <1>1, <1>4, <2>1, OwnerSame DEF i
  <2>3. Live(r, t)[k] = Entry(r, t, i) /\ f[k] = Entry(r, s, i)
    BY <1>7 DEF i
  <2>4. CASE k = n
    <3>1. g[k] = [Entry(r, s, i) EXCEPT !.pc = @ + 1]
      BY <1>7, <2>3, <2>4
    <3>2. i = Len(s)
      BY <2>1, <2>4 DEF i
    <3> QED
      BY <1>1, <1>2, <2>2, <2>3, <3>1, <3>2 DEF Entry
  <2>5. CASE k # n
    <3>1. g[k] = Entry(r, s, i)
      BY <1>7, <2>3, <2>5
    <3>2. t[i] = s[i]
      BY <1>1, <2>1, <2>5 DEF i
    <3> QED
      BY <2>2, <2>3, <3>1, <3>2 DEF Entry
  <2> QED
    BY <2>4, <2>5
<1>9. /\ Live(r, t) = [k \in 1 .. n |-> Live(r, t)[k]]
      /\ g = [k \in 1 .. n |-> g[k]]
  BY <1>7
<1> HIDE DEF g
<1>10. Live(r, t) = g
  BY <1>8, <1>9, SameFrames
<1> QED
  BY <1>4, <1>10 DEF t, g, f

(* A jump leaves its caller waiting, a goto leaves nothing.                *)
LEMMA LiveCall ==
    ASSUME NEW r, NEW s, Grounded(r, s), NEW p, NEW via \in {"jump", "goto"},
           Frame(p, via) \in FrameT
    PROVE  LET t == Append(s, Frame(p, via))
               e == [p |-> p, pc |-> 1,
                     owner |-> IF ChainAt(r, p).base THEN p ELSE Owner(r, s, Len(s))]
           IN  /\ Grounded(r, t)
               /\ Live(r, t) = IF via = "jump" THEN Append(Live(r, s), e) ELSE <<e>>
<1> DEFINE t == Append(s, Frame(p, via))  n == Len(s) + 1
           e == [p |-> p, pc |-> 1,
                 owner |-> IF ChainAt(r, p).base THEN p ELSE Owner(r, s, Len(s))]
<1>1. /\ s \in Seq(FrameT) /\ s # <<>> /\ Len(s) \in Nat \ {0}
      /\ t \in Seq(FrameT) /\ Len(t) = n
      /\ \A i \in 1 .. Len(s) : t[i] = s[i]
      /\ t[n].p = p /\ t[n].pc = 1 /\ t[n].via = via
  BY EmptySeq DEF Grounded, Frame
<1> HIDE DEF t
<1>2. Grounded(r, t)
  <2>1. t # <<>>
    BY <1>1, EmptySeq
  <2> QED
    BY <1>1, <2>1 DEF Grounded
<1>3. \A i \in 1 .. Len(s) : Owner(r, t, i) = Owner(r, s, i)
  BY <1>1, <1>2, OwnerSame
<1>4. Entry(r, t, n) = e
  <2>1. n \in 1 .. Len(t) /\ n - 1 = Len(s) /\ Len(s) \in 1 .. Len(s)
    BY <1>1
  <2>2. Owner(r, t, n) = IF ChainAt(r, p).base THEN p ELSE Owner(r, t, n - 1)
    BY <1>1, <1>2, <2>1, OwnerStep
  <2> QED
    BY <1>1, <1>3, <2>1, <2>2 DEF Entry
<1>5. CASE via = "jump"
  <2> DEFINE m == LiveFrom(s)  l == Len(s) - m + 1  f == Live(r, s)
  <2>1. IsLiveFrom(s, m) /\ IsLiveFrom(t, m)
    BY <1>1, <1>5, LiveFromExists DEF IsLiveFrom
  <2>2. m \in 1 .. Len(s) /\ l \in Nat
    BY <1>1, <2>1 DEF IsLiveFrom
  <2>3. n - m + 1 = l + 1
    BY <1>1, <2>2
  <2>4. /\ f = [k \in 1 .. l |-> Entry(r, s, m + k - 1)] /\ Len(f) = l
        /\ Live(r, t) = [k \in 1 .. l + 1 |-> Entry(r, t, m + k - 1)]
    BY <1>1, <1>2, <2>1, <2>3, LiveIs
  <2> HIDE DEF m, l, f, e
  <2>5. ASSUME NEW k \in 1 .. l + 1
        PROVE  Live(r, t)[k] = Append(f, e)[k]
    <3>1. CASE k = l + 1
      <4>1. m + k - 1 = n
        BY <1>1, <2>2, <2>3, <3>1
      <4> QED
        BY <1>4, <2>2, <2>4, <3>1, <4>1
    <3>2. CASE k # l + 1
      <4>1. k \in 1 .. l /\ m + k - 1 \in 1 .. Len(s)
        BY <1>1, <2>2, <3>2 DEF l
      <4>2. Entry(r, t, m + k - 1) = Entry(r, s, m + k - 1)
        BY <1>1, <1>3, <4>1 DEF Entry
      <4> QED
        BY <2>2, <2>4, <4>1, <4>2
    <3> QED
      BY <3>1, <3>2
  <2>6. /\ Live(r, t) = [k \in 1 .. l + 1 |-> Live(r, t)[k]]
        /\ Append(f, e) = [k \in 1 .. l + 1 |-> Append(f, e)[k]]
    BY <2>2, <2>4
  <2>7. Live(r, t) = Append(f, e)
    BY <2>5, <2>6, SameFrames
  <2> QED
    BY <1>2, <1>5, <2>7 DEF t, f, e
<1>6. CASE via = "goto"
  <2>1. IsLiveFrom(t, n) /\ Len(t) - n + 1 = 1 /\ n + 1 - 1 = n
    BY <1>1, <1>6 DEF IsLiveFrom
  <2> HIDE DEF e, n
  <2>2. Live(r, t) = [k \in 1 .. 1 |-> Entry(r, t, n + k - 1)]
    <3>1. Live(r, t) = [k \in 1 .. Len(t) - n + 1 |-> Entry(r, t, n + k - 1)]
      BY <1>2, <2>1, LiveIs
    <3> QED
      BY <2>1, <3>1
  <2>3. Live(r, t) = <<e>>
    BY <1>4, <2>1, <2>2
  <2> QED
    BY <1>2, <1>6, <2>3 DEF t, e
<1> QED
  BY <1>5, <1>6

LEMMA LiveBelow ==
    ASSUME NEW r, NEW s, Grounded(r, s), Len(s) > 1
    PROVE  LET t == SubSeq(s, 1, Len(s) - 1)
               l == Len(Live(r, s)) - 1
           IN  /\ Grounded(r, t) /\ Len(t) = Len(s) - 1
               /\ Owner(r, t, Len(s) - 1) = Owner(r, s, Len(s) - 1)
               /\ s[Len(s)].via = "jump" =>
                     /\ Live(r, t) = SubSeq(Live(r, s), 1, l)
                     /\ Len(Live(r, t)) = l
<1> DEFINE t == SubSeq(s, 1, Len(s) - 1)  f == Live(r, s)  l == Len(f) - 1
<1>1. /\ s \in Seq(FrameT) /\ Len(s) \in Nat /\ Len(s) > 1
      /\ t \in Seq(FrameT) /\ Len(t) = Len(s) - 1 /\ t # <<>>
      /\ \A i \in 1 .. Len(s) - 1 : t[i] = s[i]
  BY BelowType DEF Grounded
<1> HIDE DEF t
<1>2. Grounded(r, t)
  BY <1>1 DEF Grounded
<1>3. \A i \in 1 .. Len(s) - 1 : Owner(r, t, i) = Owner(r, s, i)
  BY <1>1, <1>2, OwnerSame
<1>4. Owner(r, t, Len(s) - 1) = Owner(r, s, Len(s) - 1)
  BY <1>1, <1>3
<1>5. ASSUME s[Len(s)].via = "jump"
      PROVE  Live(r, t) = SubSeq(f, 1, l) /\ Len(Live(r, t)) = l
  <2> DEFINE m == LiveFrom(s)
  <2>1. IsLiveFrom(s, m)
    BY LiveFromExists
  <2>2. m \in 1 .. Len(s) - 1 /\ IsLiveFrom(t, m)
    BY <1>1, <1>5, <2>1 DEF IsLiveFrom
  <2>3. f = [k \in 1 .. Len(s) - m + 1 |-> Entry(r, s, m + k - 1)] /\ Len(f) = Len(s) - m + 1
    BY <2>1, LiveIs
  <2> HIDE DEF m, f
  <2>4. l = Len(s) - m /\ l \in Nat /\ Len(s) - m + 1 = l + 1 /\ Len(t) - m + 1 = l
    BY <1>1, <2>2, <2>3
  <2> HIDE DEF l
  <2>5. Live(r, t) = [k \in 1 .. l |-> Entry(r, t, m + k - 1)] /\ Len(Live(r, t)) = l
    <3>1. IsLiveFrom(t, m)
      BY <2>2
    <3>2. /\ Live(r, t) = [k \in 1 .. Len(t) - m + 1 |-> Entry(r, t, m + k - 1)]
          /\ Len(Live(r, t)) = Len(t) - m + 1
      BY <1>2, <3>1, LiveIs
    <3> QED
      BY <2>4, <3>2
  <2>6. /\ SubSeq(f, 1, l) = [k \in 1 .. l |-> SubSeq(f, 1, l)[k]]
        /\ \A k \in 1 .. l : SubSeq(f, 1, l)[k] = f[k]
    BY <2>3, <2>4
  <2>7. ASSUME NEW k \in 1 .. l
        PROVE  Live(r, t)[k] = SubSeq(f, 1, l)[k]
    <3>1. m + k - 1 \in 1 .. Len(s) - 1 /\ k \in 1 .. l + 1
      BY <1>1, <2>2, <2>4
    <3>2. Entry(r, t, m + k - 1) = Entry(r, s, m + k - 1)
      BY <1>1, <1>3, <3>1 DEF Entry
    <3> QED
      BY <2>3, <2>4, <2>5, <2>6, <3>1, <3>2
  <2>8. Live(r, t) = [k \in 1 .. l |-> Live(r, t)[k]]
    BY <2>5
  <2>9. Live(r, t) = SubSeq(f, 1, l)
    BY <2>6, <2>7, <2>8, SameFrames
  <2> QED
    BY <2>5, <2>9
<1> QED
  BY <1>1, <1>2, <1>4, <1>5 DEF t, f, l

------------------------------------------------------------------------------
(* What the mapping shows of a state.                                      *)
MapsTo(pos, nest, res) == AbsPos = pos /\ AbsNest = nest /\ AbsResult = res
Left(res) == MapsTo(<<>>, 0, IF res.kind = "accept" THEN result ELSE res)
Decided == {"accept", "drop", "unknown"}

StackGrounded == TypeOK /\ StackShape /\ stack # <<>> => Grounded(rs, stack)
ShownEmpty    == stack = <<>> => MapsTo(<<>>, 0, result)
ShownRunning  == stack # <<>> /\ ret = Running => MapsTo(Live(rs, stack), Len(stack), result)
ShownDecided  == stack # <<>> /\ ret.kind \in Decided => Left(ret)
ShownPolicy   ==
    stack # <<>> /\ ret.kind \in {"none", "unwind"} /\ ~Resumes
        => Left(BasePolicyResult(rs, Owner(rs, stack, Len(stack))))
ShownResumed  ==
    stack # <<>> /\ ret.kind = "none" /\ Resumes
        => LET n == Len(Live(rs, stack)) - 1
           IN  MapsTo([SubSeq(Live(rs, stack), 1, n) EXCEPT ![n].pc = @ + 1],
                      Len(stack) - 1, result)
Shown == ShownEmpty /\ ShownRunning /\ ShownDecided /\ ShownPolicy /\ ShownResumed

LEMMA IsGrounded == StackGrounded
  BY DEF StackGrounded, TypeOK, StackShape, Grounded

LEMMA IsShown == Shown
<1>0. Running.kind = "running"
  BY RunningType
<1>1. ShownEmpty
  BY DEF ShownEmpty, MapsTo, AbsPos, AbsNest, AbsResult
<1>2. ShownRunning
  <2> SUFFICES ASSUME stack # <<>>, ret = Running
               PROVE  MapsTo(Live(rs, stack), Len(stack), result)
    BY DEF ShownRunning
  <2>1. Effect = Running /\ ~Resumes
    BY <1>0 DEF Effect, Resumes
  <2> QED
    BY <1>0, <2>1 DEF MapsTo, AbsPos, AbsNest, AbsResult
<1>3. ShownDecided
  <2> SUFFICES ASSUME stack # <<>>, ret.kind \in Decided
               PROVE  Left(ret)
    BY DEF ShownDecided
  <2>1. Effect = ret /\ Effect # Running
    BY <1>0 DEF Effect, Decided, Resumes
  <2> QED
    BY <2>1 DEF Left, MapsTo, AbsPos, AbsNest, AbsResult, Decided
<1>4. ShownPolicy
  <2> SUFFICES ASSUME stack # <<>>, ret.kind \in {"none", "unwind"}, ~Resumes
               PROVE  Left(BasePolicyResult(rs, Owner(rs, stack, Len(stack))))
    BY DEF ShownPolicy
  <2> DEFINE b == BasePolicyResult(rs, Owner(rs, stack, Len(stack)))
  <2>1. b.kind \in Decided
    BY ResultTypes DEF Decided
  <2>2. Effect = b
    BY <1>0 DEF Effect
  <2> HIDE DEF b
  <2> QED
    BY <1>0, <2>1, <2>2 DEF Left, MapsTo, AbsPos, AbsNest, AbsResult, Decided, b
<1>5. ShownResumed
  <2> SUFFICES ASSUME stack # <<>>, ret.kind = "none", Resumes
               PROVE  LET n == Len(Live(rs, stack)) - 1
                      IN  MapsTo([SubSeq(Live(rs, stack), 1, n) EXCEPT ![n].pc = @ + 1],
                                 Len(stack) - 1, result)
    BY DEF ShownResumed
  <2>1. Effect = Running
    BY <1>0 DEF Effect
  <2> QED
    BY <1>0, <2>1 DEF MapsTo, AbsPos, AbsNest, AbsResult
<1> QED
  BY <1>1, <1>2, <1>3, <1>4, <1>5 DEF Shown

LEMMA IsShownNext == Shown' /\ StackGrounded'
  BY IsShown, IsGrounded, PTL

(* Where HookSpec sees the packet while an activation executes.            *)
LEMMA PacketIsAtTop ==
    ASSUME TypeOK, StackShape, Executing
    PROVE  /\ Grounded(rs, stack) /\ Len(stack) \in Nat
           /\ MapsTo(Live(rs, stack), Len(stack), result) /\ AbsPos # <<>>
           /\ Hook!At = Entry(rs, stack, Len(stack))
           /\ Hook!ruleset = rs /\ Hook!Chn = Here /\ Hook!Match = Found
           /\ AbsNest > MaxJumpDepth + 1 <=> Depth > MaxJumpDepth
           /\ AbsNest <= MaxJumpDepth + 1 <=> Depth <= MaxJumpDepth
           /\ Hook!OnRule <=> AtRule
           /\ result = NoResult /\ Hook!Pending = NoResult
<1>1. Grounded(rs, stack) /\ Len(stack) \in Nat
  BY IsGrounded DEF StackGrounded, Executing, Grounded
<1>2. MapsTo(Live(rs, stack), Len(stack), result)
  BY IsShown DEF Shown, ShownRunning, Executing
<1>3. AbsPos # <<>> /\ Hook!At = Entry(rs, stack, Len(stack))
  BY <1>1, <1>2, LiveTop DEF MapsTo, Hook!At
<1>4. Hook!ruleset = rs
  BY DEF Hook!ruleset, rs
<1>5. Hook!At.p = Top.p /\ Hook!At.pc = Top.pc
  BY <1>3 DEF Entry, Top
<1>6. Hook!Chn = Here
  BY <1>4, <1>5, SameReading DEF Hook!Chn, Here
<1>7. Hook!Match = Found
  BY <1>4, <1>5, SameWalk DEF Hook!Match, Found
<1>8. /\ AbsNest > MaxJumpDepth + 1 <=> Depth > MaxJumpDepth
      /\ AbsNest <= MaxJumpDepth + 1 <=> Depth <= MaxJumpDepth
  BY <1>1, <1>2, MaxJumpDepthType DEF MapsTo, Depth
<1>9. Hook!OnRule <=> AtRule
  BY <1>3, <1>5, <1>6, <1>8 DEF Hook!OnRule, AtRule
<1>10. result = NoResult /\ Hook!Pending = NoResult
  BY DEF Executing, Walking, Hook!Pending, NoResult
<1> QED
  BY <1>1, <1>2, <1>3, <1>4, <1>6, <1>7, <1>8, <1>9, <1>10

------------------------------------------------------------------------------
(* A verdict has taken effect for HookSpec as soon as it is returned.      *)
LEMMA ReturnLeaves ==
    ASSUME Executing, NEW r, r.kind \in Decided, Return(r)
    PROVE  Hook!Leave(r)
<1>1. stack' # <<>> /\ ret' = r /\ result' = result
  BY DEF Executing, Return
<1>2. ShownDecided'
  BY IsShownNext DEF Shown
<1>3. MapsTo(<<>>, 0, IF r.kind = "accept" THEN result ELSE r)'
  BY <1>1, <1>2 DEF ShownDecided, Left
<1>4. AbsPos' = <<>> /\ AbsNest' = 0 /\ AbsResult' = IF r.kind = "accept" THEN result' ELSE r
  BY <1>1, <1>3 DEF MapsTo
<1>5. AbsResult = result
  BY IsShown DEF Shown, ShownRunning, MapsTo, Executing
<1> QED
  BY <1>1, <1>4, <1>5 DEF Hook!Leave

LEMMA StepMaps ==
    ASSUME TypeOK, StackShape, AtRule, Step,
           \/ Found.out \in {"NoMatch", "Skipped"}
           \/ Found.out = "Match" /\ Found.act.kind \in {"continue", "none"}
    PROVE  Hook!NextRule
<1>1. Executing
  BY DEF AtRule
<1>2. stack' = Advanced(stack) /\ ret' = Running /\ rs' = rs /\ result' = result
  BY <1>1 DEF Step, Executing, rs
<1>3. /\ Grounded(rs, stack)
      /\ Grounded(rs, stack')
      /\ Live(rs, stack') = [Live(rs, stack) EXCEPT ![Len(Live(rs, stack))].pc = @ + 1]
  BY <1>1, <1>2, PacketIsAtTop, LiveAdvance
<1>4. stack' # <<>> /\ Len(stack') = Len(stack)
  BY <1>2, <1>3, AdvancedType DEF Grounded
<1>5. MapsTo(Live(rs, stack), Len(stack), result)'
  BY <1>2, <1>4, IsShownNext DEF Shown, ShownRunning
<1>6. AbsPos' = Live(rs, stack') /\ AbsNest' = Len(stack') /\ AbsResult' = result'
  BY <1>2, <1>5 DEF MapsTo
<1>7. AbsPos = Live(rs, stack) /\ AbsNest = Len(stack) /\ AbsResult = result
  BY <1>1, PacketIsAtTop DEF MapsTo
<1>8. AbsPos' = [AbsPos EXCEPT ![Len(AbsPos)].pc = @ + 1]
  BY <1>3, <1>6, <1>7
<1>9. Hook!OnRule /\ Hook!Match = Found
  BY <1>1, PacketIsAtTop
<1> QED
  BY <1>2, <1>4, <1>6, <1>7, <1>8, <1>9 DEF Hook!NextRule, Step

LEMMA CallMaps ==
    ASSUME TypeOK, StackShape, RuleCall
    PROVE  Hook!Descend
<1>1. AtRule /\ Executing /\ Found.out = "Match" /\ Found.act.kind \in {"jump", "goto"}
  BY DEF RuleCall, RuleMatches, AtRule
<1> DEFINE via == Found.act.kind
<1>2. PICK t \in CalledChain : stack' = Append(stack, Frame(t, via))
  BY DEF RuleCall
<1>3. Frame(t, via) \in FrameT
  <2>1. t \in Nat \X Nat
    BY FindChainType, CallType, PlaceType DEF CalledChain
  <2> QED
    BY <1>1, <2>1 DEF Frame, FrameT
<1>4. ret' = Running /\ rs' = rs /\ result' = result
  BY <1>1 DEF RuleCall, Executing, rs
<1> DEFINE f == [p |-> t, pc |-> 1,
                 owner |-> IF ChainAt(rs, t).base THEN t ELSE Owner(rs, stack, Len(stack))]
           u == Append(stack, Frame(t, via))
<1> HIDE DEF via
<1>5. Grounded(rs, stack) /\ via \in {"jump", "goto"}
  BY <1>1, PacketIsAtTop DEF via
<1>6. Live(rs, u) = IF via = "jump" THEN Append(Live(rs, stack), f) ELSE <<f>>
  BY <1>3, <1>5, LiveCall
<1>7. u # <<>> /\ Len(u) = Len(stack) + 1
  BY <1>5, EmptySeq DEF Grounded
<1> HIDE DEF u, f
<1>8. stack' = u
  BY <1>2 DEF u
<1>9. MapsTo(Live(rs, stack), Len(stack), result)'
  BY <1>4, <1>7, <1>8, IsShownNext DEF Shown, ShownRunning
<1>10. AbsPos' = Live(rs, u) /\ AbsNest' = Len(stack) + 1 /\ AbsResult' = result
  BY <1>4, <1>7, <1>8, <1>9 DEF MapsTo
<1>11. AbsPos = Live(rs, stack) /\ AbsNest = Len(stack) /\ AbsResult = result
  BY <1>1, PacketIsAtTop DEF MapsTo
<1>12. /\ Hook!OnRule /\ Hook!Match = Found /\ Hook!ruleset = rs
       /\ Hook!At = Entry(rs, stack, Len(stack))
  BY <1>1, PacketIsAtTop
<1>13. Hook!At.p = Top.p /\ Hook!At.owner = Owner(rs, stack, Len(stack))
  BY <1>12 DEF Entry, Top
<1>14. Hook!Chosen = CalledChain
  BY <1>12, <1>13, SameWalk DEF Hook!Chosen, CalledChain
<1>15. f = [p |-> t, pc |-> 1,
            owner |-> IF Hook!ChainAt(Hook!ruleset, t).base THEN t ELSE Hook!At.owner]
  BY <1>12, <1>13, SameReading DEF f
<1>16. AbsPos' = IF Hook!Match.act.kind = "jump" THEN Append(AbsPos, f) ELSE <<f>>
  BY <1>6, <1>10, <1>11, <1>12 DEF via
<1>17. \E x \in Hook!Chosen :
           LET g == [p |-> x, pc |-> 1,
                     owner |-> IF Hook!ChainAt(Hook!ruleset, x).base THEN x ELSE Hook!At.owner]
           IN  AbsPos' = IF Hook!Match.act.kind = "jump" THEN Append(AbsPos, g) ELSE <<g>>
  BY <1>14, <1>15, <1>16
<1>18. UNCHANGED <<call, started, left, dnat>>
  BY DEF RuleCall
<1> QED
  BY <1>1, <1>10, <1>11, <1>12, <1>17, <1>18 DEF Hook!Descend

(* The end of a chain is the policy of its owner, unless a jump waits.     *)
LEMMA FallthroughMaps ==
    ASSUME TypeOK, StackShape, Executing, Return(Fallthrough), UNCHANGED dnat, Hook!FellOff
    PROVE  Hook!Resume \/ Hook!Policy
<1> DEFINE o == Owner(rs, stack, Len(stack))
<1>1. /\ Grounded(rs, stack) /\ Hook!Chn = Here /\ Hook!ruleset = rs
      /\ AbsPos = Live(rs, stack) /\ AbsNest = Len(stack) /\ AbsResult = result
      /\ Hook!At = Entry(rs, stack, Len(stack)) /\ Len(stack) \in Nat
  BY PacketIsAtTop DEF MapsTo
<1>2. Hook!At.owner = o
  BY <1>1 DEF Entry
<1>3. /\ Len(AbsPos) \in Nat \ {0}
      /\ Len(AbsPos) > 1 <=> Top.via = "jump"
  BY <1>1, LiveTop DEF Top
<1>4. /\ stack' = stack /\ stack # <<>> /\ ret' = Fallthrough /\ result' = result /\ rs' = rs
      /\ UNCHANGED <<call, started, left>>
  BY DEF Return, Executing, rs
<1>5. Top' = Top
  BY <1>4 DEF Top
<1>6. Len(stack) \in 1 .. Len(stack) /\ Here = ChainAt(rs, stack[Len(stack)].p)
  BY <1>1, EmptySeq DEF Grounded, Here, Top
<1>7. CASE Here.base
  <2>1. o = Top.p
    BY <1>1, <1>6, <1>7, OwnerStep DEF Top
  <2>2. Fallthrough = BasePolicyResult(rs, o)
    BY <1>7, <2>1 DEF Fallthrough
  <2>3. Hook!Leave(BasePolicyResult(rs, o))
    BY <1>4, <2>2, ReturnLeaves, ResultTypes DEF Decided
  <2> QED
    BY <1>1, <1>2, <1>4, <1>7, <2>3, SameReading DEF Hook!Policy
<1>8. CASE ~Here.base /\ Top.via = "jump"
  <2>1. ret'.kind = "none"
    BY <1>4, <1>8 DEF Fallthrough, Res
  <2>2. Resumes'
    BY <1>5, <1>8, <2>1 DEF Resumes
  <2>3. ShownResumed'
    BY IsShownNext DEF Shown
  <2> DEFINE n == Len(Live(rs, stack)) - 1
  <2>4. MapsTo([SubSeq(Live(rs, stack), 1, n) EXCEPT ![n].pc = @ + 1], Len(stack) - 1, result)'
    BY <1>4, <2>1, <2>2, <2>3 DEF ShownResumed
  <2>5. /\ AbsPos' = [SubSeq(Live(rs', stack'), 1, n') EXCEPT ![n'].pc = @ + 1]
        /\ AbsNest' = Len(stack') - 1 /\ AbsResult' = result'
    BY <2>4 DEF MapsTo
  <2>6. n' = n
    BY <1>4
  <2> HIDE DEF n
  <2>7. /\ AbsPos' = [SubSeq(Live(rs, stack), 1, n) EXCEPT ![n].pc = @ + 1]
        /\ AbsNest' = Len(stack) - 1 /\ AbsResult' = result
    BY <1>4, <2>5, <2>6
  <2>8. AbsPos' = [SubSeq(AbsPos, 1, Len(AbsPos) - 1) EXCEPT ![Len(AbsPos) - 1].pc = @ + 1]
    BY <1>1, <2>7 DEF n
  <2> QED
    BY <1>1, <1>3, <1>4, <1>8, <2>7, <2>8 DEF Hook!Resume
<1>9. CASE ~Here.base /\ Top.via # "jump"
  <2>1. ret'.kind = "none" /\ ~Resumes'
    BY <1>4, <1>5, <1>9 DEF Fallthrough, Res, Resumes
  <2>2. ShownPolicy'
    BY IsShownNext DEF Shown
  <2> DEFINE b == BasePolicyResult(rs, o)
  <2>3. b' = b
    BY <1>4
  <2>4. Left(b)'
    BY <1>4, <2>1, <2>2 DEF ShownPolicy
  <2> HIDE DEF b
  <2>5. AbsPos' = <<>> /\ AbsNest' = 0 /\ AbsResult' = IF b.kind = "accept" THEN result ELSE b
    BY <1>4, <2>3, <2>4 DEF Left, MapsTo
  <2>6. Hook!Leave(b)
    BY <1>1, <2>5 DEF Hook!Leave
  <2>7. Len(AbsPos) = 1
    <3> DEFINE l == Len(AbsPos)
    <3>1. l \in Nat \ {0} /\ ~(l > 1)
      BY <1>3, <1>9
    <3> HIDE DEF l
    <3>2. l = 1
      BY <3>1
    <3> QED
      BY <3>2 DEF l
  <2> QED
    BY <1>1, <1>2, <1>4, <2>6, <2>7, SameReading DEF Hook!Policy, b
<1> QED
  BY <1>7, <1>8, <1>9

(* What the caller does with a result HookSpec has already acted on.       *)
LEMMA ReturnStutters ==
    ASSUME TypeOK, StackShape, ReturnToCaller
    PROVE  UNCHANGED Hook!absvars
<1> DEFINE below == SubSeq(stack, 1, Len(stack) - 1)
           o == Owner(rs, stack, Len(stack))
           b == BasePolicyResult(rs, o)
<1>1. Grounded(rs, stack) /\ Len(stack) > 1 /\ Len(stack) \in Nat /\ stack # <<>>
  BY IsGrounded DEF ReturnToCaller, StackGrounded, Grounded
<1>2. /\ Grounded(rs, below) /\ Len(below) = Len(stack) - 1
      /\ Owner(rs, below, Len(stack) - 1) = Owner(rs, stack, Len(stack) - 1)
      /\ Top.via = "jump" => /\ Live(rs, below) = SubSeq(Live(rs, stack), 1, Len(Live(rs, stack)) - 1)
                             /\ Len(Live(rs, below)) = Len(Live(rs, stack)) - 1
  BY <1>1, LiveBelow DEF Top
<1>3. /\ ret \in Returns /\ ret.kind # "running" /\ ret.why # "escape"
      /\ Top.via \in {"jump", "goto"}
      /\ ret.kind \in {"none", "unwind"} => ~Here.base
  BY <1>1 DEF StackShape, TypeOK, ReturnToCaller, Top, Grounded
<1>4. ret' = AfterCall(ret, Top.via, Caller.p) /\ rs' = rs /\ result' = result
      /\ UNCHANGED <<call, started, left, dnat>>
  BY DEF ReturnToCaller, rs
<1>5. stack' = IF ret' = Running THEN Advanced(below) ELSE below
  BY DEF ReturnToCaller
<1>6. Len(stack) - 1 \in 1 .. Len(below) /\ below # <<>> /\ below[Len(stack) - 1] = stack[Len(stack) - 1]
  BY <1>1, <1>2 DEF Grounded
<1>7. Caller.p = below[Len(below)].p
  BY <1>2, <1>6 DEF Caller
<1>s. Shown' /\ Shown
  BY IsShown, IsShownNext
<1> HIDE DEF below
<1>8. CASE ret.kind \in Decided
  <2>1. ret' = ret
    BY <1>3, <1>4, <1>8, AfterCallType DEF Decided
  <2>2. ret # Running /\ stack' = below
    BY <1>3, <1>5, <2>1, RunningType
  <2>3. Left(ret)
    BY <1>1, <1>8, <1>s DEF Shown, ShownDecided
  <2>4. Left(ret)'
    BY <1>6, <1>8, <1>s, <2>1, <2>2 DEF Shown, ShownDecided
  <2>5. AbsPos' = AbsPos /\ AbsNest' = AbsNest /\ AbsResult' = AbsResult
    BY <1>4, <2>1, <2>3, <2>4 DEF Left, MapsTo
  <2> QED
    BY <1>4, <2>5 DEF Hook!absvars
<1>9. CASE ret.kind = "none" /\ Top.via = "jump"
  <2>1. ret' = Running
    BY <1>4, <1>9 DEF AfterCall
  <2>2. stack' = Advanced(below)
    BY <1>5, <2>1
  <2>3. /\ Grounded(rs, stack')
        /\ Live(rs, stack') = [Live(rs, below) EXCEPT ![Len(Live(rs, below))].pc = @ + 1]
    BY <1>2, <2>2, LiveAdvance
  <2>4. Len(stack') = Len(stack) - 1 /\ stack' # <<>>
    BY <1>2, <1>6, <2>2, <2>3, AdvancedType DEF Grounded
  <2>5. MapsTo(Live(rs, stack), Len(stack), result)'
    BY <1>s, <2>1, <2>4 DEF Shown, ShownRunning
  <2>6. AbsPos' = Live(rs, stack') /\ AbsNest' = Len(stack) - 1 /\ AbsResult' = result
    BY <1>4, <2>4, <2>5 DEF MapsTo
  <2> DEFINE n == Len(Live(rs, stack)) - 1
  <2>7. MapsTo([SubSeq(Live(rs, stack), 1, n) EXCEPT ![n].pc = @ + 1], Len(stack) - 1, result)
    BY <1>1, <1>9, <1>s DEF Shown, ShownResumed, Resumes
  <2>8. Live(rs, below) = SubSeq(Live(rs, stack), 1, n) /\ Len(Live(rs, below)) = n
    BY <1>2, <1>9
  <2> HIDE DEF n
  <2>9. AbsPos' = AbsPos /\ AbsNest' = AbsNest /\ AbsResult' = AbsResult
    BY <2>3, <2>6, <2>7, <2>8 DEF MapsTo
  <2> QED
    BY <1>4, <2>9 DEF Hook!absvars
<1>10. CASE ret.kind \in {"none", "unwind"} /\ ~Resumes
  <2>1. Left(b)
    BY <1>1, <1>10, <1>s DEF Shown, ShownPolicy
  <2>2. o = Owner(rs, stack, Len(stack) - 1)
    <3>1. ~ChainAt(rs, stack[Len(stack)].p).base /\ Len(stack) \in 1 .. Len(stack)
      BY <1>1, <1>3, <1>10 DEF Here, Top
    <3> QED
      BY <1>1, <3>1, OwnerStep
  <2>3. ret' = Unwind(Caller.p)
    <3>1. ret.kind = "unwind" \/ (ret.kind = "none" /\ Top.via = "goto")
      BY <1>3, <1>10 DEF Resumes
    <3> QED
      BY <1>4, <3>1 DEF AfterCall
  <2>4. ret' # Running /\ stack' = below
    BY <1>5, <2>3, UnwindType, RunningType
  <2>5. Left(b)'
    <3>1. Grounded(rs, below) /\ Len(below) \in 1 .. Len(below)
      BY <1>1, <1>2, <1>6
    <3>2. b.kind \in Decided /\ b' = BasePolicyResult(rs', Owner(rs', below, Len(below)))
      <4>1. b.kind \in Decided
        BY ResultTypes DEF Decided
      <4> QED
        BY <4>1, <2>4
    <3>3. o' = Owner(rs, below, Len(below)) /\ Owner(rs, below, Len(below)) = o /\ b' = b
      BY <1>2, <1>4, <2>2, <2>4
    <3>4. CASE ChainAt(rs, Caller.p).base
      <4>1. o = Caller.p
        BY <1>7, <3>1, <3>3, <3>4, OwnerStep
      <4>2. ret' = b
        BY <2>3, <3>4, <4>1 DEF Unwind
      <4>3. Left(ret)'
        BY <1>6, <1>s, <2>4, <3>2, <4>2 DEF Shown, ShownDecided
      <4> QED
        BY <3>3, <4>2, <4>3 DEF Left
    <3>5. CASE ~ChainAt(rs, Caller.p).base
      <4>1. ret'.kind = "unwind"
        BY <2>3, <3>5 DEF Unwind, Res
      <4> QED
        BY <1>6, <1>s, <2>4, <4>1 DEF Shown, ShownPolicy, Resumes
    <3> QED
      BY <3>4, <3>5
  <2>6. b' = b
    BY <1>2, <1>4, <2>2, <2>4
  <2> HIDE DEF b
  <2>7. AbsPos' = AbsPos /\ AbsNest' = AbsNest /\ AbsResult' = AbsResult
    BY <1>4, <2>1, <2>5, <2>6 DEF Left, MapsTo
  <2> QED
    BY <1>4, <2>7 DEF Hook!absvars
<1> QED
  BY <1>3, <1>8, <1>9, <1>10 DEF Decided, Returns, Resumes

------------------------------------------------------------------------------
(* Before the walk and between two base chains there is nothing to map.    *)
LEMMA BaseMaps ==
    ASSUME TypeOK, StackShape,
           \/ RefuseIngress \/ RefuseHook \/ Collect \/ AllAccepted
           \/ \E p \in left : EnterBase(p)
    PROVE  Hook!AbsNext
<1>1. stack = <<>> /\ result = NoResult /\ Hook!Pending = NoResult /\ Hook!ruleset = rs
  BY DEF StackShape, RefuseIngress, RefuseHook, Refuse, Collect, AllAccepted, EnterBase, Walking,
         Hook!Pending, NoResult, Hook!ruleset, rs
<1>2. AbsPos = <<>> /\ AbsNest = 0 /\ AbsResult = result
  BY <1>1, IsShown DEF Shown, ShownEmpty, MapsTo
<1>3. ASSUME stack' = <<>>
      PROVE  AbsPos' = <<>> /\ AbsNest' = 0 /\ AbsResult' = result'
  BY <1>3, IsShownNext DEF Shown, ShownEmpty, MapsTo
<1>4. CASE RefuseIngress \/ RefuseHook
  BY <1>1, <1>2, <1>3, <1>4, SameReading, SameWalk
  DEF RefuseIngress, RefuseHook, Refuse, Hook!Refused, Hook!AbsNext
<1>5. CASE Collect
  BY <1>1, <1>2, <1>3, <1>5, SameWalk DEF Collect, Hook!Begin, Hook!AbsNext
<1>6. CASE AllAccepted
  BY <1>1, <1>2, <1>3, <1>6, SameReading DEF AllAccepted, Walking, Hook!Passed, Hook!AbsNext
<1>7. ASSUME NEW p \in left, EnterBase(p)
      PROVE  Hook!AbsNext
  <2> DEFINE s == <<Frame(p, "base")>>
  <2>1. /\ stack' = s /\ ret' = Running /\ result' = result /\ rs' = rs /\ IsNext(rs, left, p)
        /\ left' = left \ {p} /\ UNCHANGED <<call, started, dnat>> /\ started
    BY <1>1, <1>7 DEF EnterBase, StackShape, Walking, rs
  <2>2. p \in Places(rs) /\ ChainAt(rs, p).base /\ Frame(p, "base") \in FrameT
    BY CallType, PlaceType DEF TypeOK, StackShape, Frame, FrameT
  <2>3. Live(rs, s) = <<[p |-> p, pc |-> 1, owner |-> p]>> /\ Len(s) = 1 /\ s # <<>>
    BY <2>2, LiveEnter
  <2> HIDE DEF s
  <2>4. AbsPos' = Live(rs, s) /\ AbsNest' = 1 /\ AbsResult' = result
    BY <2>1, <2>3, IsShownNext DEF Shown, ShownRunning, MapsTo
  <2>5. Hook!Enter(p)
    BY <1>1, <1>2, <2>1, <2>3, <2>4, SameWalk DEF Hook!Enter
  <2> QED
    BY <2>5 DEF Hook!AbsNext
<1> QED
  BY <1>4, <1>5, <1>6, <1>7

(* The result of a base chain is the one HookSpec left it with.            *)
LEMMA BaseDoneStutters ==
    ASSUME TypeOK, StackShape, BaseDone
    PROVE  UNCHANGED Hook!absvars
<1>1. /\ stack # <<>> /\ stack' = <<>> /\ result = NoResult /\ result' = BaseResult(ret)
      /\ UNCHANGED <<call, started, left, dnat>>
  BY DEF BaseDone, Walking
<1>2. ret.kind \in Decided
  <2>1. Here.base
    BY DEF BaseDone, StackShape, Here, Top
  <2> QED
    BY <2>1 DEF StackShape, BaseDone, TypeOK, Returns, Decided
<1>3. Left(ret)
  BY <1>1, <1>2, IsShown DEF Shown, ShownDecided
<1>4. result' = IF ret.kind = "accept" THEN NoResult ELSE ret
  BY <1>1, <1>2 DEF BaseResult, Decided
<1>5. MapsTo(<<>>, 0, result)'
  BY <1>1, IsShownNext DEF Shown, ShownEmpty
<1> QED
  BY <1>1, <1>3, <1>4, <1>5 DEF Left, MapsTo, Hook!absvars

(* A rule that ends the walk of its base chain, with a verdict or for want *)
(* of one.                                                                 *)
LEMMA VerdictMaps ==
    ASSUME TypeOK, StackShape, RuleAccept \/ RuleDrop \/ RuleDNAT
    PROVE  Hook!Verdict
<1>1. AtRule /\ Executing /\ Found.out = "Match" /\ UNCHANGED <<call, started, left>>
  BY DEF RuleAccept, RuleDrop, RuleDNAT, RuleMatches, AtRule, Return
<1>2. Hook!OnRule /\ Hook!Match = Found
  BY <1>1, PacketIsAtTop
<1>3. Res("accept", "rule").kind \in Decided /\ Res("drop", "rule").kind \in Decided
  BY DEF Res, Decided
<1>4. CASE RuleAccept
  <2>1. Hook!Leave(Res("accept", "rule"))
    BY <1>1, <1>3, <1>4, ReturnLeaves DEF RuleAccept
  <2> QED
    BY <1>1, <1>2, <1>4, <2>1, SameReading DEF RuleAccept, RuleMatches, Hook!Verdict
<1>5. CASE RuleDrop
  <2>1. Hook!Leave(Res("drop", "rule"))
    BY <1>1, <1>3, <1>5, ReturnLeaves DEF RuleDrop
  <2> QED
    BY <1>1, <1>2, <1>5, <2>1, SameReading DEF RuleDrop, RuleMatches, Hook!Verdict
<1>6. CASE RuleDNAT
  <2>1. Hook!Leave(Res("accept", "rule"))
    BY <1>1, <1>3, <1>6, ReturnLeaves DEF RuleDNAT
  <2> QED
    BY <1>1, <1>2, <1>6, <2>1, SameReading DEF RuleDNAT, RuleMatches, Hook!Verdict
<1> QED
  BY <1>4, <1>5, <1>6

LEMMA GivingUpMaps ==
    ASSUME TypeOK, StackShape, TooDeep \/ RuleUnknown \/ RuleUnhandled \/ RuleMissing
    PROVE  Hook!GiveUp
<1>1. Executing /\ UNCHANGED <<call, started, left, dnat>>
  BY DEF TooDeep, RuleUnknown, RuleUnhandled, RuleMissing, RuleMatches, AtRule, Return
<1>2. /\ AbsPos # <<>> /\ (Hook!OnRule <=> AtRule) /\ Hook!Match = Found /\ Hook!ruleset = rs
      /\ AbsNest > MaxJumpDepth + 1 <=> Depth > MaxJumpDepth
      /\ Hook!At = Entry(rs, stack, Len(stack))
  BY <1>1, PacketIsAtTop
<1>3. \A why : Return(Res("unknown", why)) => Hook!Leave(Hook!Res("unknown", why))
  <2> TAKE why
  <2>1. Res("unknown", why).kind \in Decided
    BY DEF Res, Decided
  <2>2. Hook!Res("unknown", why) = Res("unknown", why)
    BY SameReading
  <2> QED
    BY <1>1, <2>1, <2>2, ReturnLeaves
<1>4. CASE TooDeep
  BY <1>1, <1>2, <1>3, <1>4 DEF TooDeep, Hook!GiveUp
<1>5. CASE RuleUnknown
  BY <1>1, <1>2, <1>3, <1>5 DEF RuleUnknown, Hook!GiveUp
<1>6. CASE RuleUnhandled
  BY <1>1, <1>2, <1>3, <1>6 DEF RuleUnhandled, RuleMatches, Hook!GiveUp
<1>7. CASE RuleMissing
  <2>1. Hook!Chosen = CalledChain
    BY <1>2, SameWalk DEF Hook!Chosen, CalledChain, Entry, Top
  <2> QED
    BY <1>1, <1>2, <1>3, <1>7, <2>1 DEF RuleMissing, RuleMatches, Hook!GiveUp
<1> QED
  BY <1>4, <1>5, <1>6, <1>7

LEMMA EndMaps ==
    ASSUME TypeOK, StackShape, ChainEnd \/ RuleReturn
    PROVE  Hook!Resume \/ Hook!Policy
<1>1. Executing /\ Return(Fallthrough) /\ UNCHANGED dnat
  BY DEF ChainEnd, RuleReturn, RuleMatches, AtRule
<1>2. /\ AbsPos # <<>> /\ (Hook!OnRule <=> AtRule) /\ Hook!Match = Found /\ Hook!Chn = Here
      /\ AbsNest <= MaxJumpDepth + 1 <=> Depth <= MaxJumpDepth
      /\ Hook!At = Entry(rs, stack, Len(stack))
  BY <1>1, PacketIsAtTop
<1>3. Hook!FellOff
  <2>1. CASE ChainEnd
    BY <1>2, <2>1 DEF ChainEnd, Hook!FellOff, Entry, Top
  <2>2. CASE RuleReturn
    BY <1>2, <2>2 DEF RuleReturn, RuleMatches, Hook!FellOff
  <2> QED
    BY <2>1, <2>2
<1> QED
  BY <1>1, <1>3, FallthroughMaps

------------------------------------------------------------------------------
(* Every step of the walk is a step of HookSpec or none.                   *)
LEMMA StepsMap == TypeOK /\ StackShape /\ [Next]_vars => [Hook!AbsNext]_(Hook!absvars)
<1> SUFFICES ASSUME TypeOK, StackShape, [Next]_vars
             PROVE  Hook!AbsNext \/ UNCHANGED Hook!absvars
  OBVIOUS
<1>1. CASE RefuseIngress \/ RefuseHook \/ Collect \/ AllAccepted \/ \E p \in left : EnterBase(p)
  BY <1>1, BaseMaps
<1>2. CASE RuleNoMatch \/ RuleSkipped \/ RuleContinue
  <2>1. Hook!NextRule
    BY <1>2, StepMaps DEF RuleNoMatch, RuleSkipped, RuleContinue, RuleMatches
  <2> QED
    BY <2>1 DEF Hook!AbsNext
<1>3. CASE RuleCall
  BY <1>3, CallMaps DEF Hook!AbsNext
<1>4. CASE RuleAccept \/ RuleDrop \/ RuleDNAT
  BY <1>4, VerdictMaps DEF Hook!AbsNext
<1>5. CASE TooDeep \/ RuleUnknown \/ RuleUnhandled \/ RuleMissing
  BY <1>5, GivingUpMaps DEF Hook!AbsNext
<1>6. CASE ChainEnd \/ RuleReturn
  BY <1>6, EndMaps DEF Hook!AbsNext
<1>7. CASE ReturnToCaller
  BY <1>7, ReturnStutters
<1>8. CASE BaseDone
  BY <1>8, BaseDoneStutters
<1>9. CASE UNCHANGED vars
  <2>1. UNCHANGED <<call, started, left, dnat, rs, stack, ret, result>>
    BY <1>9 DEF vars, rs
  <2>2. Top' = Top /\ (Resumes <=> Resumes') /\ Effect' = Effect
    BY <2>1 DEF Top, Resumes, Effect
  <2> QED
    BY <2>1, <2>2 DEF Hook!absvars, AbsPos, AbsNest, AbsResult
<1> QED
  BY <1>1, <1>2, <1>3, <1>4, <1>5, <1>6, <1>7, <1>8, <1>9 DEF Next, Walk, Returned

LEMMA InitMaps == Init => Hook!Start
<1> SUFFICES ASSUME Init
             PROVE  Hook!Start
  OBVIOUS
<1>1. AbsPos = <<>> /\ AbsNest = 0 /\ AbsResult = result
  BY IsShown DEF Init, Shown, ShownEmpty, MapsTo
<1> QED
  BY <1>1 DEF Init, Hook!Start, Hook!Pending, NoResult, Hook!NoDNAT, NoDNAT

(* The walk of a hook, with its call stack, its unwinding and its limit,   *)
(* does what HookSpec says of it (traverse.go:158-360).                    *)
THEOREM WalkIsTheHook == Spec => ImplementsHookSpec
<1>1. Init => TypeOK /\ StackShape
  BY TypeInit, ShapeInit
<1>2. TypeOK /\ StackShape /\ [Next]_vars => (TypeOK /\ StackShape)'
  BY TypeNext, ShapeNext
<1> QED
  BY <1>1, <1>2, InitMaps, StepsMap, PTL DEF Spec, ImplementsHookSpec, Hook!AbsSpec

------------------------------------------------------------------------------
(* A walk enters the base chains of its hook, each once, and nothing it    *)
(* calls is one of them.                                                   *)
Roots == BaseChains(rs, call.family, call.hook)

RootInv ==
    /\ left \subseteq Roots
    /\ stack # <<>> => stack[1].p \in Roots \ left
    /\ \A i \in 2 .. Len(stack) : ~ChainAt(rs, stack[i].p).base

LEMMA CallStays ==
    [Next]_vars => call' = call /\ rs' = rs /\ Roots' = Roots
<1> SUFFICES ASSUME [Next]_vars
             PROVE  call' = call
  BY DEF rs, Roots
<1> QED
  BY DEF Next, Walk, Returned, vars, RefuseIngress, RefuseHook, Refuse, Collect, EnterBase,
         BaseDone, AllAccepted, TooDeep, ChainEnd, RuleNoMatch, RuleSkipped, RuleUnknown,
         RuleContinue, RuleAccept, RuleDrop, RuleDNAT, RuleUnhandled, RuleReturn, RuleCall,
         RuleMissing, ReturnToCaller, Return, Step

(* Within a base chain the bottom of the stack stays where it is.          *)
LEMMA RootStays ==
    ASSUME TypeOK, StackShape, (AtRule /\ Step) \/ RuleCall \/ ReturnToCaller
    PROVE  /\ stack # <<>> /\ stack' # <<>> /\ stack'[1].p = stack[1].p /\ left' = left
           /\ started /\ result = NoResult /\ result' = NoResult
           /\ \A i \in 2 .. Len(stack') :
                 \/ i <= Len(stack) /\ stack'[i].p = stack[i].p
                 \/ RuleCall /\ stack'[i].p \in CalledChain
<1>1. stack \in Seq(FrameT) /\ Len(stack) \in Nat \ {0} /\ stack # <<>>
  <2>1. stack # <<>>
    BY DEF AtRule, Executing, RuleCall, RuleMatches, ReturnToCaller
  <2> QED
    BY <2>1, EmptySeq DEF TypeOK
<1>2. left' = left /\ started /\ result = NoResult /\ result' = NoResult
  BY DEF AtRule, Executing, Walking, Step, RuleCall, RuleMatches, ReturnToCaller
<1>3. CASE AtRule /\ Step
  <2>1. stack' = Advanced(stack)
    BY <1>3 DEF Step
  <2>2. Len(stack') = Len(stack) /\ \A i \in 1 .. Len(stack) : stack'[i].p = stack[i].p
    BY <1>1, <2>1, AdvancedType
  <2>3. stack' # <<>>
    BY <1>1, <2>1, <2>2, AdvancedType, EmptySeq
  <2> QED
    BY <1>1, <1>2, <2>2, <2>3
<1>4. CASE RuleCall
  <2>1. PICK p \in CalledChain : stack' = Append(stack, Frame(p, Found.act.kind))
    BY <1>4 DEF RuleCall
  <2>2. /\ Len(stack') = Len(stack) + 1 /\ stack' # <<>>
        /\ \A i \in 1 .. Len(stack) : stack'[i] = stack[i]
        /\ stack'[Len(stack) + 1].p = p
    BY <1>1, <2>1 DEF Frame
  <2> QED
    BY <1>1, <1>2, <1>4, <2>1, <2>2
<1>5. CASE ReturnToCaller
  <2> DEFINE below == SubSeq(stack, 1, Len(stack) - 1)
  <2>1. /\ below \in Seq(FrameT) /\ Len(below) = Len(stack) - 1 /\ below # <<>> /\ Len(stack) > 1
        /\ \A i \in 1 .. Len(stack) - 1 : below[i] = stack[i]
    BY <1>1, <1>5, BelowType DEF ReturnToCaller
  <2>2. stack' = Advanced(below) \/ stack' = below
    BY <1>5 DEF ReturnToCaller
  <2> HIDE DEF below
  <2>3. /\ Len(stack') = Len(stack) - 1 /\ stack' # <<>>
        /\ \A i \in 1 .. Len(below) : stack'[i].p = below[i].p
    BY <2>1, <2>2, AdvancedType, EmptySeq
  <2> QED
    BY <1>1, <1>2, <2>1, <2>3
<1> QED
  BY <1>3, <1>4, <1>5

LEMMA RootNext ==
    ASSUME OnlyRegularChainsCalled, TypeOK, StackShape, RootInv, [Next]_vars
    PROVE  RootInv'
<1>1. call' = call /\ rs' = rs /\ Roots' = Roots
  BY CallStays
<1>2. CASE UNCHANGED <<left, stack>>
  BY <1>1, <1>2 DEF RootInv
<1>3. CASE Collect
  <2>1. stack = <<>> /\ stack' = <<>> /\ left' = Roots
    BY <1>3 DEF Collect, StackShape, Roots
  <2>2. \A i \in 2 .. Len(stack') : FALSE
    BY <2>1
  <2> QED
    BY <1>1, <2>1, <2>2 DEF RootInv
<1>4. ASSUME NEW p \in left, EnterBase(p)
      PROVE  RootInv'
  <2>1. stack'[1].p = p /\ Len(stack') = 1 /\ left' = left \ {p}
    BY <1>4 DEF EnterBase, Frame
  <2>2. \A i \in 2 .. Len(stack') : FALSE
    BY <2>1
  <2> QED
    BY <1>1, <2>1, <2>2 DEF RootInv
<1>5. CASE BaseDone
  <2>1. stack' = <<>> /\ left' = left
    BY <1>5 DEF BaseDone
  <2>2. \A i \in 2 .. Len(stack') : FALSE
    BY <2>1
  <2> QED
    BY <1>1, <2>1, <2>2 DEF RootInv
<1>6. CASE (AtRule /\ Step) \/ RuleCall \/ ReturnToCaller
  <2>1. ASSUME RuleCall, NEW q \in CalledChain
        PROVE  ~ChainAt(rs, q).base
    <3>1. AtRule /\ Found.act.kind \in {"jump", "goto"} /\ stack # <<>>
      BY <2>1 DEF RuleCall, RuleMatches, AtRule, Executing
    <3>2. call \in Inputs /\ Top.p \in Places(rs) /\ Top.pc \in 1 .. Len(Here.rules)
      <4>1. Top \in FrameT /\ Here \in Chain /\ Top.p \in Places(rs)
        BY <3>1, TopType
      <4>2. Top.pc \in Nat \ {0} /\ Here.rules \in Seq(Rule)
        BY <4>1 DEF FrameT, Chain
      <4> QED
        BY <3>1, <4>1, <4>2, LenProperties DEF TypeOK, AtRule
    <3> QED
      BY <2>1, <3>1, <3>2 DEF OnlyRegularChainsCalled, CalledChain, Found, Here, rs
  <2> QED
    BY <1>1, <1>6, <2>1, RootStays DEF RootInv
<1> QED
  BY <1>2, <1>3, <1>4, <1>5, <1>6
  DEF Next, Walk, Returned, vars, RefuseIngress, RefuseHook, Refuse, AllAccepted, TooDeep,
      ChainEnd, RuleNoMatch, RuleSkipped, RuleUnknown, RuleContinue, RuleAccept, RuleDrop,
      RuleDNAT, RuleUnhandled, RuleReturn, RuleMissing, Return, RuleMatches

(* The trace grows at a rule of the innermost chain only.                  *)
LEMMA HitsGrow ==
    ASSUME [Next]_vars
    PROVE  \/ hits' = hits
           \/ \E a : AtRule /\ Record(a) /\ stack # <<>> /\ started
  BY DEF Next, Walk, Returned, vars, RefuseIngress, RefuseHook, Refuse, Collect, EnterBase,
         BaseDone, AllAccepted, TooDeep, ChainEnd, RuleNoMatch, RuleSkipped, RuleUnknown,
         RuleContinue, RuleAccept, RuleDrop, RuleDNAT, RuleUnhandled, RuleReturn, RuleCall,
         RuleMissing, RuleMatches, AtRule, Executing, Walking, ReturnToCaller

(* A base chain at the top of the stack is the one the walk entered.       *)
LEMMA TopIsRoot ==
    ASSUME TypeOK, RootInv, stack # <<>>, Here.base
    PROVE  Len(stack) = 1 /\ Top.p = stack[1].p
<1>1. Len(stack) \in Nat \ {0}
  BY TopType
<1>2. ~(Len(stack) \in 2 .. Len(stack))
  BY DEF RootInv, Here, Top
<1>3. Len(stack) = 1
  <2> DEFINE n == Len(stack)
  <2> HIDE DEF n
  <2>1. n \in Nat \ {0} /\ ~(n \in 2 .. n)
    BY <1>1, <1>2 DEF n
  <2>2. n = 1
    BY <2>1
  <2> QED
    BY <2>2 DEF n
<1> QED
  BY <1>3 DEF Top

Priority(p) == ChainAt(rs, p).priority

OrderInv ==
    /\ HitsInPriorityOrder
    /\ started \/ hits = <<>>
    /\ \A i \in 1 .. Len(hits) : hits[i].p \in Roots =>
          /\ \A p \in left : Priority(hits[i].p) <= Priority(p)
          /\ stack # <<>> => Priority(hits[i].p) <= Priority(stack[1].p)
    /\ stack # <<>> => \A p \in left : Priority(stack[1].p) <= Priority(p)

LEMMA PriorityType ==
    ASSUME TypeOK, NEW p \in Roots
    PROVE  p \in Places(rs) /\ Priority(p) \in Int /\ ChainAt(rs, p).base
<1>1. p \in Places(rs) /\ ChainAt(rs, p).base
  BY DEF Roots, BaseChains
<1>2. ChainAt(rs, p) \in Chain
  BY <1>1, CallType, PlaceType
<1> QED
  BY <1>1, <1>2 DEF Priority, Chain

InOrder(h, r, roots) ==
    \A i, j \in 1 .. Len(h) : h[i].p \in roots /\ h[j].p \in roots /\ i < j =>
        ChainAt(r, h[i].p).priority <= ChainAt(r, h[j].p).priority

LEMMA HitsOrdered == HitsInPriorityOrder <=> InOrder(hits, rs, Roots)
  BY DEF HitsInPriorityOrder, InOrder, Roots

LEMMA HitsOrderedNext == HitsInPriorityOrder' <=> InOrder(hits', rs', Roots')
  BY DEF HitsInPriorityOrder, InOrder, Roots

LEMMA OrderNext ==
    ASSUME TypeOK, StackShape, RootInv, OrderInv, [Next]_vars
    PROVE  OrderInv'
<1>1. call' = call /\ rs' = rs /\ Roots' = Roots /\ \A p : Priority(p)' = Priority(p)
  BY CallStays DEF Priority
<1>h. hits \in Seq(Hit) /\ Len(hits) \in Nat
  BY DEF TypeOK
<1>n. /\ \A i, j \in 1 .. Len(hits) : hits[i].p \in Roots /\ hits[j].p \in Roots /\ i < j =>
              Priority(hits[i].p) <= Priority(hits[j].p)
      /\ HitsInPriorityOrder' <=>
           \A i, j \in 1 .. Len(hits') : hits'[i].p \in Roots /\ hits'[j].p \in Roots /\ i < j =>
              Priority(hits'[i].p) <= Priority(hits'[j].p)
  <2>1. InOrder(hits, rs, Roots)
    BY HitsOrdered DEF OrderInv
  <2>2. HitsInPriorityOrder' <=> InOrder(hits', rs, Roots)
    BY <1>1, HitsOrderedNext
  <2> HIDE DEF Roots, HitsInPriorityOrder
  <2> QED
    BY <2>1, <2>2 DEF InOrder, Priority
<1>2. ASSUME stack # <<>>, stack' # <<>>, stack'[1].p = stack[1].p, left' = left, started' = started
      PROVE  OrderInv'
  <2>1. CASE hits' = hits
    BY <1>1, <1>2, <1>n, <2>1 DEF OrderInv, Priority
  <2>2. ASSUME NEW a, AtRule, Record(a), started
        PROVE  OrderInv'
    <3>1. /\ Len(hits') = Len(hits) + 1
          /\ \A i \in 1 .. Len(hits) : hits'[i] = hits[i]
          /\ hits'[Len(hits) + 1].p = Top.p
      BY <1>h, <2>2 DEF Record
    <3>2. Top.p \in Roots => Top.p = stack[1].p
      BY <1>2, TopIsRoot, PriorityType DEF Here
    <3>3. \A i \in 1 .. Len(hits') : hits'[i].p \in Roots =>
             \/ i \in 1 .. Len(hits) /\ hits'[i] = hits[i]
             \/ i = Len(hits) + 1 /\ hits'[i].p = stack[1].p
      BY <1>h, <3>1, <3>2
    <3>4. stack[1].p \in Roots /\ Priority(stack[1].p) \in Int
      BY <1>2, PriorityType DEF RootInv
    <3>5. \A i, j \in 1 .. Len(hits') : hits'[i].p \in Roots /\ hits'[j].p \in Roots /\ i < j =>
              Priority(hits'[i].p) <= Priority(hits'[j].p)
      <4> SUFFICES ASSUME NEW i \in 1 .. Len(hits'), NEW j \in 1 .. Len(hits'),
                          hits'[i].p \in Roots, hits'[j].p \in Roots, i < j
                   PROVE  Priority(hits'[i].p) <= Priority(hits'[j].p)
        OBVIOUS
      <4>1. i \in 1 .. Len(hits) /\ hits'[i] = hits[i]
        BY <1>h, <3>1
      <4>2. CASE j \in 1 .. Len(hits) /\ hits'[j] = hits[j]
        BY <1>n, <4>1, <4>2
      <4>3. CASE hits'[j].p = stack[1].p
        BY <1>2, <4>1, <4>3 DEF OrderInv
      <4> QED
        BY <3>3, <4>2, <4>3
    <3>6. \A i \in 1 .. Len(hits') : hits'[i].p \in Roots =>
              /\ \A p \in left : Priority(hits'[i].p) <= Priority(p)
              /\ Priority(hits'[i].p) <= Priority(stack[1].p)
      BY <1>2, <3>3, <3>4 DEF OrderInv
    <3> QED
      BY <1>1, <1>2, <1>n, <2>2, <3>5, <3>6 DEF OrderInv, Priority
  <2> QED
    BY <2>1, <2>2, HitsGrow
<1>3. CASE UNCHANGED <<left, stack, started>>
  <2>1. CASE stack # <<>>
    BY <1>2, <1>3, <2>1
  <2>2. CASE stack = <<>>
    <3>1. hits' = hits
      BY <2>2, HitsGrow
    <3> QED
      BY <1>1, <1>3, <1>n, <2>2, <3>1 DEF OrderInv, Priority
  <2> QED
    BY <2>1, <2>2
<1>4. CASE Collect
  <2>1. hits' = <<>> /\ Len(hits') = 0 /\ stack' = <<>> /\ started'
    BY <1>4 DEF Collect, StackShape, OrderInv
  <2>2. \A i \in 1 .. Len(hits') : FALSE
    BY <2>1
  <2> QED
    BY <1>n, <2>1, <2>2 DEF OrderInv
<1>5. ASSUME NEW p \in left, EnterBase(p)
      PROVE  OrderInv'
  <2>1. /\ stack'[1].p = p /\ left' = left \ {p} /\ hits' = hits /\ started' = started
        /\ IsNext(rs, left, p) /\ stack' # <<>>
    BY <1>5 DEF EnterBase, Frame
  <2>2. ASSUME NEW q \in left \ {p}
        PROVE  Priority(p) <= Priority(q)
    <3>1. p \in Roots /\ q \in Roots
      BY DEF RootInv
    <3>2. Priority(p) \in Int /\ Priority(q) \in Int
      BY <3>1, PriorityType
    <3>3. LexLess(SortKey(rs, p), SortKey(rs, q))
      BY <2>1 DEF IsNext
    <3>4. SortKey(rs, p)[1] = Priority(p) /\ SortKey(rs, q)[1] = Priority(q)
      BY DEF SortKey, Priority
    <3>5. DOMAIN SortKey(rs, p) = 1 .. 5
      BY DEF SortKey
    <3> QED
      BY <3>2, <3>3, <3>4, <3>5 DEF LexLess
  <2>3. \A i \in 1 .. Len(hits) : hits[i].p \in Roots =>
            \A q \in left : Priority(hits[i].p) <= Priority(q)
    BY DEF OrderInv
  <2> QED
    BY <1>1, <1>n, <2>1, <2>2, <2>3 DEF OrderInv, Priority
<1>6. CASE BaseDone
  <2>1. stack' = <<>> /\ left' = left /\ hits' = hits /\ started' = started
    BY <1>6 DEF BaseDone
  <2> QED
    BY <1>1, <1>n, <2>1 DEF OrderInv, Priority
<1>7. CASE (AtRule /\ Step) \/ RuleCall \/ ReturnToCaller
  <2>1. started' = started
    BY <1>7 DEF Step, RuleCall, ReturnToCaller
  <2> QED
    BY <1>2, <1>7, <2>1, RootStays
<1> QED
  BY <1>3, <1>4, <1>5, <1>6, <1>7
  DEF Next, Walk, Returned, vars, RefuseIngress, RefuseHook, Refuse, AllAccepted, TooDeep,
      ChainEnd, RuleNoMatch, RuleSkipped, RuleUnknown, RuleContinue, RuleAccept, RuleDrop,
      RuleDNAT, RuleUnhandled, RuleReturn, RuleMissing, Return, RuleMatches

LEMMA RootInit == Init => RootInv /\ OrderInv
<1> SUFFICES ASSUME Init
             PROVE  RootInv /\ OrderInv
  OBVIOUS
<1>1. left = {} /\ stack = <<>> /\ hits = <<>>
  BY DEF Init
<1>2. (\A i \in 2 .. Len(stack) : FALSE) /\ (\A i \in 1 .. Len(hits) : FALSE)
  BY <1>1
<1> QED
  BY <1>1, <1>2, HitsOrdered DEF RootInv, OrderInv, InOrder

(* The rules of a hook's base chains are met in the order of the chains'   *)
(* priorities, whatever the order of the document (traverse.go:100-130).   *)
THEOREM PrioritiesOrderTheTrace ==
    ASSUME OnlyRegularChainsCalled
    PROVE  Spec => []HitsInPriorityOrder
<1>1. Init => TypeOK /\ StackShape /\ RootInv /\ OrderInv
  BY TypeInit, ShapeInit, RootInit
<1>2. TypeOK /\ StackShape /\ RootInv /\ OrderInv /\ [Next]_vars
        => (TypeOK /\ StackShape /\ RootInv /\ OrderInv)'
  BY TypeNext, ShapeNext, RootNext, OrderNext
<1>3. OrderInv => HitsInPriorityOrder
  BY DEF OrderInv
<1> QED
  BY <1>1, <1>2, <1>3, PTL DEF Spec

------------------------------------------------------------------------------
(* A packet leaves a base chain that does not accept by policy through an  *)
(* accepting rule, one for each such chain left behind.                    *)
Strict    == {p \in Roots : ChainAt(rs, p).policy # "accept"}
Behind    == {p \in Strict : p \notin left /\ (stack # <<>> => p # stack[1].p)}
Accepting == {i \in 1 .. Len(hits) : hits[i].action \in {"accept", "dnat"}}
Owed      == stack # <<>> /\ ret.kind = "accept" /\ stack[1].p \in Strict

AcceptInv ==
    /\ started /\ result.kind \in {"pending", "accept"} =>
          /\ Cardinality(Behind) <= Cardinality(Accepting)
          /\ Owed => Cardinality(Behind) + 1 <= Cardinality(Accepting)
    /\ result.kind = "accept" => started /\ left = {} /\ stack = <<>>

LEMMA RootsFinite ==
    ASSUME TypeOK
    PROVE  IsFiniteSet(Roots) /\ IsFiniteSet(Strict)
<1> DEFINE Of(t) == {t} \X (1 .. Len(rs[t].chains))
           All == {Of(t) : t \in 1 .. Len(rs)}
<1>1. Len(rs) \in Nat /\ \A t \in 1 .. Len(rs) : Len(rs[t].chains) \in Nat
  <2>1. rs \in Seq(Table)
    BY CallType
  <2>2. ASSUME NEW t \in 1 .. Len(rs)
        PROVE  rs[t].chains \in Seq(Chain)
    <3>1. rs[t] \in Table
      BY <2>1, ElementOfSeq
    <3> QED
      BY <3>1 DEF Table
  <2> QED
    BY <2>1, <2>2, LenProperties
<1>2. ASSUME NEW t \in 1 .. Len(rs)
      PROVE  IsFiniteSet(Of(t))
  <2>1. IsFiniteSet({t})
    BY FS_Singleton
  <2>2. IsFiniteSet(1 .. Len(rs[t].chains))
    <3> DEFINE n == Len(rs[t].chains)
    <3>1. n \in Int /\ 1 \in Int
      BY <1>1
    <3> HIDE DEF n
    <3>2. IsFiniteSet(1 .. n)
      BY <3>1, FS_Interval
    <3> QED
      BY <3>2 DEF n
  <2> QED
    BY <2>1, <2>2, FS_Product
<1>3. IsFiniteSet(All)
  <2> DEFINE f == [t \in 1 .. Len(rs) |-> Of(t)]
  <2>1. f \in Surjection(1 .. Len(rs), All)
    BY DEF Surjection
  <2>2. IsFiniteSet(1 .. Len(rs))
    BY <1>1, FS_Interval
  <2> HIDE DEF f, All
  <2> QED
    BY <2>1, <2>2, FS_Surjection
<1>4. Places(rs) = UNION All
  BY DEF Places
<1>5. IsFiniteSet(Places(rs))
  <2>1. \A T \in All : IsFiniteSet(T)
    BY <1>2
  <2> HIDE DEF All
  <2> QED
    BY <1>3, <1>4, <2>1, FS_UNION
<1>6. Roots \subseteq Places(rs) /\ Strict \subseteq Places(rs)
  BY DEF Roots, BaseChains, Strict
<1> QED
  BY <1>5, <1>6, FS_Subset

LEMMA AcceptingFinite ==
    ASSUME NEW h \in Seq(Hit)
    PROVE  LET S == {i \in 1 .. Len(h) : h[i].action \in {"accept", "dnat"}}
           IN  IsFiniteSet(S) /\ Cardinality(S) \in Nat
<1> DEFINE S == {i \in 1 .. Len(h) : h[i].action \in {"accept", "dnat"}}
<1>1. Len(h) \in Nat /\ S \subseteq 1 .. Len(h)
  BY LenProperties
<1>2. IsFiniteSet(1 .. Len(h))
  BY <1>1, FS_Interval
<1> HIDE DEF S
<1>3. IsFiniteSet(S) /\ Cardinality(S) \in Nat
  BY <1>1, <1>2, FS_Subset, FS_CardinalityType
<1> QED
  BY <1>3 DEF S

(* Recording a rule adds one to the count when the rule accepts.           *)
LEMMA AcceptingGrows ==
    ASSUME TypeOK, NEW a, Record(a)
    PROVE  /\ Cardinality(Accepting) \in Nat
           /\ Cardinality(Accepting') =
                 Cardinality(Accepting) + (IF a \in {"accept", "dnat"} THEN 1 ELSE 0)
<1> DEFINE n == Len(hits)
<1>1. hits \in Seq(Hit) /\ n \in Nat
  BY DEF TypeOK
<1>2. /\ Len(hits') = n + 1 /\ hits'[n + 1].action = a
      /\ \A i \in 1 .. n : hits'[i] = hits[i]
  BY <1>1 DEF Record
<1>3. IsFiniteSet(Accepting) /\ Cardinality(Accepting) \in Nat /\ n + 1 \notin Accepting
  BY <1>1, AcceptingFinite DEF Accepting
<1>4. Accepting' = IF a \in {"accept", "dnat"} THEN Accepting \union {n + 1} ELSE Accepting
  <2> HIDE DEF n
  <2>1. Accepting = {i \in 1 .. n : hits[i].action \in {"accept", "dnat"}}
    BY DEF Accepting, n
  <2>2. Accepting' = {i \in 1 .. n + 1 : hits'[i].action \in {"accept", "dnat"}}
    BY <1>2 DEF Accepting
  <2>3. \A i : i \in 1 .. n + 1 <=> i \in 1 .. n \/ i = n + 1
    BY <1>1
  <2> QED
    BY <1>2, <2>1, <2>2, <2>3
<1> HIDE DEF n
<1>5. CASE a \in {"accept", "dnat"}
  <2>1. Cardinality(Accepting \union {n + 1}) = Cardinality(Accepting) + 1
    BY <1>3, FS_AddElement
  <2> QED
    BY <1>3, <1>4, <1>5, <2>1
<1>6. CASE a \notin {"accept", "dnat"}
  <2>1. Accepting' = Accepting
    BY <1>4, <1>6
  <2> QED
    BY <1>3, <1>6, <2>1
<1> QED
  BY <1>5, <1>6

LEMMA OneMore ==
    ASSUME NEW S, NEW x, IsFiniteSet(S)
    PROVE  /\ Cardinality(S \union {x}) \in Nat
           /\ Cardinality(S \union {x}) <= Cardinality(S) + 1
<1>1. Cardinality(S) \in Nat
  BY FS_CardinalityType
<1>2. /\ IsFiniteSet(S \union {x})
      /\ Cardinality(S \union {x}) = IF x \in S THEN Cardinality(S) ELSE Cardinality(S) + 1
  BY FS_AddElement
<1> QED
  BY <1>1, <1>2

(* A policy only lets through what it says it does.                        *)
LEMMA PolicyAccepts ==
    ASSUME NEW r, NEW p, BasePolicyResult(r, p).kind = "accept"
    PROVE  ChainAt(r, p).policy = "accept"
  BY DEF BasePolicyResult, Res

(* Within a base chain, a result that lets the packet through against its  *)
(* policy is that of an accepting rule.                                    *)
LEMMA OwedToARule ==
    ASSUME TypeOK, StackShape, RootInv, [Next]_vars,
           stack # <<>>, stack' # <<>>, stack'[1].p = stack[1].p, Owed'
    PROVE  Owed \/ \E a \in {"accept", "dnat"} : Record(a)
<1>1. call' = call /\ rs' = rs /\ Strict' = Strict
  BY CallStays DEF Strict
<1>2. ret'.kind = "accept" /\ stack[1].p \in Strict
  BY <1>1 DEF Owed
<1>3. ASSUME NEW p, ret' = BasePolicyResult(rs, p)
      PROVE  p # stack[1].p
  BY <1>2, <1>3, PolicyAccepts DEF Strict
<1>4. CASE ret' = ret
  BY <1>2, <1>4 DEF Owed
<1>5. CASE RuleAccept \/ RuleDNAT
  BY <1>5 DEF RuleAccept, RuleDNAT, RuleMatches
<1>6. CASE RuleDrop \/ RuleUnknown \/ RuleUnhandled \/ RuleMissing \/ TooDeep
  BY <1>2, <1>6 DEF RuleDrop, RuleUnknown, RuleUnhandled, RuleMissing, TooDeep, Return, Res
<1>7. CASE ChainEnd \/ RuleReturn
  <2>1. ret' = Fallthrough
    BY <1>7 DEF ChainEnd, RuleReturn, Return
  <2>2. Here.base /\ ret' = BasePolicyResult(rs, Top.p)
    BY <1>2, <2>1 DEF Fallthrough, Res
  <2> QED
    BY <1>3, <2>2, TopIsRoot
<1>8. CASE ReturnToCaller
  <2>1. ret' = AfterCall(ret, Top.via, Caller.p)
    BY <1>8 DEF ReturnToCaller
  <2>2. /\ ret \in Returns /\ ret.kind # "running" /\ Len(stack) \in Nat /\ Len(stack) > 1
        /\ Top.via \in {"jump", "goto"}
    BY <1>8 DEF StackShape, TypeOK, ReturnToCaller, Top
  <2>3. CASE ret' = Running
    BY <1>2, <2>3, RunningType
  <2>4. CASE ret' = Unwind(Caller.p)
    <3>1. ChainAt(rs, Caller.p).base /\ ret' = BasePolicyResult(rs, Caller.p)
      BY <1>2, <2>4 DEF Unwind, Res
    <3>2. ~(Len(stack) - 1 \in 2 .. Len(stack))
      BY <3>1 DEF RootInv, Caller
    <3>3. Len(stack) - 1 = 1
      <4>1. \A n \in Nat : n > 1 /\ n - 1 \notin 2 .. n => n - 1 = 1
        OBVIOUS
      <4>2. Len(stack) \in Nat /\ Len(stack) > 1
        BY <2>2
      <4> QED
        BY <3>2, <4>1, <4>2
    <3> QED
      BY <1>3, <3>1, <3>3 DEF Caller
  <2>5. ret' = ret \/ ret' = Running \/ ret' = Unwind(Caller.p)
    BY <2>1, <2>2 DEF AfterCall
  <2> QED
    BY <1>4, <2>3, <2>4, <2>5
<1>9. CASE BaseDone \/ \E p \in left : EnterBase(p)
  BY <1>9 DEF BaseDone, EnterBase
<1> QED
  BY <1>4, <1>5, <1>6, <1>7, <1>8, <1>9
  DEF Next, Walk, Returned, vars, RefuseIngress, RefuseHook, Refuse, Collect, AllAccepted,
      RuleNoMatch, RuleSkipped, RuleContinue, RuleCall, Step

LEMMA AcceptWithin ==
    ASSUME TypeOK, StackShape, RootInv, AcceptInv, [Next]_vars,
           stack # <<>>, stack' # <<>>, stack'[1].p = stack[1].p,
           left' = left, started' = started, result' = result
    PROVE  AcceptInv'
<1>1. call' = call /\ rs' = rs /\ Strict' = Strict
  BY CallStays DEF Strict
<1>2. Behind' = Behind
  BY <1>1 DEF Behind
<1>3. Cardinality(Behind) \in Nat
  BY RootsFinite, FS_Subset, FS_CardinalityType DEF Behind
<1>4. /\ Cardinality(Accepting) \in Nat /\ Cardinality(Accepting') \in Nat
      /\ Cardinality(Accepting) <= Cardinality(Accepting')
      /\ (\E a \in {"accept", "dnat"} : Record(a))
            => Cardinality(Accepting') = Cardinality(Accepting) + 1
  <2>1. Cardinality(Accepting) \in Nat
    BY AcceptingFinite DEF Accepting, TypeOK
  <2>2. CASE hits' = hits
    <3>1. Accepting' = Accepting
      BY <2>2 DEF Accepting
    <3>2. \A a : ~Record(a)
      <4>1. hits \in Seq(Hit) /\ Len(hits) \in Nat
        BY DEF TypeOK
      <4>2. \A e : Len(Append(hits, e)) = Len(hits) + 1
        BY <4>1
      <4> QED
        BY <2>2, <4>1, <4>2 DEF Record
    <3> QED
      BY <2>1, <3>1, <3>2
  <2>3. ASSUME NEW a, Record(a)
        PROVE  /\ Cardinality(Accepting') \in Nat
               /\ Cardinality(Accepting) <= Cardinality(Accepting')
               /\ a \in {"accept", "dnat"}
                     => Cardinality(Accepting') = Cardinality(Accepting) + 1
    BY <2>1, <2>3, AcceptingGrows
  <2> QED
    BY <2>1, <2>2, <2>3, HitsGrow
<1>5. Owed' => Owed \/ \E a \in {"accept", "dnat"} : Record(a)
  BY OwedToARule
<1> QED
  BY <1>2, <1>3, <1>4, <1>5 DEF AcceptInv

LEMMA AcceptNext ==
    ASSUME TypeOK, StackShape, RootInv, AcceptInv, [Next]_vars
    PROVE  AcceptInv'
<1>1. call' = call /\ rs' = rs /\ Strict' = Strict
  BY CallStays DEF Strict
<1>2. /\ IsFiniteSet(Behind) /\ Cardinality(Behind) \in Nat
      /\ Cardinality(Accepting) \in Nat
  <2>1. IsFiniteSet(Behind)
    BY RootsFinite, FS_Subset DEF Behind
  <2> QED
    BY <2>1, FS_CardinalityType, AcceptingFinite DEF Accepting, TypeOK
<1>3. CASE UNCHANGED <<left, stack, started, result>>
  <2>1. CASE stack # <<>>
    BY <1>3, <2>1, AcceptWithin
  <2>2. CASE stack = <<>>
    <3>1. hits' = hits
      BY <2>2, HitsGrow
    <3>2. Behind' = Behind /\ Accepting' = Accepting /\ ~Owed'
      BY <1>1, <1>3, <2>2, <3>1 DEF Behind, Accepting, Owed
    <3> QED
      BY <1>3, <3>2 DEF AcceptInv
  <2> QED
    BY <2>1, <2>2
<1>4. CASE (AtRule /\ Step) \/ RuleCall \/ ReturnToCaller
  <2>1. started' = started
    BY <1>4 DEF Step, RuleCall, ReturnToCaller
  <2> QED
    BY <1>4, <2>1, RootStays, AcceptWithin
<1>5. CASE RefuseIngress \/ RefuseHook
  BY <1>5 DEF RefuseIngress, RefuseHook, Refuse, AcceptInv, Res
<1>6. CASE Collect
  <2>1. stack' = <<>> /\ left' = Roots /\ result' = NoResult
    BY <1>6 DEF Collect, StackShape, Roots
  <2>2. Behind' = {} /\ ~Owed'
    BY <1>1, <2>1 DEF Behind, Owed, Strict
  <2>3. Accepting' = Accepting
    BY <1>6 DEF Collect, Accepting
  <2>4. Cardinality(Behind') = 0
    BY <2>2, FS_EmptySet
  <2>5. result'.kind = "pending"
    BY <2>1 DEF NoResult
  <2>6. Cardinality(Behind') <= Cardinality(Accepting')
    BY <1>2, <2>3, <2>4
  <2> QED
    BY <2>2, <2>5, <2>6 DEF AcceptInv
<1>7. CASE AllAccepted
  <2>1. /\ stack' = <<>> /\ stack = <<>> /\ left' = {} /\ left = {} /\ started' /\ started
        /\ result = NoResult /\ hits' = hits
    BY <1>7 DEF AllAccepted, Walking
  <2>2. Behind' = Behind /\ Accepting' = Accepting /\ ~Owed'
    BY <1>1, <2>1 DEF Behind, Accepting, Owed
  <2> QED
    BY <2>1, <2>2 DEF AcceptInv, NoResult
<1>8. ASSUME NEW p \in left, EnterBase(p)
      PROVE  AcceptInv'
  <2>1. /\ stack = <<>> /\ stack' # <<>> /\ stack'[1].p = p /\ left' = left \ {p}
        /\ ret' = Running /\ started /\ started' /\ result = NoResult /\ result' = NoResult
        /\ hits' = hits
    BY <1>8 DEF EnterBase, Walking, Frame, StackShape
  <2>2. Behind' = Behind /\ Accepting' = Accepting
    BY <1>1, <2>1 DEF Behind, Accepting
  <2>3. ~Owed'
    BY <2>1, RunningType DEF Owed
  <2> QED
    BY <2>1, <2>2, <2>3 DEF AcceptInv, NoResult
<1>9. CASE BaseDone
  <2>1. /\ stack # <<>> /\ stack' = <<>> /\ left' = left /\ hits' = hits
        /\ result = NoResult /\ result' = BaseResult(ret) /\ started' = started /\ started
    BY <1>9 DEF BaseDone, Walking
  <2>2. ret.kind # "accept" => result'.kind \notin {"pending", "accept"}
    BY <2>1 DEF BaseResult, Res
  <2>3. result'.kind # "accept"
    <3>1. CASE ret.kind = "accept"
      <4>1. result' = NoResult
        BY <2>1, <3>1 DEF BaseResult
      <4> QED
        BY <4>1 DEF NoResult
    <3>2. CASE ret.kind # "accept"
      BY <2>2, <3>2
    <3> QED
      BY <3>1, <3>2
  <2>4. ~Owed' /\ Accepting' = Accepting
    BY <2>1 DEF Owed, Accepting
  <2>5. CASE ret.kind = "accept"
    <3>1. CASE stack[1].p \in Strict
      <4>1. Behind' = Behind \union {stack[1].p}
        BY <1>1, <2>1, <3>1 DEF Behind, RootInv
      <4>2. Cardinality(Behind') <= Cardinality(Behind) + 1
        BY <1>2, <4>1, OneMore
      <4>3. Cardinality(Behind') \in Nat
        BY <1>2, <4>1, OneMore
      <4>4. Owed
        BY <2>1, <2>5, <3>1 DEF Owed
      <4>5. Cardinality(Behind) + 1 <= Cardinality(Accepting)
        BY <2>1, <4>4 DEF AcceptInv, NoResult
      <4> QED
        BY <1>2, <2>3, <2>4, <4>2, <4>3, <4>5 DEF AcceptInv
    <3>2. CASE stack[1].p \notin Strict
      <4>1. Behind' = Behind
        BY <1>1, <2>1, <3>2 DEF Behind
      <4> QED
        BY <2>1, <2>3, <2>4, <4>1 DEF AcceptInv, NoResult
    <3> QED
      BY <3>1, <3>2
  <2>6. CASE ret.kind # "accept"
    BY <2>2, <2>6 DEF AcceptInv
  <2> QED
    BY <2>5, <2>6
<1> QED
  BY <1>3, <1>4, <1>5, <1>6, <1>7, <1>8, <1>9
  DEF Next, Walk, Returned, vars, TooDeep, ChainEnd, RuleNoMatch, RuleSkipped, RuleUnknown,
      RuleContinue, RuleAccept, RuleDrop, RuleDNAT, RuleUnhandled, RuleReturn, RuleMissing,
      Return, RuleMatches

(* A hook accepts a packet only when each of its base chains whose policy  *)
(* is not to accept let it through by a rule of its own walk               *)
(* (traverse.go:131-180).                                                  *)
THEOREM AcceptIsAccountedFor ==
    ASSUME OnlyRegularChainsCalled
    PROVE  Spec => []AcceptAccountsForEveryBase
<1>1. Init => TypeOK /\ StackShape /\ RootInv /\ AcceptInv
  <2>1. ASSUME Init
        PROVE  AcceptInv
    <3>1. ~started /\ result.kind # "accept"
      BY <2>1 DEF Init, NoResult
    <3> QED
      BY <3>1 DEF AcceptInv
  <2> QED
    BY <2>1, TypeInit, ShapeInit, RootInit
<1>2. TypeOK /\ StackShape /\ RootInv /\ AcceptInv /\ [Next]_vars
        => (TypeOK /\ StackShape /\ RootInv /\ AcceptInv)'
  BY TypeNext, ShapeNext, RootNext, AcceptNext
<1>3. AcceptInv => AcceptAccountsForEveryBase
  <2> SUFFICES ASSUME AcceptInv, result.kind = "accept"
               PROVE  /\ left = {}
                      /\ Cardinality(Strict) <= Cardinality(Accepting)
    BY DEF AcceptAccountsForEveryBase, Strict, Accepting, Roots
  <2>1. left = {} /\ stack = <<>> /\ started
    BY DEF AcceptInv
  <2>2. Behind = Strict
    BY <2>1 DEF Behind
  <2> QED
    BY <2>1, <2>2 DEF AcceptInv
<1> QED
  BY <1>1, <1>2, <1>3, PTL DEF Spec
=============================================================================
