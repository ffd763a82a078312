------------------------------ MODULE HookSpec -------------------------------
(***************************************************************************)
(* What the walk of a hook promises, without the call stack: the packet is *)
(* at one rule, with the return addresses a jump left behind.  A goto      *)
(* leaves none and drops those of its callers, so that falling off the end *)
(* afterwards lands on the policy of the base chain at once; a verdict     *)
(* takes effect at once, however deep the chain that gave it.  This is     *)
(* section 6.2 of the design, and what the comments on walkChain and       *)
(* unwind claim of internal/model/traverse.go.                             *)
(***************************************************************************)
EXTENDS Ruleset

CONSTANT MaxJumpDepth

VARIABLES
    call, started, left, dnat, result,   \* as in Traverse
    pos,       \* where the packet is: return addresses, innermost last
    nest       \* chains entered and not returned from

absvars == <<call, started, left, dnat, result, pos, nest>>

Pending == [kind |-> "pending", why |-> ""]
ruleset == call.rs
At      == pos[Len(pos)]
Chn     == ChainAt(ruleset, At.p)
Match   == Matched(ruleset, call.family, At.p, At.pc)
OnRule  == pos # <<>> /\ nest <= MaxJumpDepth + 1 /\ At.pc <= Len(Chn.rules)

Start ==
    /\ call \in Inputs
    /\ started = FALSE /\ left = {} /\ dnat = NoDNAT /\ result = Pending
    /\ pos = <<>> /\ nest = 0

Refused ==
    /\ ~started /\ result = Pending
    /\ \/ IngressUnmodelled(ruleset, call.iface) /\ result' = Res("unknown", "ingress")
       \/ UnknownHook(ruleset, call.family) /\ result' = Res("unknown", "hook")
    /\ UNCHANGED <<call, started, left, dnat, pos, nest>>

Begin ==
    /\ ~started /\ result = Pending
    /\ ~IngressUnmodelled(ruleset, call.iface) /\ ~UnknownHook(ruleset, call.family)
    /\ started' = TRUE
    /\ left' = BaseChains(ruleset, call.family, call.hook)
    /\ UNCHANGED <<call, dnat, result, pos, nest>>

Enter(p) ==
    /\ started /\ result = Pending /\ pos = <<>>
    /\ IsNext(ruleset, left, p)
    /\ left' = left \ {p}
    /\ pos' = <<[p |-> p, pc |-> 1, owner |-> p]>>
    /\ nest' = 1
    /\ UNCHANGED <<call, started, dnat, result>>

Passed ==
    /\ started /\ result = Pending /\ pos = <<>> /\ left = {}
    /\ result' = Res("accept", "hook")
    /\ UNCHANGED <<call, started, left, dnat, pos, nest>>

(* The packet leaves the base chain with r; only an accept is not final.   *)
Leave(r) ==
    /\ pos' = <<>> /\ nest' = 0
    /\ result' = IF r.kind = "accept" THEN result ELSE r

NextRule ==
    /\ OnRule
    /\ \/ Match.out \in {"NoMatch", "Skipped"}
       \/ Match.out = "Match" /\ Match.act.kind \in {"continue", "none"}
    /\ pos' = [pos EXCEPT ![Len(pos)].pc = @ + 1]
    /\ UNCHANGED <<call, started, left, dnat, result, nest>>

Verdict ==
    /\ OnRule /\ Match.out = "Match"
    /\ \/ Match.act.kind = "accept" /\ Leave(Res("accept", "rule")) /\ UNCHANGED dnat
       \/ Match.act.kind \in {"drop", "reject"} /\ Leave(Res("drop", "rule")) /\ UNCHANGED dnat
       \/ Match.act.kind = "dnat" /\ Leave(Res("accept", "rule")) /\ dnat' = Match.act.dnat
    /\ UNCHANGED <<call, started, left>>

Chosen == FindChain(ruleset, call.family, ruleset[At.p[1]].name, Match.act.chain)

(* A chain entered by jump or goto; one of its rules may reach a base      *)
(* chain's policy, which is that of the innermost base chain entered.      *)
Descend ==
    /\ OnRule /\ Match.out = "Match" /\ Match.act.kind \in {"jump", "goto"}
    /\ \E t \in Chosen :
       LET f == [p |-> t, pc |-> 1,
                 owner |-> IF ChainAt(ruleset, t).base THEN t ELSE At.owner]
       IN  pos' = IF Match.act.kind = "jump" THEN Append(pos, f) ELSE <<f>>
    /\ nest' = nest + 1
    /\ UNCHANGED <<call, started, left, dnat, result>>

(* The end of a chain: back to the rule after the jump, if one waits.      *)
FellOff ==
    \/ pos # <<>> /\ nest <= MaxJumpDepth + 1 /\ At.pc > Len(Chn.rules)
    \/ OnRule /\ Match.out = "Match" /\ Match.act.kind = "return"

Resume ==
    /\ FellOff /\ ~Chn.base /\ Len(pos) > 1
    /\ pos' = [SubSeq(pos, 1, Len(pos) - 1) EXCEPT ![Len(pos) - 1].pc = @ + 1]
    /\ nest' = nest - 1
    /\ UNCHANGED <<call, started, left, dnat, result>>

Policy ==
    /\ FellOff /\ (Chn.base \/ Len(pos) = 1)
    /\ Leave(BasePolicyResult(ruleset, At.owner))
    /\ UNCHANGED <<call, started, left, dnat>>

(* What whyopen cannot resolve is never turned into a verdict.             *)
GiveUp ==
    /\ pos # <<>>
    /\ \/ nest > MaxJumpDepth + 1 /\ Leave(Res("unknown", "depth"))
       \/ OnRule /\ Match.out = "Unknown" /\ Leave(Res("unknown", "expression"))
       \/ OnRule /\ Match.out = "Match" /\ Match.act.kind \in {"queue", "unknown"}
                 /\ Leave(Res("unknown", "verdict"))
       \/ OnRule /\ Match.out = "Match" /\ Match.act.kind \in {"jump", "goto"}
                 /\ Chosen = {} /\ Leave(Res("unknown", "chain"))
    /\ UNCHANGED <<call, started, left, dnat>>

AbsNext ==
    \/ Refused \/ Begin \/ (\E p \in left : Enter(p)) \/ Passed
    \/ NextRule \/ Verdict \/ Descend \/ Resume \/ Policy \/ GiveUp

AbsSpec == Start /\ [][AbsNext]_absvars
=============================================================================
