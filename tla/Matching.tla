------------------------------- MODULE Matching ------------------------------
(***************************************************************************)
(* One rule, from the kernel to a decision: collected (nftconv.go,         *)
(* rulepayload.go), perhaps stored in a document by this build or another  *)
(* and read back (Redecode), and read by MatchRule (internal/model/        *)
(* match.go), an expression at a time, against what its author wrote.      *)
(***************************************************************************)
EXTENDS Statements, Render, Document

CONSTANTS
    Inputs   \* the packets, statements and actions under study

(* Every statement and action is one that the modelled compilers take;     *)
(* `socket`, whose payload may be empty, is a match and never a target.    *)
ASSUME InputsAssumption ==
    \A x \in Inputs :
        /\ x.stmts \in Seq(Range(x.stmts))
        /\ \A st \in Range(x.stmts) : st.s \in StatementKinds
        /\ x.does.d \in DoesKinds
        /\ x.does.d = "xt" => x.does.name # "socket"

(* What they say is something that can be written; a prefix is one of an   *)
(* address of the packet's family.                                         *)
ASSUME WrittenAssumption ==
    \A x \in Inputs :
        /\ x.pkt \in Packet
        /\ \A st \in Range(x.stmts) :
              /\ st \in Statement
              /\ st.s = "prefix" => x.pkt.family = "ip" /\ Len(x.pkt.src) = 4 /\ Len(x.pkt.dst) = 4
        /\ x.does \in Deed

VARIABLES
    input,   \* [pkt, stmts, does]: what is matched
    doc,     \* "live", "stored" in a document, "read" from one, or "refused"
    schema,  \* the version the document names
    rule,    \* its expressions
    pc,      \* the next of them
    m        \* registers, action and outcome so far
vars == <<input, doc, schema, rule, pc, m>>

(***************************************************************************)
(* Collection and the document                                             *)
(***************************************************************************)
Kernel == CompileRule(input.stmts, input.does)

Init ==
    /\ input \in Inputs
    /\ doc = "live" /\ schema = SchemaVersion
    /\ rule \in {CollectRule(Kernel, dumped) : dumped \in BOOLEAN}
    /\ pc = 1
    /\ m = Start

(* What a build with other decoders would have recorded of an expression   *)
(* whose payload it kept: nothing, or the answer that misreads an invert   *)
(* as decision 0001 found it; and a later build of one that is unknown     *)
(* here: a kind of its own.                                                *)
Recorded(e, how) ==
    IF how = "later build" THEN (IF e = Unknown THEN Bare("later") ELSE e)
    ELSE IF e.k # "xt" \/ e.raw = NoPayload \/ how = "this build" THEN e
    ELSE CASE how = "undecoded" -> [e EXCEPT !.decoded = FALSE, !.arg = [none |-> 0]]
           [] how = "misread"   ->
                IF e.decoded /\ "invertDst" \in DOMAIN e.arg
                THEN [e EXCEPT !.arg.invertDst = FALSE, !.arg.invertSrc = FALSE] ELSE e
           [] how = "garbled"   -> [e EXCEPT !.raw = [type |-> "garbled"]]

Stores(version) ==
    /\ doc = "live" /\ pc = 1 /\ m = Start
    /\ doc' = "stored" /\ schema' = version
    /\ UNCHANGED <<input, pc, m>>

Store == \E how \in {"this build", "undecoded", "misread", "garbled", "later build"} :
    /\ Stores(SchemaVersion)
    /\ rule' = [i \in DOMAIN rule |-> Recorded(rule[i], how)]

(* What an editor can leave behind, and what a later build may write.      *)
Damage == \E i \in DOMAIN rule :
    /\ Stores(SchemaVersion)
    /\ rule' = [rule EXCEPT ![i] = Bare(@.k)]

WriteOtherVersion == \E v \in {0, SchemaVersion + 1} : Stores(v) /\ UNCHANGED rule

(* loadFacts.                                                              *)
ReadBack ==
    /\ doc = "stored" /\ SupportedSchema(schema) /\ Validate(rule)
    /\ doc' = "read"
    /\ rule' = Redecode(rule)
    /\ UNCHANGED <<input, schema, pc, m>>

Refuse ==
    /\ doc = "stored" /\ ~(SupportedSchema(schema) /\ Validate(rule))
    /\ doc' = "refused"
    /\ UNCHANGED <<input, schema, rule, pc, m>>

(***************************************************************************)
(* MatchRule                                                               *)
(***************************************************************************)
Evaluating == doc \in {"live", "read"} /\ m.out = ""

(* Every case begins with the object its kind promises.                    *)
Executes(kinds) ==
    /\ Evaluating
    /\ pc <= Len(rule)
    /\ rule[pc].k \in kinds
    /\ m' = IF Missing(rule[pc]) THEN Ends(m, "Panic") ELSE Exec(input.pkt, rule, Sets, pc, m)
    /\ pc' = pc + 1
    /\ UNCHANGED <<input, doc, schema, rule>>

Load     == Executes({"payload", "meta", "ct", "fib", "immediate"})
Mask     == Executes({"bitwise"})
Compare  == Executes({"cmp", "range"})
LookUp   == Executes({"lookup"})
Extend   == Executes({"xt"})
DoIt     == Executes({"nat", "verdict"})
PassOver == Executes({"other"})
GiveUp   == Executes({"unknown", "later"})

RunOut ==
    /\ Evaluating
    /\ pc > Len(rule)
    /\ m' = Ends(m, "Match")
    /\ UNCHANGED <<input, doc, schema, rule, pc>>

Decided == (m.out # "" \/ doc = "refused") /\ UNCHANGED vars

Next == Store \/ Damage \/ WriteOtherVersion \/ ReadBack \/ Refuse
        \/ Load \/ Mask \/ Compare \/ LookUp \/ Extend \/ DoIt \/ PassOver \/ GiveUp \/ RunOut
        \/ Decided

Spec == Init /\ [][Next]_vars

(***************************************************************************)
(* Properties                                                              *)
(***************************************************************************)
Said(answer) == \E i \in DOMAIN input.stmts : Says(input.stmts[i], input.pkt) = answer
Acts(d)      == d.d # "none" /\ (d.d = "xt" => d.name # "LOG")

(* The registers hold bytes, and an action is one the walk can be handed   *)
(* (match.go:20-26).                                                       *)
TypeOK ==
    /\ doc \in {"live", "stored", "read", "refused"} /\ schema \in Int
    /\ pc \in 1 .. Len(rule) + 1
    /\ DOMAIN m.regs \subseteq 0 .. 2
    /\ \A r \in DOMAIN m.regs : m.regs[r] \in Seq(0 .. 255)
    /\ m.out \in {"", "Match", "NoMatch", "Skipped", "Unknown", "Panic"}
    /\ m.act.kind \in VerdictKinds \union {"none", "reject", "dnat"}

(* A decided rule is decided as its author meant it (match.go:17-19, "a    *)
(* verdict is never built on a guess"): a match means that every statement *)
(* holds of the packet, a no-match that one does not, over every way the   *)
(* kernel may encode a statement and return a set.                         *)
DecisionsAreTheAuthors ==
    /\ m.out = "Match"   => ~Said("no") /\ ~Said("unknown")
    /\ m.out = "NoMatch" => Said("no")

(* The other direction: the matcher gives up only on a rule that has       *)
(* something it declares unreadable.  Refusing a subnet match or an        *)
(* ordinary set would leave every verdict below the rule unknown           *)
(* (match.go:54-62); the other such thing is a rewrite it does not follow, *)
(* of the source (nftconv.go:255-257) or of an old revision, or a target   *)
(* it has no reading of (match.go:745).                                    *)
Unfollowed(d) ==
    \/ d.d \in {"snat", "xt-dnat-0"}
    \/ d.d = "xt" /\ d.name \notin {"LOG", "REJECT", "MASQUERADE"}

UnknownHasACause == m.out \in {"Unknown", "Skipped"} => Said("unknown") \/ Unfollowed(input.does)

(* Skipping an unresolved match cannot change where the packet goes: the   *)
(* rule does nothing whichever way the match would have come out           *)
(* (match.go:233-245).                                                     *)
SkippingIsHarmless == m.out = "Skipped" => ~Acts(input.does)

(* A matching rule does what it says, to the address and the port it says; *)
(* registers the statements above loaded do not leak into its rewrite      *)
(* (match.go:512-541).                                                     *)
Written(d) ==
    CASE d.d = "none"    -> Nothing
      [] d.d = "verdict" -> Act(d.kind, d.chain, NoDNAT)
      [] d.d = "reject"  -> Act("reject", "", NoDNAT)
      [] d.d = "xt"      -> IF d.name = "LOG" THEN Nothing
                            ELSE Act(IF d.name = "REJECT" THEN "drop" ELSE "accept", "", NoDNAT)
      [] d.d \in {"dnat", "xt-dnat"} ->
           Act("dnat", "", [ip   |-> d.to,
                            port |-> IF d.port = 0 THEN input.pkt.dport ELSE d.port])

DoesWhatIsWritten == m.out = "Match" => m.act = Written(input.does)

(* A document says what this build would say of the host it came from      *)
(* (nftconv.go:392-394, "a document read back later resolves exactly as    *)
(* one collected now would"): whatever another build recorded, once a      *)
(* payload is kept its answer is this build's, where none is kept the      *)
(* recorded one stands, and a payload kept is the expression's own, among  *)
(* dropped and empty neighbours too (rulepayload.go:208-218).              *)
Answers(exprs) ==
    [i \in DOMAIN exprs |->
        CASE exprs[i].k = "xt"                      -> [exprs[i] EXCEPT !.raw = NoPayload]
          [] exprs[i].k \notin Objects \union Without -> Unknown
          [] OTHER                                  -> exprs[i]]

RereadAsCollected ==
    doc \in {"live", "read"} /\ pc = 1 =>
        /\ Answers(rule) = Answers(ConvertExprs(Kernel))
        /\ \A i \in DOMAIN rule :
              rule[i].k = "xt" /\ Legible(rule[i].raw)
                  => rule[i].raw = Received(Kernel)[i].info

(* A document that was accepted is evaluated and explained to the end:     *)
(* whatever was edited out of it, MatchRule finds the object of each       *)
(* expression it comes to, and RenderRule those of every expression of a   *)
(* rule on the path, read or not (validate.go:8-15, "must be an error      *)
(* naming where the problem is, not a panic").                             *)
NeverPanics ==
    /\ m.out # "Panic"
    /\ m.out \in {"Match", "Skipped", "Unknown"} => \A i \in DOMAIN rule : ~Missing(rule[i])

(* What --explain says of a rule agrees with what the walk made of it: the *)
(* last action on the line is the action taken, with the address and port  *)
(* two readings of the registers must both find, and where the matcher     *)
(* gave up on an expression nothing is known of, the line names it         *)
(* (render.go:66-69, "Never omit an expression whyopen could not decode",  *)
(* for the expressions of which nothing was decoded).                      *)
TargetDoes(name) == CASE name = "REJECT" -> "drop" [] name = "MASQUERADE" -> "accept" [] OTHER -> "none"

ShowsTheAct(part) ==
    CASE part.p = "verdict" -> m.act = Act(part.kind, part.chain, NoDNAT)
      [] part.p = "target"  -> m.act.kind = TargetDoes(part.name)
      [] part.p = "dnat"    ->
           /\ m.act.kind = "dnat" /\ m.act.dnat.ip = part.to
           /\ m.act.dnat.port = IF part.port = <<>> THEN input.pkt.dport ELSE part.port[1]

ExplainAgrees ==
    LET doing == SelectSeq(RenderRule(rule), LAMBDA x : x.p \in {"verdict", "target", "dnat"})
        last  == rule[pc - 1]
    IN  /\ m.out = "Match" => IF doing = <<>> THEN m.act = Nothing ELSE ShowsTheAct(Last(doing))
        /\ m.out = "Unknown" /\ last.k = "unknown" => UnresolvedPart \in Range(RenderRule(rule))
        /\ m.out = "Unknown" /\ last.k = "xt" /\ last.arg = [none |-> 0] =>
                 \E x \in Range(RenderRule(rule)) : x.p \in {"undecoded", "target"} /\ x.name = last.name

(* A rewrite without a port keeps the port the packet arrived on           *)
(* (forwards.go:301-303), whichever of the two ways it is written.         *)
NoPortKeepsThePort ==
    m.out = "Match" /\ input.does.d \in {"dnat", "xt-dnat"} /\ input.does.port = 0
        => m.act.dnat.port = input.pkt.dport
=============================================================================
