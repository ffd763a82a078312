------------------------------- MODULE Report -------------------------------
(***************************************************************************)
(* What `whyopen check` prints besides rule paths: src/internal/report     *)
(* (table.go, policy.go, probe.go, json.go) and the choice between them in *)
(* runCheck.  Columns and wording are left out.                            *)
(*                                                                         *)
(* A judgement is policy.Result: [violations, stale, unknown, unreadable,  *)
(* failOnUnknown].                                                         *)
(***************************************************************************)
EXTENDS Lists

\* The worst first, otherwise in the order the verdicts came in: a stable sort
\* by reachable, unknown, filtered.
worstFirst(vs) ==
    LET Of(result) == Sublist(vs, {v \in ToSet(vs) : v.result = result}) IN
    Of("reachable") \o Of("unknown") \o Of("filtered")

\* --explain: both families of a port.
onPort(vs, port) == Sublist(vs, {v \in ToSet(vs) : v.port = port})

\* The text block listing verdicts only, as if every exit came from one.
PolicyOfVerdicts(res) ==
    [violation |-> res.violations, stale |-> res.stale,
     unknown |-> IF res.failOnUnknown THEN res.unknown ELSE {},
     blind   |-> FALSE]

\* The text block: what fails the run, and what is stale.  Without
\* fail_on_unknown the unknown and the unreadable change nothing.
Policy(res) ==
    [violation |-> res.violations, stale |-> res.stale,
     unknown |-> IF res.failOnUnknown THEN res.unknown ELSE {},
     blind   |-> res.failOnUnknown /\ res.unreadable]

\* The same in the document, which says which setting it was judged under.
jsonPolicy(res) == res

\* json: -json was given; explain: a port, 0 without -explain; judgement: <<>>
\* without -policy, else the judgement alone; probe: likewise the disagreements.
Printed(json, explain, vs, notes, judgement, probe) ==
    [form |-> IF json THEN "json" ELSE "text",
     rows |-> IF explain = 0 THEN worstFirst(vs)
              ELSE IF json THEN worstFirst(onPort(vs, explain)) ELSE onPort(vs, explain),
     warnings |-> notes /\ (json \/ explain = 0),
     policy |-> [i \in DOMAIN judgement |->
                    IF json THEN jsonPolicy(judgement[i]) ELSE Policy(judgement[i])],
     probe |-> probe]
=============================================================================
