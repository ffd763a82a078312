-------------------------------- MODULE Check --------------------------------
(***************************************************************************)
(* `whyopen check`, from the verdicts to the exit code:                    *)
(* src/cmd/whyopen (main.go runPolicy and runCheck, probe.go), internal/   *)
(* probe (remote.go, reconcile.go) and internal/policy (check.go, init.go).*)
(*                                                                         *)
(* With -probe-from the verdicts are first corrected by another machine:   *)
(* per family one address of this host is probed over ssh, by the pool of  *)
(* Probe.tla running there, and the answers overwrite what was modelled.   *)
(* The policy then judges the corrected verdicts.  It comes from a file:   *)
(* one somebody wrote, or one `whyopen policy init` generated from this    *)
(* host and may not have got to the end of.                                *)
(***************************************************************************)
EXTENDS Probe, PolicyFile, Report

CONSTANTS
    Requests,   \* [host, probeFrom, file]: one invocation
    Networks,   \* what is open on this host, seen from the other machine
    Explained   \* the ports asked about with -explain, 0 for none

\* host: [addresses, verdicts, readFailed, notes]
\*   addresses   sequence of [ip, family, up, global], as the facts list them
\*   verdicts    sequence of [port, proto, family, at, result], Evaluate's
\*               answer; `at` is the set of addresses the endpoint is bound to
\*   notes       whether ForwardNotes named a rewrite without a port
\* file: NoFile without -policy, Generated for one policy init is to write, or
\* the lines of one that is there

Results == {"reachable", "filtered", "unknown"}

Verdicts == [port : Nat, proto : Protos, family : {"ip", "ip6"}, at : SUBSET STRING,
             result : Results]

\* Verdicts are what Evaluate returns, and an entry of a file is a port and a
\* protocol, whatever they are.
ASSUME RequestsAssumption == \A r \in Requests :
    /\ r.probeFrom \in BOOLEAN /\ r.host.readFailed \in BOOLEAN /\ r.host.notes \in BOOLEAN
    /\ r.host.verdicts \in Seq(Verdicts)
    /\ \A l \in ToSet(r.file) : l.key = "allow" => l.value = Entry(l.value[1], l.value[2])

VARIABLES
    request, pc,
    file,            \* the policy file
    policy,          \* runCheck's policy
    verdicts,        \* runCheck's verdict set
    families,        \* probeThisHost: families still to probe
    probed,          \* probeThisHost: families probed
    disagreements,   \* <<port, family>> of each disagreement
    evidence,        \* history: <<family, port, state>> of every answer used
    printed,         \* what the process wrote to stdout
    exit             \* its exit code, Running before it ends

reading  == <<request, file, policy>>
probing  == <<verdicts, families, probed, disagreements, evidence>>
checking == <<reading, pc, probing, printed, exit>>
vars     == <<poolVars, checking>>

NoFile    == <<Line("none", "")>>
Generated == <<Line("generated", "")>>
Running == -1
Nothing == [rows |-> <<>>]
exitOK        == 0
exitViolation == 1
exitUnknown   == 2
exitError     == 3

host == request.host

(***************************************************************************)
(* internal/policy.                                                        *)
(***************************************************************************)
EntryOf(v) == <<v.port, v.proto>>
With(vs, result) == {v \in ToSet(vs) : v.result = result}

Violations(p, vs) == {v \in With(vs, "reachable") : EntryOf(v) \notin p.allow}
Unknown(vs)       == With(vs, "unknown")
Stale(p, vs) ==
    {e \in p.allow : \A v \in With(vs, "reachable") \union Unknown(vs) : EntryOf(v) # e}

\* A policy seeded from what is open over IPv4.
InitIPv4Only(vs) ==
    [allow |-> {EntryOf(v) : v \in {w \in With(vs, "reachable") : w.family = "ip"}},
     failOnUnknown |-> TRUE, given |-> TRUE]

\* policy.Init
InitPolicy(vs) ==
    [allow |-> {EntryOf(v) : v \in With(vs, "reachable")},
     failOnUnknown |-> TRUE, given |-> TRUE]

\* policy.Check
Judgement(p, vs) ==
    [violations |-> Violations(p, vs), stale |-> Stale(p, vs), unknown |-> Unknown(vs),
     unreadable |-> host.notes, failOnUnknown |-> p.failOnUnknown]

\* Only verdicts fail a policy that fails on unknowns.
ExitCodeOfVerdicts(readFailed, res) ==
    IF readFailed THEN exitError
    ELSE IF res = <<>> THEN exitOK
    ELSE IF res[1].violations # {} THEN exitViolation
    ELSE IF res[1].failOnUnknown /\ res[1].unknown # {} THEN exitUnknown ELSE exitOK

\* res: <<>> without a policy, else the judgement alone.
checkExitCode(readFailed, res) ==
    IF readFailed THEN exitError
    ELSE IF res = <<>> THEN exitOK
    ELSE IF res[1].violations # {} THEN exitViolation
    ELSE IF res[1].failOnUnknown /\ (res[1].unknown # {} \/ res[1].unreadable)
    THEN exitUnknown ELSE exitOK

(***************************************************************************)
(* internal/probe/reconcile.go.                                            *)
(***************************************************************************)
\* The port's answer, None when there is none or it is an error.
None == "none"

\* Every answer read as evidence, an error like a silence.
AnswerForAny(rs, port) ==
    IF \E i \in Slots : ports[i] = port
    THEN rs[CHOOSE i \in Slots : ports[i] = port] ELSE None

AnswerFor(rs, port) ==
    IF \E i \in Slots : ports[i] = port /\ rs[i] # "error"
    THEN rs[CHOOSE i \in Slots : ports[i] = port /\ rs[i] # "error"] ELSE None

\* The probe's own word put in the verdict.
MeantAsProbed(answer) == answer

Meant(answer) == IF answer = "open" THEN "reachable" ELSE "filtered"

Concerned(v, family, rs) ==
    v.proto = "tcp" /\ v.family = family /\ AnswerFor(rs, v.port) # None

Reconcile(vs, rs, family) ==
    [i \in DOMAIN vs |->
        IF Concerned(vs[i], family, rs)
        THEN [vs[i] EXCEPT !.result = Meant(AnswerFor(rs, vs[i].port))] ELSE vs[i]]

\* An overruled port is reported once, whichever family it was.
OverruledOnce(vs, rs, family) ==
    {<<v.port, family>> : v \in {w \in ToSet(vs) :
        /\ Concerned(w, family, rs)
        /\ w.result \notin {"unknown", Meant(AnswerFor(rs, w.port))}
        /\ \A d \in disagreements : d[1] # w.port}}

Overruled(vs, rs, family) ==
    {<<v.port, family>> : v \in {w \in ToSet(vs) :
        /\ Concerned(w, family, rs)
        /\ w.result \notin {"unknown", Meant(AnswerFor(rs, w.port))}}}

(***************************************************************************)
(* cmd/whyopen/probe.go.                                                   *)
(***************************************************************************)
IsGlobal(a, family) == a.up /\ a.global /\ a.family = family
HasGlobal(family)   == \E a \in ToSet(host.addresses) : IsGlobal(a, family)
globalAddr(family)  ==
    LET is == {i \in DOMAIN host.addresses : IsGlobal(host.addresses[i], family)}
    IN  host.addresses[CHOOSE i \in is : \A j \in is : i <= j].ip

\* ParsePorts on the other machine sorts what tcpPorts lists.
tcpPorts(vs, family) ==
    Ascending({v.port : v \in {w \in ToSet(vs) : w.proto = "tcp" /\ w.family = family}}, <)

(***************************************************************************)
(* runCheck and probeThisHost, step by step.                               *)
(***************************************************************************)
Init ==
    /\ request \in Requests /\ network \in Networks
    /\ file = request.file /\ policy = NoPolicy
    /\ pc = IF file = Generated THEN "init" ELSE "start"
    /\ verdicts = <<>>
    /\ families = <<"ip", "ip6">> /\ probed = 0
    /\ disagreements = {} /\ evidence = {}
    /\ printed = Nothing /\ exit = Running
    /\ NoPool("nowhere", <<>>)

Exit(code) == pc' = "ended" /\ exit' = code

\* runPolicy, another process before this one.  os.WriteFile writes in place:
\* a full disk or a kill leaves what there was time for.
Complete == Marshal(InitPolicy(host.verdicts),
                    {EntryOf(v) : v \in Unknown(host.verdicts)}, host.notes)

PolicyInit ==
    /\ pc = "init" /\ ~host.readFailed
    /\ file' \in {Complete} \union UNION {CutShort(Complete, n) : n \in 0..(Len(Complete) - 1)}
    /\ pc' = "start"
    /\ UNCHANGED <<poolVars, request, policy, probing, printed, exit>>

\* With an unreadable ruleset nothing is known to be reachable.
PolicyInitRefuses ==
    /\ pc = "init" /\ host.readFailed
    /\ Exit(exitError)
    /\ UNCHANGED <<poolVars, reading, probing, printed>>

\* The facts cannot be loaded, or the file is there already or cannot be made.
PolicyInitFails ==
    /\ pc = "init"
    /\ Exit(exitError)
    /\ UNCHANGED <<poolVars, reading, probing, printed>>

LoadPolicy ==
    /\ pc = "start"
    /\ \/ file = NoFile /\ UNCHANGED policy
       \/ file # NoFile /\ Load(file) # Refused /\ policy' = Load(file)
    /\ pc' = "load"
    /\ UNCHANGED <<poolVars, request, file, probing, printed, exit>>

\* What Load does not understand stops the run.
PolicyRefused ==
    /\ pc = "start" /\ file # NoFile /\ Load(file) = Refused
    /\ Exit(exitError)
    /\ UNCHANGED <<poolVars, reading, probing, printed>>

\* loadFacts, which may refuse, then Evaluate.
LoadFacts ==
    /\ pc = "load"
    /\ verdicts' = host.verdicts
    /\ pc' = IF request.probeFrom THEN "families" ELSE "policy"
    /\ UNCHANGED <<poolVars, reading, families, probed, disagreements, evidence, printed, exit>>

LoadFails ==
    /\ pc = "load"
    /\ Exit(exitError)
    /\ UNCHANGED <<poolVars, reading, probing, printed>>

Family == Head(families)
Probeable == HasGlobal(Family) /\ tcpPorts(verdicts, Family) # <<>>

SkipFamily ==
    /\ pc = "families" /\ families # <<>> /\ ~Probeable
    /\ families' = Tail(families)
    /\ UNCHANGED <<poolVars, reading, pc, verdicts, probed, disagreements, evidence, printed, exit>>

\* Remote: ssh starts `whyopen probe` there.
StartRemote ==
    /\ pc = "families" /\ families # <<>> /\ Probeable
    /\ Len(tcpPorts(verdicts, Family)) <= MaxPorts
    /\ StartPool(globalAddr(Family), tcpPorts(verdicts, Family))
    /\ pc' = "remote"
    /\ UNCHANGED <<network, reading, probing, printed, exit>>

\* ssh fails, at any moment, or what it wrote back is not a document this
\* build reads.
RemoteFails ==
    /\ \/ pc = "remote"
       \/ pc = "families" /\ families # <<>> /\ Probeable
    /\ Exit(exitError)
    /\ UNCHANGED <<poolVars, reading, probing, printed>>

\* ParsePorts on the other machine refuses more than MaxPorts.
RemoteRefuses ==
    /\ pc = "families" /\ families # <<>> /\ Probeable
    /\ Len(tcpPorts(verdicts, Family)) > MaxPorts
    /\ Exit(exitError)
    /\ UNCHANGED <<poolVars, reading, probing, printed>>

RemoteAnswers ==
    /\ pc = "remote" /\ Returned
    /\ verdicts' = Reconcile(verdicts, results, Family)
    /\ disagreements' = disagreements \union Overruled(verdicts, results, Family)
    /\ evidence' = evidence \union {<<Family, ports[i], results[i]>> : i \in Slots}
    /\ families' = Tail(families)
    /\ probed' = probed + 1
    /\ pc' = "families"
    /\ UNCHANGED <<poolVars, reading, printed, exit>>

AllProbed ==
    /\ pc = "families" /\ families = <<>> /\ probed > 0
    /\ pc' = "policy"
    /\ UNCHANGED <<poolVars, reading, probing, printed, exit>>

NothingToProbe ==
    /\ pc = "families" /\ families = <<>> /\ probed = 0
    /\ Exit(exitError)
    /\ UNCHANGED <<poolVars, reading, probing, printed>>

\* The policy judged on the verdicts as they were modelled.
JudgeTheModel ==
    LET res == IF policy.given THEN <<Judgement(policy, host.verdicts)>> ELSE <<>>
        dis == IF request.probeFrom THEN <<disagreements>> ELSE <<>>
    IN
    /\ pc = "policy"
    /\ Exit(checkExitCode(host.readFailed, res))
    /\ \E json \in BOOLEAN, explain \in Explained :
          printed' = Printed(json, explain, verdicts, host.notes, res, dis)
    /\ UNCHANGED <<poolVars, reading, probing>>

\* The whole verdict set is judged before anything is printed, whatever of it
\* is then shown.
Judge ==
    LET res == IF policy.given THEN <<Judgement(policy, verdicts)>> ELSE <<>>
        dis == IF request.probeFrom THEN <<disagreements>> ELSE <<>>
    IN
    /\ pc = "policy"
    /\ Exit(checkExitCode(host.readFailed, res))
    /\ \E json \in BOOLEAN, explain \in Explained :
          printed' = Printed(json, explain, verdicts, host.notes, res, dis)
    /\ UNCHANGED <<poolVars, reading, probing>>

\* -json: the document cannot be written.
WriteFails ==
    /\ pc = "policy"
    /\ Exit(exitError)
    /\ UNCHANGED <<poolVars, reading, probing, printed>>

\* The steps whyopen takes by itself, and the failures that may cut them short.
Progress ==
    \/ PolicyInit \/ PolicyInitRefuses \/ LoadPolicy \/ PolicyRefused \/ LoadFacts \/ SkipFamily \/ StartRemote \/ RemoteRefuses \/ RemoteAnswers
    \/ AllProbed \/ NothingToProbe \/ Judge

Failure == PolicyInitFails \/ LoadFails \/ RemoteFails \/ WriteFails

\* The other machine's process runs until it returns or ssh is gone.
RemoteStep ==
    /\ pc = "remote"
    /\ Receive \/ \E i \in Slots : Goroutine(i)
    /\ UNCHANGED checking

Next == Progress \/ Failure \/ RemoteStep

\* Every dial times out, and goroutines and processes are scheduled.  Failures
\* are never owed: a run does not end because ssh is bound to fail some day.
Spec == Init /\ [][Next]_vars /\ WF_vars(Progress) /\ WF_vars(RemoteStep)

-----------------------------------------------------------------------------
(***************************************************************************)
(* Properties.                                                             *)
(***************************************************************************)
Ended  == pc = "ended"
Judged == Ended /\ exit # exitError /\ policy.given
OpenPorts == {e[2] : e \in {x \in evidence : x[3] = "open"}}

\* The run's own state, and the pool's.
TypeOK ==
    /\ PoolTypeOK
    /\ request \in Requests /\ network \in Networks
    /\ pc \in {"init", "start", "load", "families", "remote", "policy", "ended"}
    /\ policy.allow \subseteq PortNumbers \X Protos
    /\ Len(verdicts) \in {0, Len(host.verdicts)}
    /\ \A v \in ToSet(verdicts) : v.result \in Results
    /\ families \in {<<"ip", "ip6">>, <<"ip6">>, <<>>} /\ probed + Len(families) <= 2
    /\ exit \in {Running, exitOK, exitViolation, exitUnknown, exitError}
    /\ Ended <=> exit # Running

\* Reconcile (reconcile.go:22-32): not finding out is not evidence.  Whatever
\* mix of answers and errors came back for the two families, a verdict that
\* differs from the modelled one does so because a probe of its own family
\* and port really heard something.
ErrorsAreNoEvidence ==
    \A i \in DOMAIN verdicts : verdicts[i] # host.verdicts[i] =>
        /\ verdicts[i].proto = "tcp"
        /\ \E e \in evidence :
              e[1] = verdicts[i].family /\ e[2] = verdicts[i].port /\ e[3] # "error"

\* README.md:253-254, "reality reaches the policy": a port one probe found open
\* is a violation unless the policy allows it, whatever the ruleset was read to
\* mean, whatever the other family answered and whatever else is unknown.
RealityReachesThePolicy ==
    Judged => \A port \in OpenPorts : <<port, "tcp">> \notin policy.allow => exit = exitViolation

\* checkExitCode (main.go:364-367): a green run under a policy that fails on
\* unknowns leaves nothing undecided, neither a port nor a rewrite no port could
\* be named for; and no policy makes an unreadable ruleset green.
GreenIsEarned ==
    Ended /\ exit = exitOK =>
        /\ ~host.readFailed
        /\ policy.given => Violations(policy, verdicts) = {}
        /\ policy.failOnUnknown => Unknown(verdicts) = {} /\ ~host.notes

\* Reconcile, Disagreement (reconcile.go:9-13): a verdict the model had decided
\* is never overruled without the reader being told, for that family.
OverrulesAreReported ==
    \A i \in DOMAIN verdicts :
        LET modelled == host.verdicts[i] IN
        modelled.result \notin {"unknown", verdicts[i].result}
            => <<modelled.port, modelled.family>> \in disagreements

\* policy.Init, Marshal and Load (init.go:11-15, 41-52): a policy generated from
\* a host passes that host, unknown only as far as the host itself is; nothing
\* in it is stale.  Cut off at any point on its way to the disk it is refused
\* or allows less, and never a port merely because it is unknown.
AdoptedPolicyFits ==
    request.file = Generated /\ policy.given =>
        /\ \A e \in policy.allow : \E v \in With(host.verdicts, "reachable") : EntryOf(v) = e
        /\ Judged /\ ~request.probeFrom /\ file = Complete =>
              /\ exit = IF Unknown(verdicts) # {} \/ host.notes THEN exitUnknown ELSE exitOK
              /\ Stale(policy, verdicts) = {}

\* What a reader of the output takes the run to have ended with.
ReadOff(block, form) ==
    IF form = "text"
    THEN IF block.violation # {} THEN exitViolation
         ELSE IF block.unknown # {} \/ block.blind THEN exitUnknown ELSE exitOK
    ELSE IF block.violations # {} THEN exitViolation
         ELSE IF block.failOnUnknown /\ (block.unknown # {} \/ block.unreadable)
              THEN exitUnknown ELSE exitOK

\* report.Policy (policy.go:11-13), "an exit code the policy produced is never
\* one the reader cannot see a reason for": text, -json and -explain alike say
\* why the run ended as it did, and a port named there has the same verdict in
\* the rows, unless -explain left the port out.
ExitIsExplained ==
    Judged =>
        LET block == printed.policy[1]
            named == IF printed.form = "text" THEN block.violation ELSE block.violations
        IN
        /\ exit = ReadOff(block, printed.form)
        /\ \A v \in named \union block.unknown :
              v \in ToSet(printed.rows) \/ \A r \in ToSet(printed.rows) : r.port # v.port

\* Run waits for one announcement per port and probeThisHost for Run: whatever
\* the dials answer, the check ends (probe.go:121-135).
Ends == <>Ended

\* evaluate_test.go:234-236: an endpoint on a secondary address must not be
\* reported filtered because a different address is listed first.
SecondaryAddressCounts ==
    Ended /\ exit # exitError => \A i \in DOMAIN verdicts :
        LET v == verdicts[i] IN
        /\ host.verdicts[i].result = "reachable"
        /\ v.proto = "tcp" /\ \E a \in v.at : <<a, v.port>> \in network
        => v.result # "filtered"

\* README.md:254-257: a probe that could not run at all is a tool error, never
\* a quiet fall back to the model.
NoQuietFallBack ==
    Ended /\ request.probeFrom /\ exit # exitError => \E e \in evidence : e[3] # "error"
=============================================================================
