# whyopen, specified

`whyopen` answers one question about a Linux host: which of its ports can the
internet reach, and which rule decides. It collects facts (sockets, addresses,
routes, containers, the nftables ruleset), evaluates the path of a packet from
the internet to each port through the ruleset, and reports each port as
*reachable*, *filtered* or *unknown*. A wrong "filtered" is an exposure nobody
looks at; a wrong "reachable" costs trust; "unknown" is what the program must say
whenever it cannot tell. Most properties here are forms of one sentence: **no
decided verdict rests on something that was not read, not decoded or not
followed.**

Paths such as `traverse.go:264` are under `src/internal/` or `src/cmd/`.

Contents: 1 inventory, 2 hazards, 3 modules, 4 runs and bounds, 5 fairness and deadlock,
6 proofs, 7 disagreements found, 8 assumptions and what is left out, 9 plan.

## 1. Inventory

| component | source | state it keeps | operations | what must be true of it |
|---|---|---|---|---|
| hook traversal | `model/traverse.go` | hits, current dnat, the call stack of chains | `Traverse`, `walkChain`, `baseChains` | one chain's unknown or drop decides the hook whatever called it; jump resumes and goto does not; it ends; accept only when every base chain accepted |
| rule matching | `model/match.go`, `packet.go` | netlink registers, the action found so far | `MatchRule`, `NATDestination`, set lookups | a decided rule is decided as its author wrote it; what it cannot read becomes Unknown, or Skipped when it could not matter |
| forwarded ports | `model/forwards.go` | constraints gathered along a path of calls | `ForwardedEndpoints`, `ForwardNotes` | every port some packet is rewritten at is a row or a note, once |
| evaluation | `model/evaluate.go` | none between rows | `Evaluate`, `Endpoints`, `evaluateEndpoint` | every exposure of a port is in some row; filtered only with proof; unreadable rules make everything unknown |
| ruleset collection | `collect/ruleset.go`, `chaindev.go`, `rulepayload.go` | family listing cache, warnings, ReadFailed | a dozen netlink calls, none atomic with another | nothing missing in silence; what was not touched is read exactly |
| nftables conversion | `collect/nftconv.go`, `rulepayload.go` | none | `ConvertExprs`, the decoders of xt payloads, `attachXtPayloads`, `Redecode` | an expression not fully read stays unknown; a payload stays with its own expression; a document read back says what this build would say |
| snapshot | `collect/collect.go`, `host.go`, `sockets.go`, `routes.go`, `docker.go` | what is read so far, warnings | `All` and the collectors, one after the other on a host that does not stand still | what was there throughout and is not in the document is named by a warning |
| facts document | `facts/` | the document | `SupportedSchema`, `Validate`, storing, reading back | a document that is accepted is evaluated and explained to the end, whoever edited it |
| probe | `probe/` | result slots, a semaphore, a channel | `Run`, `Remote`, `Reconcile` | every port answered once; an error is not evidence; `Run` returns |
| policy | `policy/` | the file on the disk | `Init`, `Marshal`, `Load`, `Check` | a generated policy passes its own run, and a cut one allows no more |
| check command | `cmd/whyopen/main.go`, `probe.go` | exit code | `runPolicy`, `runCheck`, `probeThisHost` | reality reaches the policy; green is earned |
| report | `report/` | the registers of `RenderRule`'s own reading | tables, JSON, policy block, `--explain` | the exit code can be read off the output; a rule's line agrees with what the walk did |

How they interact. Everything is a chain of calls in one process: `collect.All`
fills a `facts.Facts`, perhaps stored and read back later by another build; `Evaluate` lists endpoints (asking `forwards.go` for the
ports the ruleset rewrites), sends a packet for each through `Traverse` at
prerouting and then at input or forward; `Traverse` asks `MatchRule` about each
rule; `check` may overwrite verdicts with what another machine heard
(`probeThisHost` → `probe.Remote` over ssh → `probe.Run` there → `Reconcile`
here) and hands them to `policy.Check`, whose result is the exit code and, with the
verdicts, what `report` prints. There are four sources of concurrency and failure: the
host changes while it is read (Docker does this to the ruleset, the sockets and the containers),
the goroutines of a probe, ssh, and files: a facts document another build or an
editor wrote, a policy that was cut off on its way to the disk.

Otherwise the difficulty is sequential: a call stack in which goto, jump, return,
limit and unknown interact; registers carried between expressions; rows keyed
one way in one function and another way in the next.

## 2. Hazards

`PROJECT.json` lists forty with their lines and the properties that catch them. In
groups: *protocol* (goto under jump, registers, constraints carried along
jumps, a document decoded again over an earlier answer), *partial failure* (one
unresolved rule, one refused netlink call, a collector that gives up early, one failing family of
a probe, half a policy file), *stale state* (tables found again by name, a remembered
listing, one address' answer used for another), *interleaving* (the host and its
some thirty reads, the goroutines of the pool), *two readings of one thing* (the rule's line
and its walk, the report and the exit code, payloads paired with expressions by position),
*boundaries* (interval sets, port 0, the nesting limit, MaxPorts).

Seven have no property, each with its reason: rate limits passed over in both
directions (`match.go:215`), the repeated scan of shared chains
(`forwards.go:129`), a chain whose header and rules are read on either side of a
replacement (`ruleset.go:118`), devices attached by name to a chain that was
deleted and created again (`ruleset.go:122`), a device's forwarding taken to be off in silence
(`host.go:88`), expressions the library drops (`nftconv.go:205`), and a cut policy
that no longer fails on unknowns (`init.go:90`). For each a check could not
call the code wrong without inventing a promise for it.

## 3. Modules

```
Ruleset ── Traverse ── MCTraverse            Convert ── Statements ─┬─ Matching ── MCMatching
   │          │                                 │   Render, Document ┘
   └─ HookSpec (implemented by Traverse)     Expressions      Forwards ── MCForwards (uses Statements)

Evaluate ── MCEvaluate       Collect ── All ── MCCollect     Probe, PolicyFile, Report ── Check ── MCCheck

Lists (used by the above)    ListProofs (used by the proofs)
Traverse, HookSpec ── TraverseProofs         Statements ── StatementProofs ── MatchingProofs
Evaluate ── EvaluateProofs                   Forwards ── ForwardsProofs
All ── CollectProofs                         Check ── CheckProofs
```

**Ruleset** – tables, chains, base chains and their order, lookups by name, as
operators. A rule is opaque (`Rule`, `MatchRule` are constants), so everything
said about a traversal holds for any rule language.

**Traverse** – one call of `Traverse`, one action per branch of `walkChain`.
`stack` is the Go call stack: one frame per active `walkChain`, with the chain,
the index of the next rule, and whether it was entered as a base chain, by jump or
by goto. `ret` is the result a frame has just returned and its caller has not yet
looked at; `left` the base chains not yet entered; `hits`, `dnat`, `result` the walker's
fields and answer.

**HookSpec** – what a hook promises, without a call stack that nests gotos:
`pos` is the position in a flat list of rules, `nest` the places jumps come back to.
A goto replaces `pos` and leaves `nest` alone, which is how the kernel does it.
Traverse keeps the goto's caller on its stack and unwinds it later; that these are
the same is `ImplementsHookSpec`. The refinement mapping keeps the frames
from the innermost non-goto one on, and reads the effect of a pending `ret`.

**Expressions** – registers and `MatchRule`, expression kind by expression kind,
on bytes: payload windows, masks, compares in network order, interval sets
with exclusive ends, ct/fib/meta, the xt matches and targets, nat.
**Statements** – what an administrator writes ("tcp dport != 80", "from
198.51.100.0/22", "in set s", "recent"), how nft or iptables compiles it to those
expressions (external code), and what it *says* of a packet: yes, no or "unknown". `Statement`,
`Deed` and `Packet` are everything that can be written, done and asked: any port, prefix,
interface name, set of flags. A set says what ranges were written in it, apart from the elements in which the
kernel returns it.
**Convert** – `convertExpr` and its decoders, over the expressions as the netlink
library returns them: what becomes unknown, what is passed over, what is decoded in
full and what in part; the payloads whyopen dumps by itself, paired with
xt expressions by position past those the library dropped; `Redecode`. An xt payload is
the record of what the library reads in it, which also stands for its bytes, since
both read the same bytes the same way; `recent`, which whyopen reads by itself, is decoded from
the bytes' fields.
**Render** – `RenderRule`, the second reading of a rule, with its own registers.
**Document** – what `loadFacts` accepts: the schema version, `Validate`.
**Matching** – a rule from the kernel to a decision. It is collected, with its payloads dumped
or not; perhaps stored, by this build, by one with fewer or wrong
decoders, by a later one with kinds unknown here, or under another schema version; perhaps
damaged by an editor, which leaves the kind of an expression and loses its object; read back (`ReadBack`)
or refused (`Refuse`); then `MatchRule` runs, one expression per step. The
result is compared with `Says`, a reference the decoders know nothing of, and with
the line `--explain` shows.

**Forwards** – `ForwardedEndpoints` scans prerouting chains without a packet,
carrying constraints (proto, ports) along jumps and gotos. It uses the expressions
and compiled rules above. The properties compare its rows with the packets
the ruleset really rewrites, found by walking each packet with `MatchRule`.

**Evaluate** – endpoints, their merging, dual-stack families, public addresses and
the judging of each row: prerouting, then locally delivered or forwarded. What a
hook answers (`HookResult`, Traverse's result) and which ports are rewritten
(`Forwarded`, Forwards' rows) are constants: it composes with the other modules
through their interfaces, so the runs can give it any answers.

**Collect** – one read of the ruleset, one action per netlink call, interleaved
with `Host` actions: nft transactions that add, write, delete or reload objects. An
object's content is the number of the transaction that wrote it, so "which
version of this chain did the read record" is a comparison of numbers. Every call
may fail. `had` and `refused` are history variables, used by properties only.
**All** – `collect.All`: the hostname, sysctls, routes, interfaces, sockets, their owners, the
legacy backends, the ruleset read of Collect, Docker, in the code's order. `Things` are
what the host has: toggles, devices, sockets, processes, legacy tables, containers; any of
them may go or come between two reads, and any read may fail. `stayed` is the history
variable: the things there since the read began.

**Probe** – the goroutine pool of `probe.Run`: semaphore, one slot per port,
announcement channel, the counting caller. **Check** EXTENDS it and composes it
with `probeThisHost`, `Reconcile`, `policy.Check` and `Init`, and `checkExitCode`:
the pool runs on the other machine, may be cut off by ssh at any point, and is
started once per address family. **PolicyFile** is whyopen.yaml as lines: what `Marshal`
writes, what is left when writing stops anywhere, what `Load` refuses. In
Check a policy is a file somebody wrote, or one `policy init` wrote from the same host and
perhaps did not finish. **Report** is which rows, warnings and policy lines each output mode
shows: `Judge` prints and exits in one step, in text or JSON, with or without `--explain`.

**Lists** – sorting and filtering by definitions that a proof can unfold; **ListProofs** is
what is proved of them, and of ranges and windows of sequences in general. The other `...Proofs`
modules hold the theorems of section 6.

The definitions before a module's properties model code, and `map` in `PROJECT.json` gives each its lines. A few definitions beside a modelled one
(`UnknownSwallowed` beside `AfterCall`, `Advanced`/`NotAdvanced`,
`GoroutineAnnouncesFirst` beside `Goroutine`, ...) are its *broken forms*: a plausible bug in that place,
kept so that each property is known to notice one. No specification uses them.

## 4. Runs and bounds

| run | distinct states | what is enumerated |
|---|---|---|
| `traverse` | 465k | every ruleset of two shapes: a base chain with two regular chains that may call each other in a loop, with up to two rules each from 8 kinds; two base chains of different families on one hook, with sets and an ingress chain |
| `matching` | 1.04M | a hundred statements, native and iptables, 8 packets on both sides of each boundary, 14 things to do: each statement with all of them, those of iptables, which do not read the port, on port 256; pairs of statements as said below; payloads dumped or not; the document stored by five kinds of build, damaged at any one expression, or under another schema version |
| `forwards` | 95k | jump/goto chains of constraints, tables of every family, targets of IPv4, IPv6 and IPv4 in IPv6 form, protocols read from the header, a rewrite met twice |
| `evaluate` | 63k | every mix of sockets and publishes of a port on a host with two public interfaces and a LAN, and every ruleset for a few |
| `collect` | 2.5M | two tables, two chains and a set of one family and an arp table, one thing of every other kind; up to two transactions, departures or failures outside the ruleset read, anywhere; any ruleset calls refused |
| `check` | 805k | every mix of three verdicts at two IPv4 addresses and an IPv6 one, policies written by hand (right, wrong, of another version), generated, and generated and cut at every point; four networks, any dial or ssh failure; text and JSON, a port explained or not |

What each shows.

* `traverse`: a hit whose rule, matched again, drops the packet or cannot be resolved decides the
  hook, with that answer, whatever chains are around it (`DecidingHitDecides`), accept means each base chain of the hook
  was asked, and in priority order (`AcceptAccountsForEveryBase`,
  `HitsInPriorityOrder`), the code's unreachable branch is (`NothingEscapes`), a
  goto's callers are never resumed, neither while its chain runs nor after it has returned: a frame with a goto above it,
  or whose call was left through one, stays as it is until it leaves the stack (`GotoNeverResumes`), a walk stays in its table
  when no two tables share a name (`UniqueNamesKeepTable`), it ends (`Terminates`), and
  the whole walk implements HookSpec (`ImplementsHookSpec`).
* `matching`: a decided rule agrees with what its author wrote
  (`DecisionsAreTheAuthors`), Unknown and Skipped have a cause in the rule
  (`UnknownHasACause`), a skipped rule did nothing to a packet
  (`SkippingIsHarmless`), and the action found is the one written (`DoesWhatIsWritten`).
  Whatever build stored the document, what is read back says what this build would have collected, and each
  payload is its own expression's (`RereadAsCollected`); the line shown by `--explain`
  names the action taken, its address and its port, and the expression nothing was read of
  (`ExplainAgrees`); a damaged document is refused before anything that is gone would
  be dereferenced, by the walk or by the line (`NeverPanics`).
* `forwards`: a port that some packet is rewritten at has a row, or a note says that the scan
  could not name the port (`NoForwardIsSilent`), and one row (`OneRowPerPort`). The row is of the packet's family, or
  of IPv4 where an inet table rewrites to an IPv4 address in IPv6 form, which `forwards.go:401` counts as IPv4
  whatever packets the rule meets.
* `evaluate`: `BlindIsUnknown`; a socket reachable along a path of the ruleset
  has a row that says at least so (`SocketExposureIsReported`), unless it is an IPv6 socket bound to an IPv4
  address, of which it is false (section 7); filtered means that
  every address of the row's family was found closed (`FilteredIsProven`); no row is left
  out (`EveryRowIsJudged`). The reference for these is `Fate`, which follows a
  packet of each address on its own, without rows or merging.
* `collect`: an object there for the whole read and not in the document is
  accounted for by ReadFailed and a warning that names it
  (`NothingMissingSilently`); one nobody touched is recorded as it is
  (`UntouchedIsExact`); ReadFailed exactly when a ruleset call was refused
  (`BlindOnlyWhenRefused`, `EveryRefusalBlinds`); and of the whole snapshot, what was there
  throughout and is missing is named by a warning (`AbsenceIsTold`), a device's own forwarding
  and the routes excepted, which the code leaves out in silence by decision.
* `check`: the pool returns only with every slot written (`ResultsComplete`), a
  verdict changes only on evidence of its own family and port
  (`ErrorsAreNoEvidence`), an open port fails the policy that does not allow it
  (`RealityReachesThePolicy`), exit 0 is earned (`GreenIsEarned`), each overruled verdict
  is reported (`OverrulesAreReported`); a generated policy passes the run it was generated from, and cut off
  anywhere it is refused or allows only ports found reachable (`AdoptedPolicyFits`); the exit code
  can be read off what was printed, in every mode (`ExitIsExplained`); the check ends (`Ends`).

The six violation runs are section 7.

Bounds, and why they suffice for what is asked:

* `MaxJumpDepth` is 2 in the runs, 32 in the code. The limit is one comparison, reached and
  passed by the looping chains of `MCTraverse`; three levels of stack contain
  every ordered pair of jump and goto. The proofs are for every value.
* Chains hold at most two rules: what a rule does to the walk depends on the rule
  and on there being one after it.
* `MaxTx = 2` and `MaxEvents = 2`: two transactions during a read delete a part and create it
  again, or change two parts on either side of a call; the same two events may instead be
  things that go or reads outside the ruleset that fail, so two collectors fail in one run, or one
  fails while a thing goes. Refused ruleset calls and things that come are not
  bounded. More events repeat these; the proved theorems need no bound. The host starts
  with its whole ruleset, its tables alone, or none.
* One thing of each kind in the snapshot: what is told of one socket does not depend on
  another of its kind, except the owner of two sockets, which the proof covers.
* One expression is damaged per document: `Validate` looks at each by itself and the walk stops at the first.
* `Concurrency = 1` (16 in the code) with two ports: one goroutine holds the
  semaphore and another waits. `MaxPorts = 2` (4096 in the code) so that one host has more ports.
* Pairs of statements: one of the port with any other, on every packet and with three things to do, and
  for three port statements on port 256 with all of them; two others, on port 256; two of iptables, or
  that the library drops, with three things to do. What a second statement meets is the registers and the outcome left by
  the first, and the theorems hold for any number of statements.
* Two address families, two addresses of one of them, three verdicts: what
  Reconcile and the policy distinguish.
* Bytes are whole bytes and ports are 80, 255, 256, 257, 300, 301, chosen around
  the carry of the first byte and the ends of the intervals.

No run uses symmetry; nothing else is constrained.

## 5. Fairness and deadlock

`Traverse` and `Evaluate` assume weak fairness of the call's next step: a sequential
function that is scheduled goes on. `Check` assumes it of the steps whyopen
takes by itself and of the pool on the other machine: every dial has a timeout
(`Options.Timeout`), so a dial ends; a goroutine ready to run, or blocked on a
semaphore another will release, is scheduled. No fairness is assumed of a
failure: `LoadFails`, `RemoteFails`, `WriteFails` may always be avoided, so `Ends`
does not rest on ssh giving up. `probe.Remote` itself sets no deadline on ssh
(a hung ssh hangs the check): the fairness of the remote pool stands for a connection that works or fails.

Finished walks of Traverse, Matching, Forwards and Evaluate have an explicit
stuttering action (`Returned`, `Decided`, `Done`), so TLC's deadlock check is on and means that no
other state is stuck. Collect and Check say `CHECK_DEADLOCK FALSE` because the
process ends there; in Check, `Ends` shows that no other state is stuck.

## 6. Proofs

Theorems checked by TLAPS, for all values of the constants: any ruleset and rule language, any
host, any number of ports, goroutines, tables, transactions and failures.

| theorem | property of the runs it states |
|---|---|
| `TraverseProofs!TypeCorrect` | `TypeOK`, with the jump-depth bound |
| `TraverseProofs!BaseChainsAlwaysDecide` | `NothingEscapes` |
| `TraverseProofs!DecidingRuleDecides` | `DecidingHitDecides` |
| `TraverseProofs!GotoNeverReturns` | `GotoNeverResumes`, an action property |
| `TraverseProofs!JumpsStayInTheirTable` | `UniqueNamesKeepTable` |
| `TraverseProofs!WalkIsTheHook` | `ImplementsHookSpec`: the walk refines HookSpec |
| `TraverseProofs!PrioritiesOrderTheTrace` | `HitsInPriorityOrder` |
| `TraverseProofs!AcceptIsAccountedFor` | `AcceptAccountsForEveryBase` |
| `MatchingProofs!DecidedAsWritten` | `DecisionsAreTheAuthors`: no verdict is built on a guess |
| `MatchingProofs!GivesUpForACause` | `UnknownHasACause` |
| `MatchingProofs!DoneAsWritten` | `DoesWhatIsWritten`, but for iptables rewrites that name no port |
| `MatchingProofs!RegistersHoldBytes` | `TypeOK` |
| `StatementProofs!StatementsAdvance`, `DeedsAreDone` | (each expression of a statement, or of what a rule does, takes `MatchRule` one further into it or decides it as it was meant) |
| `MatchingProofs!AcceptedIsComplete` | `NeverPanics` |
| `MatchingProofs!SkippedDoesNothing` | `SkippingIsHarmless` |
| `MatchingProofs!DocumentSpeaksForTheHost` | `RereadAsCollected` |
| `ForwardsProofs!Types` | `TypeOK` |
| `ForwardsProofs!PortsHaveOneRow` | `OneRowPerPort` |
| `ForwardsProofs!ForwardsAreNeverSilent` | `NoForwardIsSilent`, for targets of any form |
| `EvaluateProofs!Types` | `TypeOK` |
| `EvaluateProofs!UnreadSaysNothing` | `BlindIsUnknown` |
| `EvaluateProofs!ExposureIsNotLost` | `SocketExposureIsReported`, of sockets not bound to an IPv4 address in IPv6 form |
| `EvaluateProofs!FilteredMeansFiltered` | `FilteredIsProven` |
| `EvaluateProofs!OneVerdictPerRow` | (safety half of `EveryRowIsJudged`: when the evaluation ends each row has one verdict) |
| `CollectProofs!ReadTypes` | `TypeOK` |
| `CollectProofs!RefusalsBlind`, `BlindnessHasACause` | `EveryRefusalBlinds`, `BlindOnlyWhenRefused` |
| `CollectProofs!NothingIsLostSilently`, `UntouchedIsAsItWas` | `NothingMissingSilently`, `UntouchedIsExact` |
| `CollectProofs!SnapshotTells` | `AbsenceIsTold`, of the whole snapshot (`AllSpec`) |
| `CollectProofs!SnapshotBlindness`, `SnapshotLosesNothing` | the four properties of the ruleset read, within a snapshot |
| `CheckProofs!Types` | `TypeOK` |
| `CheckProofs!PoolIsComplete` | `ResultsComplete` |
| `CheckProofs!SilenceChangesNothing` | `ErrorsAreNoEvidence` |
| `CheckProofs!OverrulesAreTold` | `OverrulesAreReported` |
| `CheckProofs!RealityIsJudged` | `RealityReachesThePolicy` |
| `CheckProofs!GreenIsSafe` | `GreenIsEarned` |
| `CheckProofs!AdoptionIsSafe` | `AdoptedPolicyFits` |
| `CheckProofs!OutputExplainsTheExit` | `ExitIsExplained` |

### Assumptions

Each is named where its constants are declared and evaluated by TLC in the runs.

* Traverse: the calls studied are well formed (`InputsType`), `MatchRule` returns an outcome and an
  action (`MatchRuleType`), the empty list is a value of Sets (`NoSetsType`), the nesting limit is a
  natural number. The two theorems of priority order also suppose `OnlyRegularChainsCalled`: no jump or goto
  of the ruleset leads to a base chain. The kernel refuses such a rule, a facts document that an
  editor wrote may hold one, and the properties are then false; so it is a hypothesis of those two
  theorems and not an assumption of the module.
* Collect: finite sets of objects, each of one table, of one kind only (`IdentitiesAssumption`). All: a
  listening socket is not also a process or a container (`KindsAssumption`).
* Forwards: rules are what nft and iptables-nft write (`RulesetsAssumption`), packets carry tcp or udp and an
  address of their family's length (`PacketsAssumption`). `FromKernel` names what the scan relies on and
  no line of it checks: a compare has an operand; a verdict or a rewrite is the last expression of its
  rule (the scan returns at the first, `forwards.go:206-228`, the walk goes on to the next); the protocol byte of
  an IPv4 header is loaded in an ip table or behind `meta nfproto ipv4` (`forwards.go:267` takes it for the protocol of
  any packet); the register of a rewrite's address was not loaded over since its immediate (the scan
  remembers the immediate, `forwards.go:203`). A document that an editor wrote may break each of these; the scan may then be
  silent about a port. Nothing is assumed of what the rules say, of how chains call each other, or of names.
* Evaluate: the fields of a socket or a publish are the four the model gives it, and a socket on `::` is an
  IPv6 socket (`SnapshotsAssumption`).
* Check: a request is typed, and each allow line of a policy file is of a port and a protocol
  (`RequestsAssumption`); a pool of at least one goroutine (`PoolAssumption`).
* Statements: the table's sets have names of their own, and their elements are in one of the forms in which a kernel returns
  sets of ports: plain keys, or a range as its first port and an end after its last, in any order, with or without an end
  below the first; or they are of a kind that `lookupMatch` refuses (`PortSetsAssumption`).
* Matching: a rule is made of the statements and actions whose compilation is modelled, and iptables'
  `socket`, which is a match, is not used as a target (`InputsAssumption`). What they say is something that can be
  written, the packet is a probe whyopen makes, and a statement of an IPv4 prefix meets IPv4 packets, since nft puts a protocol check
  before it elsewhere (`WrittenAssumption`). The order of statements, their number and their operands are free.

### Arguments

None of the properties is inductive. The strengthenings:

**Traverse.** `NothingEscapes` says that `Traverse` never sees a "none" or "unwind" from a
base chain. It follows from `StackShape`: the bottom frame, and only it, was entered as a base chain
and holds one; a frame above it was entered by jump or goto; and a result "none" or "unwind"
waits only on a chain that is not a base chain. A chain reached by jump may itself be a
base chain, which is why the last conjunct speaks of the chain and not of the way it
was entered. Each action is one case of `ShapeNext`, together with `TypeOK`.
`DecidingHitDecides` adds that no hit has decided while a chain still runs (`NoneDecided`).
`GotoNeverResumes` says what a step does to the frames that are dead before it, and that they are dead after it, so it
speaks of all their later steps too. `CallsInv` is what it needs: every frame under the innermost is in the middle of a call,
and "none" is only returned by a frame that is not. So a frame left through a goto, once it is the innermost, returns
something else, and whatever it returns to is dead in turn (`GotoStep`).
`UniqueNamesKeepTable` rests on `TableInv`: every base chain still to enter and every frame is within
the tables the walk can see, so under unique names the table a name leads to is the table
it came from (`OwnSets`).

**The refinement.** The mapping keeps the frames from the innermost one that is not a goto's, and reads
the effect of a pending `ret`. Which frame that is, the last one that is not a goto's, is met through lemmas on
how it changes when a frame is pushed, advanced or taken off. Init maps to Hook's Start (`InitMaps`); each of
Traverse's actions maps to a step of Hook or to a stutter (`StepsMap`, one case per action):
unwinding a goto is a stutter because the mapping had already forgotten the frame,
entering a chain by goto replaces the position, returning from a jump is Hook's return.

**Priority order.** `RootInv` keeps the base chains still to enter apart from the one entered; `OrderInv` adds
that every hit of a base chain so far is of no greater priority than the chain being
walked and than each of those to come. For `AcceptAccountsForEveryBase`, `AcceptInv` counts: the strict base chains
left behind are at most as many as the accepting hits, and one more is owed while a
base chain's acceptance is pending.

**Matching.** `PathInv` follows a rule through its document: while it is live or read back, and when it is stored
and would be validated, it is a `GoodRule`, each of whose expressions has the object its kind needs,
and one of which acts if the author's rule does. A machine that skips has met no acting expression,
so the author wrote no action. `FaithInv` relates the document to the kernel's
rule, expression by expression: collected as this build converts it (`AsCollected`), or going to be
after `Redecode` (`AsReread`). That payloads are paired with their own expressions is a fact about counting:
the k-th xt expression the library kept is the k-th of the kernel's that it can name
(`SublistCounts`, `NextKept` of ListProofs).

`SimInv` is the simulation of a rule as its author wrote it by `MatchRule` on what is left of it in a document. The kernel's rule
is laid out statement by statement (`Laid`: which expressions are whose, `Placed` in ListProofs), minus what the
library drops. While nothing is decided the machine is *standing* at some expression of some statement
(`Standing`): the statements before it hold, and its registers are those that the expressions of this one so far have filled (`Reading`, and
`Before` for what the rule does). `StatementsAdvance` and `DeedsAreDone` are the steps: a lemma for
each kind of statement and of deed runs its expressions one by one, so a register is loaded before it is compared within
the same statement, whatever an earlier one left in it. Under them are facts on data: comparing two bytes in order is comparing ports;
a mask of n bits, byte by byte, compares the first n bits; membership between the sorted elements of an interval set is
membership in its ranges (`IntervalMember`), in whichever order the kernel returned them; a set of flags as named by this
build is the set written. What a build could not decode is an expression that stops the machine with the outcome "Unknown" or
"Skipped", which is why each of these has a cause: a statement whose meaning is "unknown", or an action
not followed. `FaithInv` is what carries the argument to documents: once read back, each expression is as this build converts it
or undecoded.

**Forwards.** The scan has no packet, the walk has one; that the scan misses nothing is a simulation of each by the
other. `Follows` relates them after every expression of a rule: what is known of the packets is true of this one
(`Admits`: no protocol or its protocol; no ports, or its port among them, or the scan has given up), a register said to hold
the port or the protocol holds it, an immediate is in its register, and both end in one action. `StepFollows` has one case for
each kind of expression, `RuleFollows` is the induction over a rule. `ChainSpeaks` is the induction over jumps:
a chain the packet reaches in d jumps is one the scan reads d jumps down, knowing only what holds of the
packet; so a rule there that rewrites it emits the packet's port or a note. The family it emits is the one its target
stands for (`FamilyIsKept`): nothing is used of `Is4In6` but the length it asks for. The inductive invariant `SpokenInv` says so of every
chain the scan has left behind. One row per port needs that all rows of one emission have one target, since a row is
kept whole: `Emissions` says so, and `TypeInv` carries it along.

**Evaluate.** `IInv` says of the row under evaluation that each address it covers is still to try or has
already put its own fate, as the kernel would decide it without rows and
merging (`Judged`, from the reference `Fate`), among the results; a verdict that was picked is the best of them
(`Earned`). Exposure then needs that merging loses no socket: each is covered by a row of
its port and family, whichever endpoint stood for it first.

**Collect.** `EveryRefusalBlinds` is not inductive for one reason: a refused listing of a family's chains is remembered in
`cache` and blinds the document only when the table that asked for it is
processed. `CollectProofs!Inv` says: a refusal without ReadFailed is of a listing *and* the table
being read is about to use it (`Pending`). `ReadInv` adds what the read has seen: every content in the document, the cache and the
two dumps is one the object had since the read began (so it is exact for one that had
one), and a chain or set there throughout is read, told of, or still to come, in a later table
or in the part of this one that is not read yet (`StillToCome`).

**All.** `AllInv` says of every moment before the end, kind by kind: a thing that has stayed, is not in the document and
is not told of is still *ahead*, because its collector has not started or has it left to read. A change of the
host touches none of the parts but `stayed`, which only shrinks (`ChangesKeepAllInv`).
The theorems of the ruleset hold in a snapshot because a snapshot is a ruleset read that
stutters elsewhere (`SnapshotReadsTheRuleset`): AllSpec implements Spec.

**The pool.** `PoolInv`: announcements received plus those in the channel equal the goroutines that have
announced (`EachAnnouncedOnce`), each of which wrote its slot first. When the caller has counted one for each port, the goroutines
that have announced are all of them.

**Check.** `IInv` adds to the pool what `probeThisHost` has done so far: rows of the families still to probe are as modelled
(`AheadAsModelled`), an open answer of a family behind has its reachable row (`HeardBehind`), a policy that was loaded
from a file generated here allows no more than what was found reachable (`PolicyFromFile`), and what was printed is what the exit code was computed
from (`Outcome`). For `AdoptedPolicyFits` the file is followed as lines through `Marshal`, a cut anywhere, and `Load`.

Induction over lists (sorting, filtering, the recursion of a walk) is done on sets: the set of the lengths at which a statement holds contains 0 and
is closed under successor, so it is all of Nat. This needs no operator parameter.

### Only model-checked

* Liveness under fairness: `Terminates`, `EveryRowIsJudged`, `Ends`. TLAPS has no backend for ENABLED.
* Matching: `ExplainAgrees`, which compares `RenderRule`'s reading of a rule with the walk's, line by line. And
  `DoesWhatIsWritten` for an iptables rewrite without a port is neither proved nor checked, being false of the code: the run
  `no_port_rewrite` is its counterexample.

## 7. Disagreements between the code and what it says

| run | what TLC shows |
|---|---|
| `shared_table_name` | With `ip filter` and `inet filter` both present, a jump or set lookup in the second resolves in the first, against the comment at `traverse.go:205-209`. |
| `first_dnat` | With two base chains that rewrite on one hook, the last rewrite wins; `forwards.go:71-73` says the first. |
| `no_port_rewrite` | An iptables DNAT target without a port sends the packet on to port 0; `forwards.go:301-303` says zero keeps the port. |
| `kept_row` | A socket on loopback, or of the other family, keeps a forwarded port from having a row of its own, and its own evaluation never meets the rewrite: an exposed port is reported filtered, against `evaluate.go:123-131`. |
| `secondary_address` | `probeThisHost` probes the first address of a family and overwrites the verdicts of endpoints on others; an open port is reported filtered, against `evaluate_test.go:234-236`. |
| `quiet_fall_back` | If every dial errs, the check exits by the model alone; `README.md:254-257` says never quietly. |

Noticed, and not made a run because no document promises otherwise, or because the promise
is about wording:

* A tcp6 socket bound to a public IPv4 address, listed as `::ffff:a.b.c.d` (`sockets.go:108-126` keeps the form), has an
  IPv6 row alone, tried at IPv6 addresses alone (`evaluate.go:177`, `210`). Its port is open over IPv4 and its row says filtered,
  "bound to ..., which does not match any host address the internet can reach", or unknown on a host without IPv6:
  `bindCovers`, which would know (`evaluate.go:451`), is not asked. The exposure is stated nowhere, so
  `SocketExposureIsReported` and its theorem leave these sockets out; `FilteredIsProven` holds of the addresses of the
  row's family. Drop `~Mapped(x)` and let `Serves` say `{"ip"}` of these sockets, and TLC shows it in the first snapshot that has one.
* An inet table's rewrite to an IPv4 address in IPv6 form has a row of IPv4 (`forwards.go:401`), also for the IPv6 packets
  it rewrites. `NoForwardIsSilent` asks for the row the code means.
* Limits are passed over whether the rule accepts or drops (`match.go:215-218`).
* A socket on `::` beside an IPv4 endpoint that is not a 0.0.0.0 socket (a publish, one address) has
  a row for IPv4 too, so one exposure is reported twice (`evaluate.go:168-198`).
* `forwards.go:129` scans a chain again at every call of it, exponentially in the depth.
* With an unreadable ruleset and `-probe-from` the message says every verdict is
  unknown when the probe has just decided some (`main.go:370`).
* `RenderRule` drops the pending field after its first compare, so of the two
  bounds of `dport 1024-2048` the line shows one, and `opSymbol` shows `!=` only: an
  ordered compare reads as an equality. `maskedCmp` drops a `!=` before a subnet.
* `renderXt` leaves out inverts and source types and shows a partly decoded conntrack or addrtype as
  though it were read, though the comment at `render.go:66-69` asks that nothing undecoded be omitted;
  `ExplainAgrees` holds for the expressions nothing was decoded of. An expression
  of a later build's kind makes the rule unknown and is not on the line at all.
* `report/policy.go:48-54` says "see the warnings above", which text `--explain` does not print.
* A policy cut off on its way to the disk (written in place, `main.go:179`) loses its last line,
  `fail_on_unknown`: it loads, and later runs pass over what is unknown. Between the Stat
  of `main.go:175` and the write another process may create the file, which is then overwritten.
* Owners are looked up by inode after the sockets were listed (`sockets.go:53`): an inode used
  again in between names the wrong process.

## 8. Assumptions, and what is not modelled

* The kernel. Matching follows the code's reading of expressions, and the
  reference (`Says`) follows the nft and iptables manuals. A dump that a kernel
  returns is of one instant (the library retries interrupted dumps).
  `GetRules` for a chain that is gone fails (as the code's comment
  at `ruleset.go:128` has it): a kernel that answered with an empty dump would
  make a silent gap, which the model then does not show.
* A `docker-proxy` socket serves its own family.
* Interval elements with equal keys: `slices.SortFunc` is not stable in general;
  the model keeps them in the order given, as its insertion sort does for the
  short sets of the runs.
* A payload belongs to a rule by its handle; a table deleted and created again may reuse
  handles, which is not modelled.
* Parsers: the lines of `/proc/net`, cgroup paths, `ip route` output, Docker's JSON, netlink attributes,
  facts JSON, YAML's syntax, flags, `ParsePorts`' syntax (its limit is modelled), the quoting
  checks of `probe.Remote`. Text in, records out, no state; their mistakes are within reach of unit tests.
* The byte layouts of xt structures the netlink library decodes: a payload is the record of its fields.
* Reasons, wording, columns, the JSON field names, the spelling of values on a rule's line.
* The `collect`, `probe` and `version` commands as such: each is a call of a modelled
  component and a write. `runCollect` is `Store` of Matching.
* In All, a socket whose process is gone or a container without a socket
  is in the document as it was read: which pairs a document can hold is not restricted by
  the code, and no property says it should be.

## 9. Plan

Done in this order: Ruleset, Traverse, HookSpec and its refinement; Expressions, Statements,
Matching; Forwards; Evaluate; Collect; Probe and Check; the first proofs of Traverse and Collect;
then All with its proof, Convert and Render, PolicyFile and Report, Document; then the proofs of
the refinement, of priority order, of a ruleset read, of Check with its pool, of Evaluate, of
Matching's path, of Forwards, and last of Matching's decisions, with the statements they rest on.

Left to model: a work counter in Forwards for the re-scan of shared chains; `ParsePorts`.

Left to prove: `ExplainAgrees`, by a simulation like `SimInv` with the registers of `RenderRule`
beside those of `MatchRule`.
