-------------------------------- MODULE Probe --------------------------------
(***************************************************************************)
(* `whyopen probe`: src/internal/probe/probe.go, Run.  One goroutine per   *)
(* port, at most Concurrency of them dialling at a time, each writing its  *)
(* own slot of `results` and then announcing itself on a channel with room *)
(* for all of them; the caller waits for as many announcements as ports.   *)
(*                                                                         *)
(* A pool is started with StartPool and belongs to a process that may be   *)
(* killed: the module that starts it decides when (Check.tla).             *)
(***************************************************************************)
EXTENDS Integers, FiniteSets, Sequences

CONSTANTS Concurrency,  \* Options.Concurrency, the semaphore's capacity
          MaxPorts      \* maxPorts, what ParsePorts accepts in one run

ASSUME PoolAssumption == Concurrency \in Nat \ {0} /\ MaxPorts \in Nat

VARIABLES
    network,    \* the <<address, port>> pairs that complete a handshake
    target,     \* Options.Target
    ports,      \* Options.Ports
    worker,     \* where each goroutine stands
    results,    \* what each goroutine wrote, Unwritten until it did
    done,       \* announcements in the buffered channel
    received    \* announcements the caller has taken

pool     == <<target, ports, worker, results, done, received>>
poolVars == <<network, pool>>

Unwritten == "unwritten"
States    == {"open", "closed", "filtered", "error"}
Stations  == {"started", "dialling", "answered", "announced", "gone"}
Slots     == DOMAIN ports

NoPool(t, ps) ==
    /\ target = t /\ ports = ps
    /\ worker = <<>> /\ results = <<>> /\ done = 0 /\ received = 0

StartPool(t, ps) ==
    /\ target' = t /\ ports' = ps
    /\ worker'  = [i \in DOMAIN ps |-> "started"]
    /\ results' = [i \in DOMAIN ps |-> Unwritten]
    /\ done' = 0 /\ received' = 0

\* probeOne: what a dial can come back with.  An error, no route or no local
\* resources, says nothing about the port and can happen whatever the port does.
Answers(address, port) ==
    {"error"} \union
        IF <<address, port>> \in network THEN {"open"} ELSE {"closed", "filtered"}

Step(i, from, to) == worker[i] = from /\ worker' = [worker EXCEPT ![i] = to]

Holding == {i \in DOMAIN worker : worker[i] \in {"dialling", "answered", "announced"}}

Acquire(i) ==
    /\ Cardinality(Holding) < Concurrency
    /\ Step(i, "started", "dialling")
    /\ UNCHANGED <<network, target, ports, results, done, received>>

Dial(i) ==
    /\ Step(i, "dialling", "answered")
    /\ \E answer \in Answers(target, ports[i]) : results' = [results EXCEPT ![i] = answer]
    /\ UNCHANGED <<network, target, ports, done, received>>

\* A goroutine that returns on an error without announcing itself.
AnnounceUnlessError(i) ==
    /\ Step(i, "answered", "announced")
    /\ done' = IF results[i] = "error" THEN done ELSE done + 1
    /\ UNCHANGED <<network, target, ports, results, received>>

Announce(i) ==
    /\ Step(i, "answered", "announced")
    /\ done' = done + 1
    /\ UNCHANGED <<network, target, ports, results, received>>

Release(i) ==
    /\ Step(i, "announced", "gone")
    /\ UNCHANGED <<network, target, ports, results, done, received>>

Receive ==
    /\ done > 0 /\ received < Len(ports)
    /\ done' = done - 1 /\ received' = received + 1
    /\ UNCHANGED <<network, target, ports, worker, results>>

\* The announcement sent before the answer is written.
GoroutineAnnouncesFirst(i) ==
    \/ Acquire(i) \/ Release(i)
    \/ /\ Step(i, "dialling", "answered")
       /\ done' = done + 1
       /\ UNCHANGED <<network, target, ports, results, received>>
    \/ /\ Step(i, "answered", "announced")
       /\ \E answer \in Answers(target, ports[i]) : results' = [results EXCEPT ![i] = answer]
       /\ UNCHANGED <<network, target, ports, done, received>>

Goroutine(i) == Acquire(i) \/ Dial(i) \/ Announce(i) \/ Release(i)

\* Run returns.
Returned == ports # <<>> /\ received = Len(ports)

PoolTypeOK ==
    /\ worker \in [DOMAIN worker -> Stations]
    /\ results \in [DOMAIN worker -> States \union {Unwritten}]
    /\ DOMAIN worker \subseteq Slots
    /\ done \in 0..Len(ports) /\ received \in 0..Len(ports)

-----------------------------------------------------------------------------
\* Run's promise (probe.go:109-111): when it returns, the slot of every port
\* holds that port's answer.  The write and the announcement are two steps of a
\* goroutine, and Run returns while the last ones still hold the semaphore.
ResultsComplete == Returned => \A i \in Slots : results[i] \in States
=============================================================================
