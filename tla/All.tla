--------------------------------- MODULE All ---------------------------------
(***************************************************************************)
(* The whole snapshot: src/internal/collect/collect.go, with the host,     *)
(* route, socket, legacy-backend and Docker collectors around the ruleset  *)
(* read of Collect.  They run one after the other on a host that does not  *)
(* stand still, and every one "degrades to a warning rather than an error, *)
(* because a partial snapshot still yields useful verdicts"                *)
(* (collect.go:26-28): what could not be read has to be told.              *)
(*                                                                         *)
(* A thing is one fact the host has or has not: a toggle that is on, a     *)
(* device with its addresses, a socket, a container.                       *)
(***************************************************************************)
EXTENDS Collect

CONSTANTS Sysctls,      \* the global toggles that change a verdict
          Devices,      \* network devices with their addresses
          ForwardingOf, \* [Devices -> the device's own forwarding toggle]
          Listeners,    \* a listening socket for each /proc/net file
          OwnerOf,      \* [Listeners -> the process holding the socket]
          Legacy,       \* legacy backends with registered tables
          Containers,   \* containers that publish a port
          MaxEvents     \* bound: what may happen outside the ruleset read itself

VARIABLES
    stage,    \* the collector that is running
    unread,   \* what it has still to read
    here,     \* the things the host has now
    stayed,   \* history: the things it has had since the read began
    seen,     \* the things in the document
    told,     \* what the warnings outside the ruleset name
    faults    \* reads outside the ruleset that failed so far

found   == <<seen, told, faults>>
allVars == <<vars, stage, unread, here, stayed, found>>

Toggles == {ForwardingOf[d] : d \in Devices}
Owners  == {OwnerOf[l] : l \in Listeners}
Things  == UNION {Sysctls, Devices, Toggles, {"routes"}, Listeners, Owners, Legacy, Containers}

ASSUME KindsAssumption ==
    /\ Listeners \intersect (Owners \union Containers) = {}
    /\ MaxEvents \in Nat

AllInit ==
    /\ Init
    /\ stage = "hostname" /\ unread = {}
    /\ here = Things /\ stayed = Things
    /\ seen = {} /\ told = {} /\ faults = 0

(***************************************************************************)
(* The rest of the host.  A thing that is not there from the beginning is  *)
(* one that goes before anything is read.                                  *)
(***************************************************************************)
\* Transactions, things that went and reads that failed outside the ruleset.
Events == tx + Cardinality(Things \ stayed) + faults

Ruled == Host /\ Events < MaxEvents /\ UNCHANGED <<stage, unread, here, stayed, found>>

Goes == \E x \in here :
    /\ stage # "done" /\ Events < MaxEvents
    /\ here' = here \ {x} /\ stayed' = stayed \ {x}
    /\ UNCHANGED <<vars, stage, unread, found>>

Comes == \E x \in Things \ here :
    /\ stage # "done"
    /\ here' = here \union {x}
    /\ UNCHANGED <<vars, stage, unread, stayed, found>>

(***************************************************************************)
(* The collectors.                                                         *)
(***************************************************************************)
Learn(things) == seen' = seen \union (things \intersect here) /\ UNCHANGED <<told, faults>>

Fault == Events < MaxEvents /\ faults' = faults + 1

Warn(name) == Fault /\ told' = told \union {name} /\ UNCHANGED seen

\* Interfaces enumerated before the sysctls are read.
FollowsInterfacesFirst ==
    [hostname |-> "interfaces", interfaces |-> "addresses", addresses |-> "sysctls",
     sysctls |-> "routes", routes |-> "sockets", sockets |-> "owners", owners |-> "legacy",
     legacy |-> "ruleset", ruleset |-> "docker", docker |-> "done"]

\* The order Host, Sockets and All read in.
Follows ==
    [hostname |-> "sysctls", sysctls |-> "routes", routes |-> "interfaces",
     interfaces |-> "addresses", addresses |-> "sockets", sockets |-> "owners",
     owners |-> "legacy", legacy |-> "ruleset", ruleset |-> "docker", docker |-> "done"]

Inputs(s) ==
    CASE s = "sysctls" -> Sysctls
      [] s = "sockets" -> Listeners
      [] s = "owners"  -> Owners
      [] s = "legacy"  -> Legacy
      [] OTHER         -> {}

Enter(s) == stage' = s /\ unread' = Inputs(s)

Still == UNCHANGED <<vars, here, stayed>>

\* A stage that is one call, and one that loops over its inputs.
Once(s) == stage = s /\ Enter(Follows[s]) /\ Still
Each(s, x) == stage = s /\ x \in unread /\ unread' = unread \ {x} /\ UNCHANGED stage /\ Still

Loops == {"sysctls", "addresses", "sockets", "owners", "legacy"}

EndOfLoop == stage \in Loops /\ unread = {} /\ Once(stage) /\ UNCHANGED found

Hostname == Once("hostname") /\ (Learn({}) \/ Warn("hostname"))

\* An unreadable sysctl is false in the document, and a warning says so.
ReadSysctl == \E x \in Sysctls : Each("sysctls", x) /\ (Learn({x}) \/ Warn(x))

\* "Nothing here warns": without routes a fib lookup stays unknown.
Routes == Once("routes") /\ (Learn({"routes"}) \/ (Fault /\ UNCHANGED <<seen, told>>))

ListInterfaces ==
    /\ stage = "interfaces" /\ stage' = Follows[stage]
    /\ unread' = here \intersect Devices
    /\ UNCHANGED found /\ Still

\* `return h, warns`: Host ends here.
ListInterfacesFails ==
    /\ stage = "interfaces" /\ Enter("sockets")
    /\ Warn("interfaces") /\ Still

\* Without its addresses a device is left out; without its forwarding toggle,
\* which is not warned about, it is taken not to forward.
ReadDevice == \E d \in Devices :
    /\ Each("addresses", d)
    /\ \/ Learn({d, ForwardingOf[d]})
       \/ Fault /\ seen' = seen \union ({d} \intersect here) /\ UNCHANGED told
       \/ Warn(d)

ReadSockets == \E l \in Listeners : Each("sockets", l) /\ (Learn({l}) \/ Warn(l))

\* A process whose descriptors may not be read counts towards one warning.
ReadOwner == \E o \in Owners :
    /\ Each("owners", o)
    /\ \/ Learn({OwnerOf[l] : l \in {k \in seen \intersect Listeners : OwnerOf[k] = o}})
       \/ Warn("owners")

\* Nothing of a legacy table is read: that it is registered, or may be, is told.
LegacyBackend == \E x \in Legacy :
    /\ Each("legacy", x)
    /\ \/ x \in here /\ told' = told \union {x} /\ UNCHANGED <<seen, faults>>
       \/ x \notin here /\ UNCHANGED found
       \/ Warn(x)

RulesetStep == stage = "ruleset" /\ Reader /\ UNCHANGED <<stage, unread, here, stayed, found>>

RulesetRead == pc = "done" /\ Once("ruleset") /\ UNCHANGED found

Docker == Once("docker") /\ (Learn(Containers) \/ Warn("docker"))

Snapshot ==
    \/ Hostname \/ ReadSysctl \/ Routes \/ ListInterfaces \/ ListInterfacesFails \/ ReadDevice
    \/ ReadSockets \/ ReadOwner \/ LegacyBackend \/ EndOfLoop
    \/ RulesetStep \/ RulesetRead \/ Docker

AllNext == Ruled \/ Goes \/ Comes \/ Snapshot
AllSpec == AllInit /\ [][AllNext]_allVars

-----------------------------------------------------------------------------
(***************************************************************************)
(* Properties.                                                             *)
(***************************************************************************)
\* What the document leaves out, and a warning of the collector covers.
Excused(x) ==
    \/ x \in told
    \/ x \in Devices /\ "interfaces" \in told
    \/ x \in Containers /\ "docker" \in told
    \/ x \in Owners /\ ("owners" \in told \/ \A l \in Listeners \intersect seen : OwnerOf[l] # x)

\* Whatever fails, in whatever combination, and whatever else comes and goes:
\* what was there for the whole of the read and is not in the document is named
\* by a warning (collect.go:26-28), an unreadable sysctl above all, which "must
\* always produce a warning, not a silently defaulted false" (host.go:49-51).
\* Routes and a device's own forwarding toggle are silent by decision.
AbsenceIsTold ==
    stage = "done" =>
        \A x \in stayed \ seen : Excused(x) \/ x \in Toggles \union {"routes"}
=============================================================================
