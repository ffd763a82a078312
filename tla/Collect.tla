------------------------------- MODULE Collect -------------------------------
(***************************************************************************)
(* Reading the kernel's nftables ruleset while it changes:                 *)
(* src/internal/collect/ruleset.go.  The read is some twenty netlink calls *)
(* one after another, and between any two of them another process, Docker  *)
(* or an administrator's `nft -f`, may commit a transaction.  Any call may *)
(* be refused.  No generation number is compared: what makes a torn read   *)
(* safe is ReadFailed, which makes Evaluate answer unknown on every row.   *)
(*                                                                         *)
(* The content of a table, chain or set is a version: the number of the    *)
(* transaction that wrote it, 0 for what the host started with.            *)
(***************************************************************************)
EXTENDS Integers, FiniteSets, SequencesExt

CONSTANTS Tables,    \* table identities (family and name)
          Chains,    \* chain identities (family, table and name)
          Sets,      \* set identities
          TableOf,   \* [Chains \union Sets -> Tables]
          FamilyOf,  \* [Tables -> family]
          MaxTx      \* bound: transactions committed during one read

ASSUME IdentitiesAssumption ==
    /\ IsFiniteSet(Tables) /\ IsFiniteSet(Chains) /\ IsFiniteSet(Sets)
    /\ Tables \intersect (Chains \union Sets) = {} /\ Chains \intersect Sets = {}
    /\ TableOf \in [Chains \union Sets -> Tables]
    /\ DOMAIN FamilyOf = Tables
    /\ MaxTx \in Nat

VARIABLES
    kernel,      \* the content of every object, Absent when it is not there
    had,         \* history: every content each object had since the read began
    tx,          \* transactions committed so far
    pc,          \* the next netlink call
    devices,     \* the chain contents the device dump saw
    payloads,    \* the rule contents the xt payload dump saw
    todo,        \* tables still to read; its head is the one being read
    left,        \* sets or chains of that table still to read
    cache,       \* what listChains remembers for each family
    ft,          \* the facts.Table being filled
    rs,          \* facts.Ruleset.Tables
    readFailed,  \* facts.Ruleset.ReadFailed
    warned,      \* what the warnings name
    refused      \* history: the ruleset calls that were refused

host   == <<kernel, had, tx>>
result == <<ft, rs, readFailed, warned, refused>>
vars   == <<host, pc, devices, payloads, todo, left, cache, result>>

Objects  == Tables \union Chains \union Sets
Absent   == -1
Versions == Absent..MaxTx
Families == {FamilyOf[t] : t \in Tables}
Parts(t) == {o \in Chains \union Sets : TableOf[o] = t}
Live(objects) == {o \in objects : kernel[o] # Absent}

\* An entry put at the end of a list of named things.
Adding(f, x, v) == [y \in DOMAIN f \union {x} |-> IF y \in DOMAIN f THEN f[y] ELSE v]

Nothing    == <<>>
EmptyTable == [sets |-> Nothing, chains |-> Nothing]
Unlisted   == [state |-> "unlisted", chains |-> Nothing]
Failed     == [state |-> "failed",   chains |-> Nothing]
Walked     == {"ip", "ip6", "inet", "netdev"}
Table      == Head(todo)
Family     == FamilyOf[Table]

Init ==
    /\ kernel \in [Objects -> {Absent, 0}]
    /\ \A o \in Chains \union Sets : kernel[TableOf[o]] = Absent => kernel[o] = Absent
    /\ had = [o \in Objects |-> {kernel[o]}]
    /\ tx = 0
    /\ pc = "devices"
    /\ devices  = [c \in Chains |-> Absent]
    /\ payloads = [c \in Chains |-> Absent]
    /\ todo = <<>> /\ left = {}
    /\ cache = [f \in Families |-> Unlisted]
    /\ ft = EmptyTable /\ rs = Nothing
    /\ readFailed = FALSE /\ warned = {} /\ refused = {}

(***************************************************************************)
(* The rest of the host: one nft transaction, atomic in the kernel.        *)
(***************************************************************************)
Commit(content) ==
    /\ tx < MaxTx /\ pc # "done"
    /\ tx' = tx + 1
    /\ kernel' = content
    /\ had' = [o \in Objects |-> had[o] \union {content[o]}]
    /\ UNCHANGED <<pc, devices, payloads, todo, left, cache, result>>

AddTable == \E t \in Tables :
    /\ kernel[t] = Absent
    /\ Commit([kernel EXCEPT ![t] = tx + 1])

\* A chain or set is created, or its rules, policy or elements are replaced.
Write == \E o \in Chains \union Sets :
    /\ kernel[TableOf[o]] # Absent
    /\ Commit([kernel EXCEPT ![o] = tx + 1])

Delete == \E o \in Live(Chains \union Sets) : Commit([kernel EXCEPT ![o] = Absent])

DeleteTable == \E t \in Live(Tables) :
    Commit([o \in Objects |-> IF o \in {t} \union Parts(t) THEN Absent ELSE kernel[o]])

\* `nft -f` of a whole table: everything in it is replaced at one instant.
Reload == \E t \in Live(Tables) :
    Commit([o \in Objects |-> IF o \in Live({t} \union Parts(t)) THEN tx + 1 ELSE kernel[o]])

Host == AddTable \/ Write \/ Delete \/ DeleteTable \/ Reload

(***************************************************************************)
(* Ruleset(): the two dumps whyopen issues itself.  Their failure is a     *)
(* warning and no more.                                                    *)
(***************************************************************************)
Chained(dump) == [c \in Chains |-> dump[c]]

\* The device dump failing treated as the ruleset's failure.
ChainDevicesOrBlind ==
    /\ pc = "devices"
    /\ pc' = "payloads"
    /\ \/ devices' = Chained(kernel) /\ UNCHANGED <<warned, readFailed>>
       \/ warned' = warned \union {"devices"} /\ readFailed' = TRUE /\ UNCHANGED devices
    /\ UNCHANGED <<host, payloads, todo, left, cache, ft, rs, refused>>

ChainDevices ==
    /\ pc = "devices"
    /\ pc' = "payloads"
    /\ \/ devices' = Chained(kernel) /\ UNCHANGED warned
       \/ warned' = warned \union {"devices"} /\ UNCHANGED devices
    /\ UNCHANGED <<host, payloads, todo, left, cache, ft, rs, readFailed, refused>>

RulePayloads ==
    /\ pc = "payloads"
    /\ pc' = "tables"
    /\ \/ payloads' = Chained(kernel) /\ UNCHANGED warned
       \/ warned' = warned \union {"payloads"} /\ UNCHANGED payloads
    /\ UNCHANGED <<host, devices, todo, left, cache, ft, rs, readFailed, refused>>

(***************************************************************************)
(* readRuleset and readSets.                                               *)
(***************************************************************************)
\* A refused call that is reported but leaves ReadFailed alone.
RefuseQuietly(call, lost) ==
    /\ refused' = refused \union {call}
    /\ warned' = warned \union {lost}
    /\ UNCHANGED readFailed

\* What every refused ruleset call does: a warning that names what is lost.
Refuse(call, lost) ==
    /\ refused' = refused \union {call}
    /\ warned' = warned \union {lost}
    /\ readFailed' = TRUE

Fine == UNCHANGED <<readFailed, warned, refused>>

NextTable ==
    /\ todo' = Tail(todo)
    /\ pc' = IF Len(todo) = 1 THEN "done" ELSE "sets"

ListTables ==
    /\ pc = "tables"
    /\ todo' = SetToSeq(Live(Tables))
    /\ pc' = IF todo' = <<>> THEN "done" ELSE "sets"
    /\ Fine
    /\ UNCHANGED <<host, devices, payloads, left, cache, ft, rs>>

ListTablesFails ==
    /\ pc = "tables"
    /\ pc' = "done"
    /\ Refuse("tables", "ruleset")
    /\ UNCHANGED <<host, devices, payloads, todo, left, cache, ft, rs>>

\* arp and bridge tables cannot decide an inbound IP packet.
SkipTable ==
    /\ pc = "sets" /\ Family \notin Walked
    /\ NextTable
    /\ UNCHANGED <<host, devices, payloads, left, cache, result>>

GetSets ==
    /\ pc = "sets" /\ Family \in Walked /\ kernel[Table] # Absent
    /\ left' = Live(Parts(Table) \intersect Sets)
    /\ ft' = EmptyTable
    /\ pc' = "elements"
    /\ Fine
    /\ UNCHANGED <<host, devices, payloads, todo, cache, rs>>

GetSetsFails ==
    /\ pc = "sets" /\ Family \in Walked
    /\ left' = {} /\ ft' = EmptyTable
    /\ pc' = "elements"
    /\ Refuse("sets", Table)
    /\ UNCHANGED <<host, devices, payloads, todo, cache, rs>>

GetSetElements == \E s \in left :
    /\ pc = "elements" /\ kernel[s] # Absent
    /\ left' = left \ {s}
    /\ ft' = [ft EXCEPT !.sets = Adding(@, s, kernel[s])]
    /\ Fine
    /\ UNCHANGED <<host, pc, devices, payloads, todo, cache, rs>>

\* A set whose elements cannot be read kept, with nothing in it.
GetSetElementsFailsEmpty == \E s \in left :
    /\ pc = "elements"
    /\ left' = left \ {s}
    /\ ft' = [ft EXCEPT !.sets = Adding(@, s, Absent)]
    /\ Refuse("elements", s)
    /\ UNCHANGED <<host, pc, devices, payloads, todo, cache, rs>>

\* A set whose elements cannot be read is left out, never kept without them.
GetSetElementsFails == \E s \in left :
    /\ pc = "elements"
    /\ left' = left \ {s}
    /\ Refuse("elements", s)
    /\ UNCHANGED <<host, pc, devices, payloads, todo, cache, ft, rs>>

SetsRead ==
    /\ pc = "elements" /\ left = {}
    /\ pc' = "chains"
    /\ UNCHANGED <<host, devices, payloads, todo, left, cache, result>>

OfFamily == {c \in Chains : FamilyOf[TableOf[c]] = Family}

\* A cache that keeps the list and forgets the error that came with it.
ListChainsForgetsTheError ==
    /\ pc = "chains" /\ cache[Family].state = "unlisted"
    /\ \/ /\ cache' = [cache EXCEPT ![Family] =
                 [state |-> "listed", chains |-> [c \in Live(OfFamily) |-> kernel[c]]]]
          /\ UNCHANGED refused
       \/ /\ cache' = [cache EXCEPT ![Family] = [state |-> "listed", chains |-> Nothing]]
          /\ refused' = refused \union {"chains"}
    /\ UNCHANGED <<host, pc, devices, payloads, todo, left, ft, rs, readFailed, warned>>

\* One listing per family, its failure remembered like its success.
ListChains ==
    /\ pc = "chains" /\ cache[Family].state = "unlisted"
    /\ \/ /\ cache' = [cache EXCEPT ![Family] =
                 [state |-> "listed", chains |-> [c \in Live(OfFamily) |-> kernel[c]]]]
          /\ UNCHANGED refused
       \/ /\ cache' = [cache EXCEPT ![Family] = Failed]
          /\ refused' = refused \union {"chains"}
    /\ UNCHANGED <<host, pc, devices, payloads, todo, left, ft, rs, readFailed, warned>>

\* `continue`: the table is lost, and the sets just read from it with it.
ChainsUnlisted ==
    /\ pc = "chains" /\ cache[Family] = Failed
    /\ Refuse("chains", Table)
    /\ NextTable
    /\ UNCHANGED <<host, devices, payloads, left, cache, ft, rs>>

\* The family's listing taken for the table's.
ChainsListedOfTheFamily ==
    /\ pc = "chains" /\ cache[Family].state = "listed"
    /\ left' = DOMAIN cache[Family].chains
    /\ pc' = "rules"
    /\ UNCHANGED <<host, devices, payloads, todo, cache, result>>

ChainsListed ==
    /\ pc = "chains" /\ cache[Family].state = "listed"
    /\ left' = {c \in DOMAIN cache[Family].chains : TableOf[c] = Table}
    /\ pc' = "rules"
    /\ UNCHANGED <<host, devices, payloads, todo, cache, result>>

(***************************************************************************)
(* A chain is put together from up to four reads: its hook, priority and   *)
(* policy from the family's listing, its devices and xt payloads from the  *)
(* dumps, its rules from a call of their own.  A payload belongs to a rule *)
(* by its handle, so a rule written since the dump gets none.              *)
(***************************************************************************)
ChainFacts(c) ==
    [header   |-> cache[Family].chains[c],
     devices  |-> devices[c],
     rules    |-> kernel[c],
     payloads |-> IF payloads[c] = kernel[c] THEN payloads[c] ELSE Absent]

GetRules == \E c \in left :
    /\ pc = "rules" /\ kernel[c] # Absent
    /\ left' = left \ {c}
    /\ ft' = [ft EXCEPT !.chains = Adding(@, c, ChainFacts(c))]
    /\ Fine
    /\ UNCHANGED <<host, pc, devices, payloads, todo, cache, rs>>

GetRulesFails == \E c \in left :
    /\ pc = "rules"
    /\ left' = left \ {c}
    /\ Refuse("rules", c)
    /\ UNCHANGED <<host, pc, devices, payloads, todo, cache, ft, rs>>

TableRead ==
    /\ pc = "rules" /\ left = {}
    /\ rs' = Adding(rs, Table, ft)
    /\ NextTable
    /\ UNCHANGED <<host, devices, payloads, left, cache, ft, readFailed, warned, refused>>

\* nftables.New: without a netlink socket there is nothing to read from.
OpenFails ==
    /\ pc = "devices"
    /\ pc' = "done"
    /\ Refuse("open", "ruleset")
    /\ UNCHANGED <<host, devices, payloads, todo, left, cache, ft, rs>>

Reader ==
    \/ OpenFails \/ ChainDevices \/ RulePayloads
    \/ ListTables \/ ListTablesFails \/ SkipTable
    \/ GetSets \/ GetSetsFails \/ GetSetElements \/ GetSetElementsFails \/ SetsRead
    \/ ListChains \/ ChainsUnlisted \/ ChainsListed
    \/ GetRules \/ GetRulesFails \/ TableRead

Next == Host \/ Reader
Spec == Init /\ [][Next]_vars

-----------------------------------------------------------------------------
(***************************************************************************)
(* Properties.                                                             *)
(***************************************************************************)
ReadSets   == UNION {DOMAIN rs[t].sets : t \in DOMAIN rs}
ReadChains == UNION {DOMAIN rs[t].chains : t \in DOMAIN rs}

\* The state of the read (readRuleset's locals) and of the host around it.
TypeOK ==
    /\ kernel \in [Objects -> Versions] /\ tx \in 0..MaxTx
    /\ \A o \in Objects : kernel[o] \in had[o] /\ had[o] \subseteq Versions
    /\ pc \in {"devices", "payloads", "tables", "sets", "elements", "chains", "rules", "done"}
    /\ devices \in [Chains -> Versions] /\ payloads \in [Chains -> Versions]
    /\ IsInjective(todo) /\ ToSet(todo) \subseteq Tables
    /\ todo # <<>> => left \subseteq Parts(Table)
    /\ \A f \in Families : cache[f].state \in {"unlisted", "failed", "listed"}
    /\ DOMAIN rs \subseteq Tables \ ToSet(todo)
    /\ ReadSets \subseteq Sets /\ ReadChains \subseteq Chains
    /\ readFailed \in BOOLEAN
    /\ warned \subseteq Objects \union {"devices", "payloads", "ruleset"}

\* readRuleset's comment (ruleset.go:50-57): ReadFailed is all that stands
\* between a silently truncated read and a confident "reachable".  A chain or
\* set of a table whyopen walks, there for the whole of the read and not in the
\* document, means ReadFailed is set and a warning names it, its table or the
\* ruleset: whatever was refused, and whatever else the host did meanwhile.
NothingMissingSilently ==
    pc = "done" => \A o \in (Chains \union Sets) \ (ReadChains \union ReadSets) :
        FamilyOf[TableOf[o]] \in Walked /\ Absent \notin had[o]
            => readFailed /\ {o, TableOf[o], "ruleset"} \intersect warned # {}

\* A chain is assembled from four reads and a set from two.  One that nobody
\* touched during the read comes out exactly as it is, however much the rest of
\* the ruleset moved and whatever failed; the only latitude is that devices or
\* xt payloads may be unknown (ruleset.go:99-129, decisions 0006 and 0007).
UntouchedIsExact ==
    \A t \in DOMAIN rs :
        /\ \A s \in DOMAIN rs[t].sets : 
              Cardinality(had[s]) = 1 => had[s] = {rs[t].sets[s]}
        /\ \A c \in DOMAIN rs[t].chains : \A v \in Versions : had[c] = {v} =>
              LET read == rs[t].chains[c] IN
              /\ read.header = v /\ read.rules = v
              /\ read.devices \in {v, Absent} /\ read.payloads \in {v, Absent}

\* ReadFailed makes every verdict unknown, so it is not set lightly: only when a
\* call of the ruleset itself was refused.  The two extra dumps failing never
\* blinds the report (Ruleset, ruleset.go:40-44; chaindev.go:58-60).
BlindOnlyWhenRefused == readFailed => refused # {}

\* Each refused call is in the document by the time it is complete
\* (ruleset.go:50-52, "any failure, total or partial, sets ReadFailed"): also
\* the listing of a family's chains, which is refused once and used per table.
EveryRefusalBlinds == pc = "done" /\ refused # {} => readFailed
=============================================================================
