---------------------------- MODULE CollectProofs ----------------------------
(***************************************************************************)
(* Theorems about Collect and All, for any host, any number of             *)
(* transactions and any choice of refused calls and unreadable inputs.     *)
(***************************************************************************)
EXTENDS All, ListProofs

(***************************************************************************)
(* A refused listing is remembered by the cache one step before it is      *)
(* reported, so EveryRefusalBlinds is not inductive: the refusal is pending*)
(* while the table being read is one whose family's listing failed.        *)
(***************************************************************************)
Reading == {"sets", "elements", "chains", "rules"}

HeadInv == pc \in Reading => todo \in Seq(Tables) /\ todo # <<>>
CacheInv == DOMAIN cache = Families
Pending == pc = "chains" /\ cache[Family] = Failed
RefusalInv == refused # {} => readFailed \/ Pending
Inv == HeadInv /\ CacheInv /\ RefusalInv /\ BlindOnlyWhenRefused

\* ListTables puts the tables of the kernel in some order.
LEMMA ListedTables ==
    ASSUME NEW S \in SUBSET Tables
    PROVE  SetToSeq(S) \in Seq(Tables) /\ IsInjective(SetToSeq(S)) /\ ToSet(SetToSeq(S)) = S
<1> DEFINE n == Cardinality(S)  f == SetToSeq(S)
<1>1. IsFiniteSet(S)
  BY IdentitiesAssumption, FS_Subset
<1>2. n \in Nat /\ ExistsBijection(1 .. n, S)
  BY <1>1, FS_CardinalityType
<1>3. \E g \in [1 .. n -> S] : IsInjective(g)
  BY <1>2 DEF ExistsBijection, Bijection, Injection, IsInjective
<1>4. f \in [1 .. n -> S] /\ IsInjective(f)
  BY <1>3 DEF SetToSeq
<1> HIDE DEF f
<1>5. \A i, j \in 1 .. n : i < j => f[i] # f[j]
  <2> SUFFICES ASSUME NEW i \in 1 .. n, NEW j \in 1 .. n, i < j, f[i] = f[j]
               PROVE  FALSE
    OBVIOUS
  <2>1. i = j
    BY <1>4 DEF IsInjective
  <2>2. i \in Int /\ j \in Int
    BY <1>2
  <2> QED
    BY <2>1, <2>2
<1>6. f \in Seq(S) /\ ToSet(f) = S
  BY <1>1, <1>4, <1>5, OrderedIsOnto
<1>7. f \in Seq(Tables)
  BY <1>2, <1>4
<1> QED
  BY <1>4, <1>6, <1>7 DEF f

\* The loop over the tables either ends or has a next one.
LEMMA NextTableKeepsHead ==
    ASSUME todo \in Seq(Tables), todo # <<>>, NextTable
    PROVE  HeadInv'
<1>1. Len(todo) \in Nat \ {0} /\ Tail(todo) \in Seq(Tables) /\ Len(Tail(todo)) = Len(todo) - 1
  OBVIOUS
<1>2. CASE Len(todo) = 1
  BY <1>2 DEF NextTable, HeadInv, Reading
<1>3. CASE Len(todo) # 1
  <2>1. Len(Tail(todo)) # 0
    BY <1>1, <1>3
  <2>2. Len(<<>>) = 0
    OBVIOUS
  <2>3. Tail(todo) # <<>>
    BY <2>1, <2>2
  <2> QED
    BY <1>1, <2>3 DEF NextTable, HeadInv
<1> QED
  BY <1>2, <1>3

LEMMA InitInv == Init => Inv
  BY DEF Init, Inv, HeadInv, CacheInv, RefusalInv, BlindOnlyWhenRefused, Reading

\* The host's transactions do not touch the reader.
LEMMA HostKeepsInv ==
    ASSUME Inv, Host
    PROVE  Inv'
<1>1. UNCHANGED <<pc, todo, cache, readFailed, refused>>
  BY DEF Host, AddTable, Write, Delete, DeleteTable, Reload, Commit, result
<1> QED
  BY <1>1 DEF Inv, HeadInv, CacheInv, RefusalInv, BlindOnlyWhenRefused, Pending, Family, Table

LEMMA ReaderKeepsInv ==
    ASSUME Inv, Reader
    PROVE  Inv'
<1> USE DEF Inv, HeadInv, CacheInv, RefusalInv, BlindOnlyWhenRefused, Pending, Reading
<1>1. CASE OpenFails \/ ListTablesFails
  BY <1>1 DEF OpenFails, ListTablesFails, Refuse
<1>2. CASE ChainDevices \/ RulePayloads
  BY <1>2 DEF ChainDevices, RulePayloads
<1>3. CASE ListTables
  <2>1. todo' \in Seq(Tables)
    BY <1>3, ListedTables DEF ListTables, Live
  <2> QED
    BY <1>3, <2>1 DEF ListTables, Fine
<1>4. CASE SkipTable
  <2>1. HeadInv'
    BY <1>4, NextTableKeepsHead DEF SkipTable
  <2>2. UNCHANGED <<cache, readFailed, refused>>
    BY <1>4 DEF SkipTable, result
  <2> QED
    BY <1>4, <2>1, <2>2 DEF SkipTable
<1>5. CASE GetSets \/ GetSetElements \/ GetRules
  BY <1>5 DEF GetSets, GetSetElements, GetRules, Fine
<1>6. CASE GetSetsFails \/ GetSetElementsFails \/ GetRulesFails
  BY <1>6 DEF GetSetsFails, GetSetElementsFails, GetRulesFails, Refuse
<1>7. CASE SetsRead
  BY <1>7 DEF SetsRead, result
<1>8. CASE ListChains
  <2>1. Family \in Families
    BY <1>8 DEF ListChains, Family, Families, Table
  <2>2. Family' = Family /\ UNCHANGED <<pc, todo, readFailed>>
    BY <1>8 DEF ListChains, Family, Table
  <2>3. refused' = refused \/ cache'[Family] = Failed
    BY <1>8, <2>1 DEF ListChains
  <2>4. cache[Family] # Failed
    BY <1>8 DEF ListChains, Failed
  <2>5. DOMAIN cache' = Families
    BY <1>8 DEF ListChains
  <2>6. pc = "chains" /\ refused \subseteq refused'
    BY <1>8 DEF ListChains
  <2> QED
    BY <2>2, <2>3, <2>4, <2>5, <2>6
<1>9. CASE ChainsUnlisted
  <2>1. HeadInv'
    BY <1>9, NextTableKeepsHead DEF ChainsUnlisted
  <2> QED
    BY <1>9, <2>1 DEF ChainsUnlisted, Refuse
<1>10. CASE ChainsListed
  <2>1. cache[Family] # Failed
    BY <1>10 DEF ChainsListed, Failed
  <2> QED
    BY <1>10, <2>1 DEF ChainsListed, result
<1>11. CASE TableRead
  <2>1. HeadInv'
    BY <1>11, NextTableKeepsHead DEF TableRead
  <2> QED
    BY <1>11, <2>1 DEF TableRead
<1> QED
  BY <1>1, <1>2, <1>3, <1>4, <1>5, <1>6, <1>7, <1>8, <1>9, <1>10, <1>11 DEF Reader

LEMMA InvIsInductive == Spec => []Inv
<1>1. Inv /\ [Next]_vars => Inv'
  <2>1. CASE UNCHANGED vars
    BY <2>1 DEF vars, result, Inv, HeadInv, CacheInv, RefusalInv, BlindOnlyWhenRefused,
                Pending, Family, Table
  <2> QED
    BY <2>1, HostKeepsInv, ReaderKeepsInv DEF Next
<1> QED
  BY InitInv, <1>1, PTL DEF Spec

\* A complete document in which any call was refused is marked unread, the
\* remembered failure of a family's listing included (ruleset.go:51-52).
THEOREM RefusalsBlind == Spec => []EveryRefusalBlinds
<1>1. Inv => EveryRefusalBlinds
  BY DEF Inv, RefusalInv, Pending, EveryRefusalBlinds
<1> QED
  BY <1>1, InvIsInductive, PTL

\* And it is marked unread for no other reason: the device and payload dumps
\* may fail without a verdict lost (ruleset.go:40-44).
THEOREM BlindnessHasACause == Spec => []BlindOnlyWhenRefused
<1>1. Inv => BlindOnlyWhenRefused
  BY DEF Inv
<1> QED
  BY <1>1, InvIsInductive, PTL

-----------------------------------------------------------------------------
(***************************************************************************)
(* The snapshot.  AbsenceIsTold speaks of its end; at any moment before, a *)
(* thing that is neither in the document nor excused is still ahead: its   *)
(* collector has not started, or has it left to read.                      *)
(***************************************************************************)
Ahead(x, stages, loop) == stage \in stages \/ (stage = loop /\ x \in unread)

AtHost == {"hostname", "sysctls", "routes", "interfaces"}
InHost == AtHost \union {"addresses"}
Missing == stayed \ (seen \union told)

SysctlsInv == \A x \in Missing \intersect Sysctls : Ahead(x, {"hostname"}, "sysctls")
DevicesInv == \A x \in Missing \intersect Devices :
    "interfaces" \in told \/ Ahead(x, AtHost, "addresses")
ListenersInv == \A x \in Missing \intersect Listeners : Ahead(x, InHost, "sockets")
OwnersInv == \A x \in Missing \intersect Owners :
    Excused(x) \/ Ahead(x, InHost \union {"sockets"}, "owners")
LegacyInv == \A x \in Missing \intersect Legacy :
    Ahead(x, InHost \union {"sockets", "owners"}, "legacy")
ContainersInv == \A x \in Missing \intersect Containers : "docker" \in told \/ stage # "done"

AllInv ==
    /\ stayed \subseteq here /\ stayed \subseteq Things
    /\ SysctlsInv /\ DevicesInv /\ ListenersInv /\ OwnersInv /\ LegacyInv /\ ContainersInv

(***************************************************************************)
(* The rest of the host does not move the reader, and a thing that goes is *)
(* not missing any more.                                                   *)
(***************************************************************************)
LEMMA ChangesKeepAllInv ==
    ASSUME AllInv, Ruled \/ Goes \/ Comes \/ RulesetStep \/ UNCHANGED allVars
    PROVE  AllInv'
<1>1. UNCHANGED <<stage, unread, seen, told>> /\ stayed' \subseteq stayed /\ stayed' \subseteq here'
  BY DEF AllInv, Ruled, Goes, Comes, RulesetStep, found, allVars
<1> QED
  BY <1>1 DEF AllInv, SysctlsInv, DevicesInv, ListenersInv, OwnersInv, LegacyInv, ContainersInv,
              Missing, Ahead, Excused

LEMMA HostCollectorKeepsAllInv ==
    ASSUME AllInv,
           Hostname \/ ReadSysctl \/ Routes \/ ListInterfaces \/ ListInterfacesFails \/ ReadDevice
    PROVE  AllInv'
<1> USE DEF AllInv, SysctlsInv, DevicesInv, ListenersInv, OwnersInv, LegacyInv, ContainersInv,
            Missing, Ahead, AtHost, InHost
<1>1. stayed' = stayed /\ here' = here
  BY DEF Hostname, ReadSysctl, Routes, ListInterfaces, ListInterfacesFails, ReadDevice,
         Once, Each, Still
<1>2. CASE Hostname
  BY <1>1, <1>2 DEF Hostname, Once, Enter, Follows, Inputs, Learn, Warn, Excused
<1>3. CASE ReadSysctl
  BY <1>1, <1>3 DEF ReadSysctl, Each, Learn, Warn
<1>4. CASE Routes
  BY <1>1, <1>4 DEF Routes, Once, Enter, Follows, Inputs, Learn, Fault
<1>5. CASE ListInterfaces
  BY <1>1, <1>5 DEF ListInterfaces, Follows, found
<1>6. CASE ListInterfacesFails
  BY <1>1, <1>6 DEF ListInterfacesFails, Enter, Inputs, Warn
<1>7. CASE ReadDevice
  BY <1>1, <1>7 DEF ReadDevice, Each, Learn, Warn
<1> QED
  BY <1>2, <1>3, <1>4, <1>5, <1>6, <1>7

LEMMA OtherCollectorsKeepAllInv ==
    ASSUME AllInv,
           ReadSockets \/ ReadOwner \/ LegacyBackend \/ EndOfLoop \/ RulesetRead \/ Docker
    PROVE  AllInv'
<1> USE DEF AllInv, SysctlsInv, DevicesInv, ListenersInv, OwnersInv, LegacyInv, ContainersInv,
            Missing, Ahead, AtHost, InHost
<1>1. stayed' = stayed /\ here' = here
  BY DEF ReadSockets, ReadOwner, LegacyBackend, EndOfLoop, RulesetRead, Docker, Once, Each, Still
<1>2. CASE ReadSockets
  BY <1>1, <1>2 DEF ReadSockets, Each, Learn, Warn
<1>3. CASE ReadOwner
  <2>1. PICK o \in Owners : Each("owners", o) /\ \/ Learn({OwnerOf[l] : l \in {k \in seen \intersect Listeners : OwnerOf[k] = o}})
                                                 \/ Warn("owners")
    BY <1>3 DEF ReadOwner
  <2>2. Listeners \intersect seen' = Listeners \intersect seen /\ seen \subseteq seen' /\ told \subseteq told'
    BY <2>1, KindsAssumption DEF Learn, Warn, Owners
  <2>3. SysctlsInv' /\ DevicesInv' /\ ListenersInv' /\ LegacyInv' /\ ContainersInv'
    BY <1>1, <2>1, <2>2 DEF Each
  <2>4. OwnersInv'
    BY <1>1, <2>1, <2>2 DEF Each, Excused, Learn, Warn
  <2> QED
    BY <1>1, <2>3, <2>4
<1>4. CASE LegacyBackend
  BY <1>1, <1>4 DEF LegacyBackend, Each, Warn, found, Excused
<1>5. CASE EndOfLoop
  <2>1. UNCHANGED <<seen, told>> /\ unread = {} /\ Enter(Follows[stage]) /\ stage \in Loops
    BY <1>5 DEF EndOfLoop, Once, found
  <2>2. CASE stage \in {"sysctls", "addresses"}
    BY <1>1, <2>1, <2>2 DEF Enter, Follows, Inputs, Excused
  <2>3. CASE stage = "sockets"
    BY <1>1, <2>1, <2>3 DEF Enter, Follows, Inputs, Excused
  <2>4. CASE stage = "owners"
    BY <1>1, <2>1, <2>4 DEF Enter, Follows, Inputs, Excused
  <2>5. CASE stage = "legacy"
    BY <1>1, <2>1, <2>5 DEF Enter, Follows, Inputs, Excused
  <2> QED
    BY <2>1, <2>2, <2>3, <2>4, <2>5 DEF Loops
<1>6. CASE RulesetRead
  BY <1>1, <1>6 DEF RulesetRead, Once, Enter, Follows, Inputs, found, Excused
<1>7. CASE Docker
  <2>1. stage = "docker" /\ stage' = "done" /\ (Learn(Containers) \/ Warn("docker"))
    BY <1>7 DEF Docker, Once, Enter, Follows
  <2>2. Listeners \intersect seen' = Listeners \intersect seen /\ seen \subseteq seen' /\ told \subseteq told'
    BY <2>1, KindsAssumption DEF Learn, Warn
  <2> QED
    BY <1>1, <2>1, <2>2 DEF Learn, Warn, Excused
<1> QED
  BY <1>2, <1>3, <1>4, <1>5, <1>6, <1>7

LEMMA AllInvIsInductive == AllSpec => []AllInv
<1>1. AllInit => AllInv
  BY DEF AllInit, AllInv, SysctlsInv, DevicesInv, ListenersInv, OwnersInv, LegacyInv, ContainersInv,
         Ahead, AtHost, InHost
<1>2. AllInv /\ [AllNext]_allVars => AllInv'
  BY ChangesKeepAllInv, HostCollectorKeepsAllInv, OtherCollectorsKeepAllInv DEF AllNext, Snapshot
<1> QED
  BY <1>1, <1>2, PTL DEF AllSpec

\* Whatever fails in a snapshot and whatever comes and goes around it, nothing
\* that was there throughout is left out without a warning that says so
\* (collect.go:26-28, host.go:49-51).
THEOREM SnapshotTells == AllSpec => []AbsenceIsTold
<1>1. AllInv => AbsenceIsTold
  BY DEF AllInv, SysctlsInv, DevicesInv, ListenersInv, OwnersInv, LegacyInv, ContainersInv,
         Ahead, AtHost, InHost, Missing, AbsenceIsTold, Excused, Things
<1> QED
  BY <1>1, AllInvIsInductive, PTL

(***************************************************************************)
(* A snapshot contains a ruleset read: what holds of Collect holds of it.  *)
(***************************************************************************)
LEMMA SnapshotReadsTheRuleset == AllSpec => Spec
<1>1. AllInit => Init
  BY DEF AllInit
<1>2. [AllNext]_allVars => [Next]_vars
  <2>1. CASE Ruled \/ RulesetStep
    BY <2>1 DEF Ruled, RulesetStep, Next
  <2>2. CASE AllNext /\ ~(Ruled \/ RulesetStep)
    BY <2>2 DEF AllNext, Goes, Comes, Snapshot, Hostname, ReadSysctl, Routes, ListInterfaces,
                ListInterfacesFails, ReadDevice, ReadSockets, ReadOwner, LegacyBackend,
                EndOfLoop, RulesetRead, Docker, Once, Each, Still
  <2>3. CASE UNCHANGED allVars
    BY <2>3 DEF allVars
  <2> QED
    BY <2>1, <2>2, <2>3
<1> QED
  BY <1>1, <1>2, PTL DEF AllSpec, Spec

\* Also within a snapshot, a refused ruleset call blinds the verdicts, and
\* nothing that fails outside the ruleset does (collect.go:26-28).
THEOREM SnapshotBlindness == AllSpec => []EveryRefusalBlinds /\ []BlindOnlyWhenRefused
  BY SnapshotReadsTheRuleset, RefusalsBlind, BlindnessHasACause, PTL

-----------------------------------------------------------------------------
(***************************************************************************)
(* What a read has seen.  Everything in the document and everything still  *)
(* held to be put there was the kernel's at some moment of the read, so it *)
(* is exact for an object that had one content only.                       *)
(***************************************************************************)
Calls == {"devices", "payloads", "tables", "sets", "elements", "chains", "rules", "done"}

KernelInv ==
    /\ kernel \in [Objects -> Versions] /\ tx \in 0..MaxTx
    /\ had \in [Objects -> SUBSET Versions]
    /\ \A o \in Objects : kernel[o] \in had[o]
    /\ \A o \in Chains \union Sets : kernel[TableOf[o]] = Absent => kernel[o] = Absent

Dumped(dump) ==
    /\ dump \in [Chains -> Versions]
    /\ \A c \in Chains : dump[c] \in had[c] \union {Absent}

LoopInv ==
    /\ pc \in Calls /\ todo \in Seq(Tables) /\ IsInjective(todo)
    /\ pc \in Reading => todo # <<>>
    /\ pc = "elements" => left \subseteq Parts(Table) \intersect Sets
    /\ pc = "rules" => left \subseteq Parts(Table) \intersect DOMAIN cache[Family].chains
    /\ pc \notin {"elements", "rules"} => left = {}
    /\ readFailed \in BOOLEAN
    /\ warned \subseteq Objects \union {"devices", "payloads", "ruleset"}

FamilyChains(f) == {c \in Chains : FamilyOf[TableOf[c]] = f}

\* A listing misses a chain only when it was not there for a while.
Lists(f, listing) ==
    /\ listing.state \in {"unlisted", "failed", "listed"}
    /\ DOMAIN listing.chains \subseteq FamilyChains(f)
    /\ \A c \in DOMAIN listing.chains : listing.chains[c] \in had[c]
    /\ listing.state = "listed" =>
          \A c \in FamilyChains(f) : c \in DOMAIN listing.chains \/ Absent \in had[c]

ListingInv == DOMAIN cache = Families /\ \A f \in Families : Lists(f, cache[f])

Seen(c, read) ==
    /\ read.header \in had[c] /\ read.rules \in had[c]
    /\ read.devices \in had[c] \union {Absent} /\ read.payloads \in had[c] \union {Absent}

TableSeen(t) ==
    /\ DOMAIN t.sets \subseteq Sets /\ \A s \in DOMAIN t.sets : t.sets[s] \in had[s]
    /\ DOMAIN t.chains \subseteq Chains /\ \A c \in DOMAIN t.chains : Seen(c, t.chains[c])

DocumentInv ==
    /\ DOMAIN ft = {"sets", "chains"} /\ TableSeen(ft)
    /\ DOMAIN rs \subseteq Tables \ ToSet(todo)
    /\ pc \in {"devices", "payloads", "tables"} => DOMAIN rs = {}
    /\ \A t \in DOMAIN rs : TableSeen(rs[t])

(***************************************************************************)
(* NothingMissingSilently speaks of the end; before it, a chain or set that*)
(* was there throughout is read, told of, or still ahead: in a table to    *)
(* come, or in the part of this one that is still to be read.              *)
(***************************************************************************)
ToldOf(o) == readFailed /\ {o, TableOf[o], "ruleset"} \intersect warned # {}

InThisTable(o) ==
    \/ pc = "sets"
    \/ o \in DOMAIN ft.sets
    \/ o \in Chains /\ (pc \in {"elements", "chains"} \/ o \in DOMAIN ft.chains)
    \/ pc \in {"elements", "rules"} /\ o \in left

StillToCome(o) ==
    \/ pc \in {"devices", "payloads", "tables"}
    \/ pc \in Reading /\ \/ TableOf[o] \in ToSet(Tail(todo))
                         \/ TableOf[o] = Table /\ InThisTable(o)

MissingInv ==
    \A o \in Chains \union Sets : FamilyOf[TableOf[o]] \in Walked /\ Absent \notin had[o] =>
        o \in ReadChains \union ReadSets \/ ToldOf(o) \/ StillToCome(o)

ReadInv ==
    /\ KernelInv /\ Dumped(devices) /\ Dumped(payloads) /\ LoopInv
    /\ ListingInv /\ DocumentInv /\ MissingInv

\* The head of a list without repetitions is not in the rest.
LEMMA HeadAndTail ==
    ASSUME NEW T, NEW s \in Seq(T), s # <<>>, IsInjective(s)
    PROVE  /\ Tail(s) \in Seq(T) /\ IsInjective(Tail(s)) /\ Len(Tail(s)) = Len(s) - 1
           /\ Head(s) \in T /\ Head(s) \notin ToSet(Tail(s))
           /\ ToSet(s) = {Head(s)} \union ToSet(Tail(s))
           /\ Len(s) \in Nat /\ (Len(s) = 1 <=> Tail(s) = <<>>)
<1> DEFINE n == Len(s)  t == Tail(s)
<1>1. /\ n \in Nat /\ n # 0 /\ DOMAIN s = 1 .. n /\ Head(s) = s[1] /\ s[1] \in T
      /\ t \in Seq(T) /\ Len(t) = n - 1 /\ DOMAIN t = 1 .. (n - 1)
      /\ \A i \in 1 .. (n - 1) : t[i] = s[i + 1]
  OBVIOUS
<1>2. n = 1 <=> t = <<>>
  <2> HIDE DEF n, t
  <2>1. Len(<<>>) = 0
    OBVIOUS
  <2>2. Len(t) = 0 => t = <<>>
    BY <1>1
  <2> QED
    BY <1>1, <2>1, <2>2
<1> HIDE DEF n, t
<1>3. \A i, j \in 1 .. n : s[i] = s[j] => i = j
  BY <1>1 DEF IsInjective
<1>4. \A i, j \in 1 .. (n - 1) : t[i] = t[j] => i = j
  <2> SUFFICES ASSUME NEW i \in 1 .. (n - 1), NEW j \in 1 .. (n - 1), t[i] = t[j]
               PROVE  i = j
    OBVIOUS
  <2>1. i + 1 \in 1 .. n /\ j + 1 \in 1 .. n /\ s[i + 1] = s[j + 1]
    BY <1>1
  <2>2. i + 1 = j + 1
    BY <1>3, <2>1
  <2> QED
    BY <1>1, <2>2
<1>5. IsInjective(t)
  BY <1>1, <1>4 DEF IsInjective
<1>6. \A i \in 1 .. (n - 1) : t[i] # s[1]
  <2> SUFFICES ASSUME NEW i \in 1 .. (n - 1), t[i] = s[1]
               PROVE  FALSE
    OBVIOUS
  <2>1. i + 1 \in 1 .. n /\ 1 \in 1 .. n /\ s[i + 1] = s[1] /\ i \in Nat /\ i > 0
    BY <1>1
  <2>2. i + 1 = 1
    BY <1>3, <2>1
  <2> QED
    BY <2>1, <2>2
<1>7. s[1] \notin ToSet(t)
  BY <1>1, <1>6 DEF ToSet
<1>8. ToSet(s) = {s[1]} \union ToSet(t)
  <2>1. ASSUME NEW x \in ToSet(s)
        PROVE  x = s[1] \/ x \in ToSet(t)
    <3>1. PICK i \in 1 .. n : x = s[i]
      BY <1>1 DEF ToSet
    <3>2. CASE i = 1
      BY <3>1, <3>2
    <3>3. CASE i # 1
      <4>1. i - 1 \in 1 .. (n - 1) /\ t[i - 1] = s[(i - 1) + 1] /\ (i - 1) + 1 = i
        BY <1>1, <3>3
      <4> QED
        BY <1>1, <3>1, <4>1 DEF ToSet
    <3> QED
      BY <3>2, <3>3
  <2>2. ASSUME NEW x \in ToSet(t)
        PROVE  x \in ToSet(s)
    <3>1. PICK i \in 1 .. (n - 1) : x = t[i]
      BY <1>1 DEF ToSet
    <3>2. i + 1 \in 1 .. n /\ x = s[i + 1]
      BY <1>1, <3>1
    <3> QED
      BY <1>1, <3>2 DEF ToSet
  <2>3. s[1] \in ToSet(s)
    BY <1>1 DEF ToSet
  <2> QED
    BY <2>1, <2>2, <2>3
<1> QED
  BY <1>1, <1>2, <1>5, <1>7, <1>8 DEF n, t

(***************************************************************************)
(* The host's transactions.                                                *)
(***************************************************************************)
Nested(content) ==
    \A o \in Chains \union Sets : content[TableOf[o]] = Absent => content[o] = Absent

LEMMA CommitKeepsKernel ==
    ASSUME KernelInv, NEW content \in [Objects -> Versions], Nested(content), Commit(content)
    PROVE  KernelInv' /\ \A o \in Objects : had[o] \subseteq had'[o]
<1>1. /\ tx < MaxTx /\ tx' = tx + 1 /\ kernel' = content
      /\ had' = [o \in Objects |-> had[o] \union {content[o]}]
  BY DEF Commit
<1>2. tx' \in 0 .. MaxTx
  BY <1>1, IdentitiesAssumption DEF KernelInv
<1>3. \A o \in Objects : had'[o] = had[o] \union {content[o]}
  BY <1>1
<1>4. had' \in [Objects -> SUBSET Versions]
  BY <1>1 DEF KernelInv
<1> QED
  BY <1>1, <1>2, <1>3, <1>4 DEF KernelInv, Nested

LEMMA HostKeepsKernel ==
    ASSUME KernelInv, Host
    PROVE  KernelInv' /\ \A o \in Objects : had[o] \subseteq had'[o]
<1>1. /\ kernel \in [Objects -> Versions] /\ tx \in 0 .. MaxTx /\ MaxTx \in Nat
      /\ Absent \in Versions /\ (tx < MaxTx => tx + 1 \in Versions /\ tx + 1 # Absent)
  BY IdentitiesAssumption DEF KernelInv, Versions, Absent
<1>2. /\ \A o \in Chains \union Sets : o \in Objects /\ TableOf[o] \in Tables /\ o \notin Tables
      /\ Tables \subseteq Objects
  BY IdentitiesAssumption DEF Objects
<1>3. Nested(kernel)
  BY DEF KernelInv, Nested
<1>4. CASE AddTable
  <2>1. PICK t \in Tables : kernel[t] = Absent /\ Commit([kernel EXCEPT ![t] = tx + 1])
    BY <1>4 DEF AddTable
  <2> DEFINE content == [kernel EXCEPT ![t] = tx + 1]
  <2>2. tx < MaxTx
    BY <2>1 DEF Commit
  <2>3. content \in [Objects -> Versions]
    BY <1>1, <1>2, <2>2
  <2>4. Nested(content)
    BY <1>1, <1>2, <1>3, <2>2 DEF Nested
  <2> QED
    BY <2>1, <2>3, <2>4, CommitKeepsKernel
<1>5. CASE Write
  <2>1. PICK x \in Chains \union Sets :
            kernel[TableOf[x]] # Absent /\ Commit([kernel EXCEPT ![x] = tx + 1])
    BY <1>5 DEF Write
  <2> DEFINE content == [kernel EXCEPT ![x] = tx + 1]
  <2>2. tx < MaxTx
    BY <2>1 DEF Commit
  <2>3. content \in [Objects -> Versions]
    BY <1>1, <1>2, <2>2
  <2>4. Nested(content)
    BY <1>1, <1>2, <1>3, <2>1, <2>2 DEF Nested
  <2> QED
    BY <2>1, <2>3, <2>4, CommitKeepsKernel
<1>6. CASE Delete
  <2>1. PICK x \in Chains \union Sets : Commit([kernel EXCEPT ![x] = Absent])
    BY <1>6 DEF Delete, Live
  <2> DEFINE content == [kernel EXCEPT ![x] = Absent]
  <2>2. content \in [Objects -> Versions]
    BY <1>1, <1>2
  <2>3. Nested(content)
    BY <1>1, <1>2, <1>3, <2>1 DEF Nested
  <2> QED
    BY <2>1, <2>2, <2>3, CommitKeepsKernel
<1>7. CASE DeleteTable
  <2>1. PICK t \in Tables :
            Commit([o \in Objects |-> IF o \in {t} \union Parts(t) THEN Absent ELSE kernel[o]])
    BY <1>7 DEF DeleteTable, Live
  <2> DEFINE content == [o \in Objects |-> IF o \in {t} \union Parts(t) THEN Absent ELSE kernel[o]]
  <2>2. content \in [Objects -> Versions]
    BY <1>1, <1>2
  <2>3. Nested(content)
    BY <1>1, <1>2, <1>3, <2>1 DEF Nested, Parts
  <2> QED
    BY <2>1, <2>2, <2>3, CommitKeepsKernel
<1>8. CASE Reload
  <2>1. PICK t \in Tables :
            Commit([o \in Objects |-> IF o \in Live({t} \union Parts(t)) THEN tx + 1 ELSE kernel[o]])
    BY <1>8 DEF Reload, Live
  <2> DEFINE content ==
                 [o \in Objects |-> IF o \in Live({t} \union Parts(t)) THEN tx + 1 ELSE kernel[o]]
  <2>2. tx < MaxTx
    BY <2>1 DEF Commit
  <2>3. content \in [Objects -> Versions]
    BY <1>1, <1>2, <2>2
  <2>4. Nested(content)
    BY <1>1, <1>2, <1>3, <2>1, <2>2 DEF Nested, Parts, Live
  <2> QED
    BY <2>1, <2>3, <2>4, CommitKeepsKernel
<1> QED
  BY <1>4, <1>5, <1>6, <1>7, <1>8 DEF Host

\* What was seen stays seen when the host moves on.
LEMMA HostKeepsReadInv ==
    ASSUME ReadInv, Host
    PROVE  ReadInv'
<1>1. KernelInv' /\ \A o \in Objects : had[o] \subseteq had'[o]
  BY HostKeepsKernel DEF ReadInv
<1>2. UNCHANGED <<pc, devices, payloads, todo, left, cache, ft, rs, readFailed, warned>>
  BY DEF Host, AddTable, Write, Delete, DeleteTable, Reload, Commit, result
<1>3. Chains \subseteq Objects /\ Sets \subseteq Objects
  BY DEF Objects
<1>4. Table' = Table /\ Family' = Family /\ ReadChains' = ReadChains /\ ReadSets' = ReadSets
  BY <1>2 DEF Table, Family, ReadChains, ReadSets
<1>5. Dumped(devices)' /\ Dumped(payloads)'
  BY <1>1, <1>2, <1>3 DEF ReadInv, Dumped
<1>6. LoopInv'
  BY <1>2, <1>4 DEF ReadInv, LoopInv
<1>7. ASSUME NEW f \in Families
      PROVE  Lists(f, cache[f])'
  <2>1. Lists(f, cache[f])
    BY DEF ReadInv, ListingInv
  <2>2. FamilyChains(f) \subseteq Objects
    BY <1>3 DEF FamilyChains
  <2> QED
    BY <1>1, <1>2, <2>1, <2>2 DEF Lists
<1>8. ListingInv'
  BY <1>2, <1>7 DEF ReadInv, ListingInv
<1>9. ASSUME NEW t, TableSeen(t)
      PROVE  TableSeen(t)'
  <2>1. \A c \in DOMAIN t.chains : Seen(c, t.chains[c])'
    BY <1>1, <1>3, <1>9 DEF TableSeen, Seen
  <2>2. \A x \in DOMAIN t.sets : t.sets[x] \in had'[x]
    BY <1>1, <1>3, <1>9 DEF TableSeen
  <2> QED
    BY <1>9, <2>1, <2>2 DEF TableSeen
<1>10. DocumentInv'
  <2>1. TableSeen(ft)' /\ \A t \in DOMAIN rs : TableSeen(rs[t])'
    BY <1>2, <1>9 DEF ReadInv, DocumentInv, TableSeen, Seen
  <2> QED
    BY <1>2, <2>1 DEF ReadInv, DocumentInv
<1>11. MissingInv'
  <2>1. \A o \in Chains \union Sets : Absent \notin had'[o] => Absent \notin had[o]
    BY <1>1, <1>3
  <2>2. \A o \in Chains \union Sets :
            ToldOf(o)' = ToldOf(o) /\ StillToCome(o)' = StillToCome(o)
    BY <1>2, <1>4 DEF ToldOf, StillToCome, InThisTable
  <2> QED
    BY <1>4, <2>1, <2>2 DEF ReadInv, MissingInv
<1> QED
  BY <1>1, <1>5, <1>6, <1>8, <1>10, <1>11 DEF ReadInv

(***************************************************************************)
(* The reader's steps.                                                     *)
(***************************************************************************)
LEMMA ReaderLeavesTheHost ==
    ASSUME Reader
    PROVE  UNCHANGED <<kernel, had, tx>>
BY DEF Reader, OpenFails, ChainDevices, RulePayloads, ListTables, ListTablesFails, SkipTable,
       GetSets, GetSetsFails, GetSetElements, GetSetElementsFails, SetsRead, ListChains,
       ChainsUnlisted, ChainsListed, GetRules, GetRulesFails, TableRead, host

\* The table after this one, or the end.
LEMMA NextTableTurns ==
    ASSUME LoopInv, todo # <<>>, NextTable
    PROVE  /\ todo' \in Seq(Tables) /\ IsInjective(todo)' /\ todo' = Tail(todo)
           /\ Table \in Tables /\ ToSet(todo') \subseteq ToSet(todo) \ {Table}
           /\ ToSet(todo) = {Table} \union ToSet(todo')
           /\ (pc' = "done" /\ todo' = <<>>)
              \/ (pc' = "sets" /\ todo' # <<>> /\ ToSet(todo') = {Table'} \union ToSet(Tail(todo')))
<1>1. /\ Tail(todo) \in Seq(Tables) /\ IsInjective(Tail(todo))
      /\ Table \in Tables /\ Table \notin ToSet(Tail(todo))
      /\ ToSet(todo) = {Table} \union ToSet(Tail(todo))
      /\ (Len(todo) = 1 <=> Tail(todo) = <<>>)
  BY HeadAndTail DEF LoopInv, Table
<1>2. todo' = Tail(todo) /\ pc' = IF Len(todo) = 1 THEN "done" ELSE "sets"
  BY DEF NextTable
<1>3. Tail(todo) # <<>> =>
          ToSet(Tail(todo)) = {Head(Tail(todo))} \union ToSet(Tail(Tail(todo)))
  BY <1>1, HeadAndTail
<1> QED
  BY <1>1, <1>2, <1>3 DEF Table

LEMMA ReaderKeepsLoop ==
    ASSUME ReadInv, Reader
    PROVE  LoopInv'
<1>1. LoopInv
  BY DEF ReadInv
<1> USE <1>1 DEF Reading, Calls
<1>2. /\ Parts(Table)' = Parts(Table') /\ \A t \in Tables : t \in Objects
      /\ \A o \in Chains \union Sets : o \in Objects
  BY DEF Parts, Objects
<1>3. pc \in Reading => Table \in Tables
  BY HeadAndTail DEF LoopInv, Table
<1>4. CASE OpenFails
  BY <1>4 DEF OpenFails, Refuse, LoopInv
<1>5. CASE ChainDevices \/ RulePayloads
  BY <1>5 DEF ChainDevices, RulePayloads, LoopInv
<1>6. CASE ListTables
  <2>1. todo' \in Seq(Tables) /\ IsInjective(todo')
    BY <1>6, ListedTables DEF ListTables, Live
  <2> QED
    BY <1>6, <2>1 DEF ListTables, Fine, LoopInv
<1>7. CASE ListTablesFails
  BY <1>7 DEF ListTablesFails, Refuse, LoopInv
<1>8. CASE SkipTable \/ ChainsUnlisted \/ TableRead
  <2>1. todo # <<>> /\ NextTable /\ left = {} /\ UNCHANGED left
    BY <1>8 DEF SkipTable, ChainsUnlisted, TableRead, LoopInv, result
  <2>2. /\ todo' \in Seq(Tables) /\ IsInjective(todo)'
        /\ (pc' = "done" /\ todo' = <<>>) \/ (pc' = "sets" /\ todo' # <<>>)
    BY <2>1, NextTableTurns
  <2>3. /\ readFailed' \in BOOLEAN
        /\ warned' \subseteq Objects \union {"devices", "payloads", "ruleset"}
    BY <1>2, <1>3, <1>8 DEF SkipTable, ChainsUnlisted, TableRead, Refuse, LoopInv, result
  <2> QED
    BY <2>1, <2>2, <2>3 DEF LoopInv
<1>9. CASE GetSets
  <2>1. left' \subseteq Parts(Table)' \intersect Sets
    BY <1>2, <1>9 DEF GetSets, Live, Table
  <2> QED
    BY <1>9, <2>1 DEF GetSets, Fine, LoopInv
<1>10. CASE GetSetsFails
  BY <1>2, <1>3, <1>10 DEF GetSetsFails, Refuse, LoopInv
<1>11. CASE GetSetElements
  BY <1>2, <1>11 DEF GetSetElements, Fine, LoopInv, Table
<1>12. CASE GetSetElementsFails
  BY <1>2, <1>12 DEF GetSetElementsFails, Refuse, LoopInv, Table
<1>13. CASE SetsRead
  BY <1>13 DEF SetsRead, LoopInv, result
<1>14. CASE ListChains
  BY <1>14 DEF ListChains, LoopInv
<1>15. CASE ChainsListed
  <2>1. /\ left' = {c \in DOMAIN cache[Family].chains : TableOf[c] = Table}
        /\ cache' = cache /\ Family' = Family /\ Table' = Table /\ pc = "chains"
    BY <1>15 DEF ChainsListed, Family, Table
  <2>2. Family \in Families
    BY <1>3, <2>1 DEF Family, Families
  <2>3. DOMAIN cache[Family].chains \subseteq Chains
    BY <2>2 DEF ReadInv, ListingInv, Lists, FamilyChains
  <2>4. left' \subseteq Parts(Table)' \intersect (DOMAIN cache[Family].chains)'
    BY <1>2, <2>1, <2>3 DEF Parts
  <2> QED
    BY <1>15, <2>4 DEF ChainsListed, LoopInv, result
<1>16. CASE GetRules
  BY <1>2, <1>16 DEF GetRules, Fine, LoopInv, Table, Family
<1>17. CASE GetRulesFails
  BY <1>2, <1>17 DEF GetRulesFails, Refuse, LoopInv, Table, Family, Parts
<1> QED
  BY <1>4, <1>5, <1>6, <1>7, <1>8, <1>9, <1>10, <1>11, <1>12, <1>13, <1>14, <1>15, <1>16, <1>17
  DEF Reader

LEMMA ReaderKeepsDumps ==
    ASSUME ReadInv, Reader
    PROVE  Dumped(devices)' /\ Dumped(payloads)'
<1>1. UNCHANGED <<kernel, had>>
  BY ReaderLeavesTheHost
<1>2. Dumped(devices) /\ Dumped(payloads)
  BY DEF ReadInv
<1>3. \A c \in Chains : kernel[c] \in Versions /\ kernel[c] \in had[c]
  BY DEF ReadInv, KernelInv, Objects
<1>4. devices' = devices \/ devices' = Chained(kernel)
  BY DEF Reader, OpenFails, ChainDevices, RulePayloads, ListTables, ListTablesFails, SkipTable,
         GetSets, GetSetsFails, GetSetElements, GetSetElementsFails, SetsRead, ListChains,
         ChainsUnlisted, ChainsListed, GetRules, GetRulesFails, TableRead
<1>5. payloads' = payloads \/ payloads' = Chained(kernel)
  BY DEF Reader, OpenFails, ChainDevices, RulePayloads, ListTables, ListTablesFails, SkipTable,
         GetSets, GetSetsFails, GetSetElements, GetSetElementsFails, SetsRead, ListChains,
         ChainsUnlisted, ChainsListed, GetRules, GetRulesFails, TableRead
<1>6. Dumped(Chained(kernel))
  BY <1>3 DEF Dumped, Chained
<1> QED
  BY <1>1, <1>2, <1>4, <1>5, <1>6 DEF Dumped

LEMMA ReaderKeepsListings ==
    ASSUME ReadInv, Reader
    PROVE  ListingInv'
<1>1. UNCHANGED <<kernel, had>>
  BY ReaderLeavesTheHost
<1>2. CASE ListChains
  <2> SUFFICES ASSUME NEW f \in Families
               PROVE  Lists(f, cache'[f])
    BY <1>1, <1>2 DEF ReadInv, ListChains, ListingInv, Lists
  <2> DEFINE listing == [state |-> "listed", chains |-> [c \in Live(OfFamily) |-> kernel[c]]]
  <2>1. Lists(f, cache[f])
    BY DEF ReadInv, ListingInv
  <2>2. \/ cache'[f] = cache[f]
        \/ f = Family /\ cache'[f] = Failed
        \/ f = Family /\ cache'[f] = listing
    <3>1. \/ cache' = [cache EXCEPT ![Family] = listing]
          \/ cache' = [cache EXCEPT ![Family] = Failed]
      BY <1>2 DEF ListChains
    <3>2. DOMAIN cache = Families
      BY DEF ReadInv, ListingInv
    <3> HIDE DEF listing
    <3> QED
      BY <3>1, <3>2
  <2>3. Lists(f, Failed)
    BY DEF Lists, Failed, Nothing
  <2>4. ASSUME f = Family
        PROVE  Lists(f, listing)
    <3>1. \A c \in Chains : kernel[c] \in had[c]
      BY DEF ReadInv, KernelInv, Objects
    <3>2. OfFamily = FamilyChains(f)
      BY <2>4 DEF OfFamily, FamilyChains
    <3> QED
      BY <3>1, <3>2 DEF Lists, Live, FamilyChains
  <2> QED
    BY <2>1, <2>2, <2>3, <2>4
<1>3. CASE ~ListChains
  <2>1. cache' = cache
    BY <1>3 DEF Reader, OpenFails, ChainDevices, RulePayloads, ListTables, ListTablesFails,
           SkipTable, GetSets, GetSetsFails, GetSetElements, GetSetElementsFails, SetsRead,
           ChainsUnlisted, ChainsListed, GetRules, GetRulesFails, TableRead
  <2> QED
    BY <1>1, <2>1 DEF ReadInv, ListingInv, Lists
<1> QED
  BY <1>2, <1>3

\* A chain put together from the four reads.
LEMMA ChainIsSeen ==
    ASSUME ReadInv, pc = "rules", NEW c \in left
    PROVE  c \in Chains /\ Seen(c, ChainFacts(c))
<1>1. c \in DOMAIN cache[Family].chains /\ Table \in Tables
  BY HeadAndTail DEF ReadInv, LoopInv, Reading, Table
<1>2. Family \in Families
  BY <1>1 DEF Family, Families
<1>3. cache[Family].chains[c] \in had[c] /\ c \in Chains
  BY <1>1, <1>2 DEF ReadInv, ListingInv, Lists, FamilyChains
<1>4. kernel[c] \in had[c]
  BY <1>3 DEF ReadInv, KernelInv, Objects
<1>5. devices[c] \in had[c] \union {Absent} /\ payloads[c] \in had[c] \union {Absent}
  BY <1>3 DEF ReadInv, Dumped
<1> QED
  BY <1>3, <1>4, <1>5 DEF Seen, ChainFacts

LEMMA ReaderKeepsDocument ==
    ASSUME ReadInv, Reader
    PROVE  DocumentInv'
<1> USE DEF Reading
<1>1. UNCHANGED <<kernel, had>>
  BY ReaderLeavesTheHost
<1>2. LoopInv /\ DocumentInv
  BY DEF ReadInv
<1>3. ASSUME NEW t, TableSeen(t)
      PROVE  TableSeen(t)'
  BY <1>1, <1>3 DEF TableSeen, Seen
<1>4. TableSeen(ft)
  BY <1>2 DEF DocumentInv
<1>5. DOMAIN EmptyTable = {"sets", "chains"} /\ TableSeen(EmptyTable)
  BY DEF EmptyTable, Nothing, TableSeen
<1>6. CASE UNCHANGED <<ft, rs, todo>> /\ pc' \notin {"devices", "payloads", "tables"}
  BY <1>2, <1>3, <1>6 DEF DocumentInv, TableSeen, Seen
<1>7. CASE ChainDevices \/ RulePayloads
  <2>1. pc \in {"devices", "payloads", "tables"} /\ UNCHANGED <<ft, rs, todo>>
    BY <1>7 DEF ChainDevices, RulePayloads
  <2> QED
    BY <1>1, <1>2, <2>1 DEF DocumentInv, TableSeen, Seen
<1>8. CASE ListTables
  <2>1. DOMAIN rs = {} /\ UNCHANGED <<ft, rs>>
    BY <1>2, <1>8 DEF ListTables, DocumentInv
  <2> QED
    BY <1>1, <1>2, <2>1 DEF DocumentInv, TableSeen, Seen
<1>9. CASE SkipTable \/ ChainsUnlisted
  <2>1. todo # <<>> /\ NextTable /\ UNCHANGED <<ft, rs>>
    BY <1>2, <1>9 DEF SkipTable, ChainsUnlisted, LoopInv, result
  <2>2. ToSet(todo') \subseteq ToSet(todo) /\ pc' \in {"done", "sets"}
    BY <1>2, <2>1, NextTableTurns
  <2> QED
    BY <1>1, <1>2, <2>1, <2>2 DEF DocumentInv, TableSeen, Seen
<1>10. CASE GetSets \/ GetSetsFails
  <2>1. ft' = EmptyTable /\ pc' = "elements" /\ UNCHANGED <<rs, todo>>
    BY <1>10 DEF GetSets, GetSetsFails
  <2> QED
    BY <1>1, <1>2, <1>5, <2>1 DEF DocumentInv, TableSeen, Seen
<1>11. CASE GetSetElements
  <2>1. PICK s \in left : /\ ft' = [ft EXCEPT !.sets = Adding(ft.sets, s, kernel[s])]
                          /\ pc = "elements" /\ UNCHANGED <<pc, rs, todo>>
    BY <1>11 DEF GetSetElements
  <2>2. s \in Sets /\ kernel[s] \in had[s]
    BY <1>2, <2>1 DEF LoopInv, ReadInv, KernelInv, Objects
  <2>3. DOMAIN ft' = {"sets", "chains"} /\ ft'.sets = Adding(ft.sets, s, kernel[s])
        /\ ft'.chains = ft.chains
    BY <1>2, <2>1 DEF DocumentInv
  <2>4. TableSeen(ft')
    BY <1>4, <2>2, <2>3 DEF TableSeen, Adding
  <2> QED
    BY <1>1, <1>2, <2>1, <2>3, <2>4 DEF DocumentInv, TableSeen, Seen
<1>12. CASE GetRules
  <2>1. PICK c \in left : /\ ft' = [ft EXCEPT !.chains = Adding(ft.chains, c, ChainFacts(c))]
                          /\ pc = "rules" /\ UNCHANGED <<pc, rs, todo>>
    BY <1>12 DEF GetRules
  <2>2. c \in Chains /\ Seen(c, ChainFacts(c))
    BY <2>1, ChainIsSeen
  <2>3. DOMAIN ft' = {"sets", "chains"} /\ ft'.chains = Adding(ft.chains, c, ChainFacts(c))
        /\ ft'.sets = ft.sets
    BY <1>2, <2>1 DEF DocumentInv
  <2>4. TableSeen(ft')
    BY <1>4, <2>2, <2>3 DEF TableSeen, Adding
  <2> QED
    BY <1>1, <1>2, <2>1, <2>3, <2>4 DEF DocumentInv, TableSeen, Seen
<1>13. CASE TableRead
  <2>1. todo # <<>> /\ NextTable /\ rs' = Adding(rs, Table, ft) /\ ft' = ft
    BY <1>2, <1>13 DEF TableRead, LoopInv
  <2>2. /\ Table \in Tables /\ ToSet(todo') \subseteq ToSet(todo) \ {Table}
        /\ pc' \in {"done", "sets"}
    BY <1>2, <2>1, NextTableTurns
  <2>3. DOMAIN rs' \subseteq Tables \ ToSet(todo')
    BY <1>2, <2>1, <2>2 DEF DocumentInv, Adding
  <2>4. \A t \in DOMAIN rs' : rs'[t] = ft \/ (t \in DOMAIN rs /\ rs'[t] = rs[t])
    BY <2>1 DEF Adding
  <2>5. \A t \in DOMAIN rs' : TableSeen(rs'[t])
    BY <1>2, <1>4, <2>4 DEF DocumentInv
  <2> QED
    BY <1>1, <1>2, <2>1, <2>2, <2>3, <2>5 DEF DocumentInv, TableSeen, Seen
<1>14. OpenFails \/ ListTablesFails \/ GetSetElementsFails \/ SetsRead \/ ListChains
          \/ ChainsListed \/ GetRulesFails
          => UNCHANGED <<ft, rs, todo>> /\ pc' \notin {"devices", "payloads", "tables"}
  BY DEF OpenFails, ListTablesFails, GetSetElementsFails, SetsRead, ListChains, ChainsListed,
         GetRulesFails, result
<1> QED
  BY <1>6, <1>7, <1>8, <1>9, <1>10, <1>11, <1>12, <1>13, <1>14 DEF Reader

\* What is in the document or told of stays so.
LEMMA ReadAndToldStay ==
    ASSUME ReadInv, Reader
    PROVE  /\ ReadChains \subseteq ReadChains' /\ ReadSets \subseteq ReadSets'
           /\ \A o : ToldOf(o) => ToldOf(o)'
<1>1. rs' = rs \/ rs' = Adding(rs, Table, ft)
  BY DEF Reader, OpenFails, ChainDevices, RulePayloads, ListTables, ListTablesFails, SkipTable,
         GetSets, GetSetsFails, GetSetElements, GetSetElementsFails, SetsRead, ListChains,
         ChainsUnlisted, ChainsListed, GetRules, GetRulesFails, TableRead, result
<1>2. DOMAIN rs \subseteq DOMAIN rs' /\ \A t \in DOMAIN rs : rs'[t] = rs[t]
  BY <1>1 DEF Adding
<1>3. warned \subseteq warned' /\ (readFailed => readFailed')
  BY DEF Reader, OpenFails, ChainDevices, RulePayloads, ListTables, ListTablesFails, SkipTable,
         GetSets, GetSetsFails, GetSetElements, GetSetElementsFails, SetsRead, ListChains,
         ChainsUnlisted, ChainsListed, GetRules, GetRulesFails, TableRead, result, Refuse, Fine
<1> QED
  BY <1>2, <1>3 DEF ReadChains, ReadSets, ToldOf

LEMMA ReaderKeepsMissing ==
    ASSUME ReadInv, Reader
    PROVE  MissingInv'
<1> USE DEF Reading
<1>1. UNCHANGED <<kernel, had>>
  BY ReaderLeavesTheHost
<1>2. LoopInv /\ DocumentInv /\ ListingInv /\ KernelInv
  BY DEF ReadInv
<1> SUFFICES ASSUME NEW o \in Chains \union Sets, FamilyOf[TableOf[o]] \in Walked,
                    Absent \notin had[o], StillToCome(o)
             PROVE  o \in ReadChains' \union ReadSets' \/ ToldOf(o)' \/ StillToCome(o)'
  BY <1>1, ReadAndToldStay DEF ReadInv, MissingInv
<1>3. kernel[o] # Absent /\ kernel[TableOf[o]] # Absent /\ TableOf[o] \in Tables
  BY <1>2, IdentitiesAssumption DEF KernelInv, Objects
<1>4. CASE OpenFails \/ ListTablesFails
  BY <1>4 DEF OpenFails, ListTablesFails, Refuse, ToldOf
<1>5. CASE ChainDevices \/ RulePayloads
  BY <1>5 DEF ChainDevices, RulePayloads, StillToCome
<1>6. CASE ListTables
  <2>1. /\ todo' \in Seq(Tables) /\ IsInjective(todo') /\ ToSet(todo') = Live(Tables)
        /\ pc' = IF todo' = <<>> THEN "done" ELSE "sets"
    BY <1>6, ListedTables DEF ListTables, Live
  <2>2. TableOf[o] \in ToSet(todo')
    BY <1>3, <2>1 DEF Live
  <2>3. todo' # <<>>
    BY <2>2 DEF ToSet
  <2>4. ToSet(todo') = {Table'} \union ToSet(Tail(todo'))
    BY <2>1, <2>3, HeadAndTail DEF Table
  <2> QED
    BY <2>1, <2>2, <2>3, <2>4 DEF StillToCome, InThisTable
<1>7. ASSUME pc \in Reading
      PROVE  todo # <<>> /\ (TableOf[o] \in ToSet(Tail(todo)) \/ (TableOf[o] = Table /\ InThisTable(o)))
  BY <1>2, <1>7 DEF LoopInv, StillToCome
<1>8. ASSUME NextTable, pc \in Reading, TableOf[o] \in ToSet(Tail(todo))
      PROVE  StillToCome(o)'
  <2>1. todo' = Tail(todo) /\ ((pc' = "done" /\ todo' = <<>>)
            \/ (pc' = "sets" /\ ToSet(todo') = {Table'} \union ToSet(Tail(todo'))))
    BY <1>2, <1>7, <1>8, NextTableTurns
  <2>2. todo' # <<>>
    BY <1>8, <2>1 DEF ToSet
  <2> QED
    BY <1>8, <2>1, <2>2 DEF StillToCome, InThisTable
<1>9. ASSUME pc \in Reading, pc' \in Reading, todo' = todo,
             TableOf[o] \in ToSet(Tail(todo)) \/ InThisTable(o)'
      PROVE  StillToCome(o)'
  BY <1>7, <1>9 DEF StillToCome, Table
<1>10. CASE SkipTable
  <2>1. TableOf[o] # Table /\ NextTable /\ pc \in Reading
    BY <1>10 DEF SkipTable, Family
  <2> QED
    BY <1>7, <1>8, <2>1
<1>11. CASE GetSets
  <2>1. pc \in Reading /\ pc' = "elements" /\ todo' = todo /\ left' = Live(Parts(Table) \intersect Sets)
    BY <1>11 DEF GetSets
  <2>2. TableOf[o] = Table => o \in Chains \/ o \in left'
    BY <1>3, <2>1 DEF Live, Parts
  <2>3. TableOf[o] = Table => InThisTable(o)'
    BY <2>1, <2>2 DEF InThisTable
  <2> QED
    BY <1>7, <1>9, <2>1, <2>3
<1>12. CASE GetSetsFails
  <2>1. pc \in Reading /\ pc' \in Reading /\ todo' = todo
    BY <1>12 DEF GetSetsFails
  <2>2. TableOf[o] = Table => ToldOf(o)'
    BY <1>12 DEF GetSetsFails, Refuse, ToldOf
  <2> QED
    BY <1>7, <1>9, <2>1, <2>2
<1>13. CASE GetSetElements
  <2>1. PICK s \in left : /\ ft' = [ft EXCEPT !.sets = Adding(ft.sets, s, kernel[s])]
                          /\ left' = left \ {s} /\ pc = "elements" /\ UNCHANGED <<pc, todo>>
    BY <1>13 DEF GetSetElements
  <2>2. DOMAIN ft'.sets = DOMAIN ft.sets \union {s} /\ ft'.chains = ft.chains
    BY <1>2, <2>1 DEF DocumentInv, Adding
  <2>3. InThisTable(o) => InThisTable(o)'
    BY <2>1, <2>2 DEF InThisTable
  <2> QED
    BY <1>7, <1>9, <2>1, <2>3
<1>14. CASE GetSetElementsFails \/ GetRulesFails
  <2>1. PICK x \in left : /\ left' = left \ {x} /\ readFailed' = TRUE /\ x \in warned'
                          /\ pc \in {"elements", "rules"} /\ UNCHANGED <<pc, todo, ft>>
    BY <1>14 DEF GetSetElementsFails, GetRulesFails, Refuse
  <2>2. o = x => ToldOf(o)'
    BY <2>1 DEF ToldOf
  <2>3. o # x /\ InThisTable(o) => InThisTable(o)'
    BY <2>1 DEF InThisTable
  <2> QED
    BY <1>7, <1>9, <2>1, <2>2, <2>3
<1>15. CASE SetsRead
  <2>1. pc = "elements" /\ pc' = "chains" /\ left = {} /\ UNCHANGED <<todo, ft>>
    BY <1>15 DEF SetsRead, result
  <2>2. InThisTable(o) => InThisTable(o)'
    BY <2>1 DEF InThisTable
  <2> QED
    BY <1>7, <1>9, <2>1, <2>2
<1>16. CASE ListChains
  <2>1. pc \in Reading /\ UNCHANGED <<pc, todo, ft, left>>
    BY <1>16 DEF ListChains
  <2>2. InThisTable(o) => InThisTable(o)'
    BY <2>1 DEF InThisTable
  <2> QED
    BY <1>7, <1>9, <2>1, <2>2
<1>17. CASE ChainsUnlisted
  <2>1. pc \in Reading /\ NextTable /\ (TableOf[o] = Table => ToldOf(o)')
    BY <1>17 DEF ChainsUnlisted, Refuse, ToldOf
  <2> QED
    BY <1>7, <1>8, <2>1
<1>18. CASE ChainsListed
  <2>1. /\ pc = "chains" /\ pc' = "rules" /\ cache[Family].state = "listed" /\ UNCHANGED <<todo, ft>>
        /\ left' = {c \in DOMAIN cache[Family].chains : TableOf[c] = Table}
    BY <1>18 DEF ChainsListed, result
  <2>2. ASSUME o \in Chains, TableOf[o] = Table
        PROVE  o \in left'
    <3>1. Family \in Families /\ o \in FamilyChains(Family)
      BY <1>3, <2>2 DEF Family, Families, FamilyChains
    <3>2. o \in DOMAIN cache[Family].chains
      BY <1>2, <2>1, <3>1 DEF ListingInv, Lists
    <3> QED
      BY <2>1, <2>2, <3>2
  <2>3. TableOf[o] = Table /\ InThisTable(o) => InThisTable(o)'
    BY <1>2, <2>1, <2>2 DEF InThisTable, LoopInv
  <2> QED
    BY <1>7, <1>9, <2>1, <2>3
<1>19. CASE GetRules
  <2>1. PICK c \in left : /\ ft' = [ft EXCEPT !.chains = Adding(ft.chains, c, ChainFacts(c))]
                          /\ left' = left \ {c} /\ pc = "rules" /\ UNCHANGED <<pc, todo>>
    BY <1>19 DEF GetRules
  <2>2. DOMAIN ft'.chains = DOMAIN ft.chains \union {c} /\ ft'.sets = ft.sets /\ c \in Chains
    BY <1>2, <2>1, ChainIsSeen DEF DocumentInv, Adding
  <2>3. InThisTable(o) => InThisTable(o)'
    BY <2>1, <2>2 DEF InThisTable
  <2> QED
    BY <1>7, <1>9, <2>1, <2>3
<1>20. CASE TableRead
  <2>1. pc = "rules" /\ left = {} /\ NextTable /\ rs' = Adding(rs, Table, ft)
    BY <1>20 DEF TableRead
  <2>2. Table \in Tables /\ Table \in ToSet(todo)
    BY <1>2, <1>7, <2>1, NextTableTurns
  <2>3. Table \in DOMAIN rs' /\ rs'[Table] = ft
    BY <1>2, <2>1, <2>2 DEF DocumentInv, Adding
  <2>4. InThisTable(o) => o \in DOMAIN ft.sets \union DOMAIN ft.chains
    BY <2>1 DEF InThisTable
  <2>5. InThisTable(o) => o \in ReadChains' \union ReadSets'
    BY <2>3, <2>4 DEF ReadChains, ReadSets
  <2> QED
    BY <1>7, <1>8, <2>1, <2>5
<1> QED
  BY <1>4, <1>5, <1>6, <1>10, <1>11, <1>12, <1>13, <1>14, <1>15, <1>16, <1>17, <1>18, <1>19, <1>20
  DEF Reader

LEMMA ReadInvIsInductive == Spec => []ReadInv
<1>1. ASSUME Init
      PROVE  ReadInv
  <2>1. KernelInv
    BY <1>1, IdentitiesAssumption DEF Init, KernelInv, Versions, Absent, Objects
  <2>2. Dumped(devices) /\ Dumped(payloads)
    BY <1>1, IdentitiesAssumption DEF Init, Dumped, Versions, Absent
  <2>3. LoopInv
    <3>1. todo = <<>> /\ pc = "devices" /\ left = {} /\ readFailed = FALSE /\ warned = {}
      BY <1>1 DEF Init
    <3>2. todo \in Seq(Tables) /\ IsInjective(todo)
      BY <3>1 DEF IsInjective
    <3> QED
      BY <3>1, <3>2 DEF LoopInv, Calls, Reading
  <2>4. ListingInv
    BY <1>1 DEF Init, ListingInv, Lists, Unlisted, Nothing
  <2>5. DocumentInv
    BY <1>1 DEF Init, DocumentInv, EmptyTable, Nothing, TableSeen
  <2>6. MissingInv
    BY <1>1 DEF Init, MissingInv, StillToCome
  <2> QED
    BY <2>1, <2>2, <2>3, <2>4, <2>5, <2>6 DEF ReadInv
<1>2. ASSUME ReadInv, Reader
      PROVE  ReadInv'
  <2>1. KernelInv'
    BY <1>2, ReaderLeavesTheHost DEF ReadInv, KernelInv
  <2> QED
    BY <1>2, <2>1, ReaderKeepsDumps, ReaderKeepsLoop, ReaderKeepsListings, ReaderKeepsDocument,
       ReaderKeepsMissing DEF ReadInv
<1>3. ASSUME ReadInv, UNCHANGED vars
      PROVE  ReadInv'
  <2>1. UNCHANGED <<kernel, had, tx, pc, devices, payloads, todo, left, cache, ft, rs, readFailed, warned>>
    BY <1>3 DEF vars, host, result
  <2> QED
    BY <1>3, <2>1 DEF ReadInv, KernelInv, Dumped, LoopInv, Table, Family, ListingInv, Lists,
       DocumentInv, TableSeen, Seen, MissingInv, ReadChains, ReadSets, ToldOf, StillToCome, InThisTable
<1> QED
  BY <1>1, <1>2, <1>3, HostKeepsReadInv, PTL DEF Spec, Next

\* The states of a read are those TypeOK describes, for any ruleset and any
\* number of transactions (ruleset.go:30-130).
THEOREM ReadTypes == Spec => []TypeOK
<1>1. ASSUME ReadInv
      PROVE  TypeOK
  <2>1. /\ kernel \in [Objects -> Versions] /\ tx \in 0 .. MaxTx
        /\ \A o \in Objects : kernel[o] \in had[o] /\ had[o] \subseteq Versions
    BY <1>1 DEF ReadInv, KernelInv
  <2>2. /\ pc \in Calls /\ IsInjective(todo) /\ ToSet(todo) \subseteq Tables
        /\ (todo # <<>> => left \subseteq Parts(Table))
        /\ readFailed \in BOOLEAN /\ warned \subseteq Objects \union {"devices", "payloads", "ruleset"}
    BY <1>1, ToSetIsFinite DEF ReadInv, LoopInv
  <2>3. ReadSets \subseteq Sets /\ ReadChains \subseteq Chains /\ DOMAIN rs \subseteq Tables \ ToSet(todo)
    BY <1>1 DEF ReadInv, DocumentInv, TableSeen, ReadSets, ReadChains
  <2>4. devices \in [Chains -> Versions] /\ payloads \in [Chains -> Versions]
    BY <1>1 DEF ReadInv, Dumped
  <2>5. \A f \in Families : cache[f].state \in {"unlisted", "failed", "listed"}
    BY <1>1 DEF ReadInv, ListingInv, Lists
  <2> QED
    BY <2>1, <2>2, <2>3, <2>4, <2>5 DEF TypeOK, Calls
<1> QED
  BY <1>1, ReadInvIsInductive, PTL

\* A chain or set that was there throughout and is not in a finished document
\* was told of, and the verdicts are blind (ruleset.go:50-57).
THEOREM NothingIsLostSilently == Spec => []NothingMissingSilently
<1>1. ReadInv => NothingMissingSilently
  BY DEF ReadInv, MissingInv, NothingMissingSilently, ToldOf, StillToCome, Reading
<1> QED
  BY <1>1, ReadInvIsInductive, PTL

\* An object that had one content throughout the read is in the document with
\* that content or not at all (ruleset.go:99-129).
THEOREM UntouchedIsAsItWas == Spec => []UntouchedIsExact
<1>1. ASSUME ReadInv
      PROVE  UntouchedIsExact
  <2> SUFFICES ASSUME NEW t \in DOMAIN rs
               PROVE  /\ \A s \in DOMAIN rs[t].sets :
                             Cardinality(had[s]) = 1 => had[s] = {rs[t].sets[s]}
                      /\ \A c \in DOMAIN rs[t].chains : \A v \in Versions : had[c] = {v} =>
                             LET read == rs[t].chains[c] IN
                             /\ read.header = v /\ read.rules = v
                             /\ read.devices \in {v, Absent} /\ read.payloads \in {v, Absent}
    BY DEF UntouchedIsExact
  <2>1. TableSeen(rs[t])
    BY <1>1 DEF ReadInv, DocumentInv
  <2>2. ASSUME NEW s \in DOMAIN rs[t].sets, Cardinality(had[s]) = 1
        PROVE  had[s] = {rs[t].sets[s]}
    <3>1. s \in Sets /\ rs[t].sets[s] \in had[s] /\ had[s] \subseteq Versions
      BY <1>1, <2>1 DEF ReadInv, KernelInv, TableSeen, Objects
    <3>2. IsFiniteSet(had[s])
      <4>1. Absent \in Int /\ MaxTx \in Int
        BY IdentitiesAssumption DEF Absent
      <4>2. IsFiniteSet(Versions)
        BY <4>1, FS_Interval DEF Versions
      <4> QED
        BY <3>1, <4>2, FS_Subset
    <3>3. \E x : had[s] = {x}
      BY <2>2, <3>2, FS_Singleton
    <3> QED
      BY <3>1, <3>3
  <2>3. ASSUME NEW c \in DOMAIN rs[t].chains, NEW v \in Versions, had[c] = {v}
        PROVE  /\ rs[t].chains[c].header = v /\ rs[t].chains[c].rules = v
               /\ rs[t].chains[c].devices \in {v, Absent} /\ rs[t].chains[c].payloads \in {v, Absent}
    BY <2>1, <2>3 DEF TableSeen, Seen
  <2> QED
    BY <2>2, <2>3
<1> QED
  BY <1>1, ReadInvIsInductive, PTL

\* Within a snapshot, whatever the other collectors do, the same holds of the
\* ruleset part of the document (collect.go:26-60).
THEOREM SnapshotLosesNothing == AllSpec => []NothingMissingSilently /\ []UntouchedIsExact
  BY SnapshotReadsTheRuleset, NothingIsLostSilently, UntouchedIsAsItWas, PTL
=============================================================================
