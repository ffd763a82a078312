----------------------------- MODULE PolicyFile -----------------------------
(***************************************************************************)
(* whyopen.yaml: how a policy is written and read back.                    *)
(* src/internal/policy/init.go (Marshal) and policy.go (Load).             *)
(*                                                                         *)
(* The file is a sequence of lines, each what its key and value say.  One  *)
(* that is cut off in the middle is a line no key or entry can be read     *)
(* from; a comment is a line too, and so is a cut comment.                 *)
(***************************************************************************)
EXTENDS Lists

Version  == 1
zoneName == "internet"
Protos   == {"tcp", "udp"}
PortNumbers == 1 .. 65535

Line(key, value) == [key |-> key, value |-> value]
Comment == Line("comment", "")
Broken  == Line("broken", "")
Entry(port, proto) == <<port, proto>>

NoPolicy == [allow |-> {}, failOnUnknown |-> FALSE, given |-> FALSE]
Refused  == [refused |-> TRUE]

\* sortEntries: by port, then by protocol.
EntryBefore(a, b) == a[1] < b[1] \/ (a[1] = b[1] /\ a[2] = "tcp" /\ b[2] = "udp")

\* Unresolved ports and rewrites that name no port become comments.
Marshal(p, unresolved, notes) ==
    <<Line("version", Version), Line("zones", zoneName)>>
        \o [i \in 1 .. Cardinality(p.allow) |->
               Line("allow", Ascending(p.allow, EntryBefore)[i])]
        \o (IF unresolved # {} THEN <<Comment>> ELSE <<>>)
        \o (IF notes THEN <<Comment>> ELSE <<>>)
        \o <<Line("fail_on_unknown", p.failOnUnknown)>>

\* What is on the disk when writing stops after n lines, or within line n + 1.  A
\* key whose value is cut off altogether says no more than the lines before it.
CutShort(lines, n) ==
    LET whole == SubSeq(lines, 1, n) IN
    {whole, Append(whole, IF lines[n + 1] = Comment THEN Comment ELSE Broken)}

Values(lines, key) == {l.value : l \in {k \in ToSet(lines) : k.key = key}}

\* parseEntry: a port between 1 and 65535, and a protocol whyopen models.
ParsesEntry(e) == e[1] \in PortNumbers /\ e[2] \in Protos

\* yaml.Strict refuses any other key.
Known == {"version", "zones", "allow", "fail_on_unknown", "comment"}

Accepted(lines) ==
    /\ \A l \in ToSet(lines) : l.key \in Known
    /\ Values(lines, "version") = {Version}
    /\ Values(lines, "zones") \subseteq {zoneName}
    /\ \A e \in Values(lines, "allow") : ParsesEntry(e)

Load(lines) ==
    IF Accepted(lines)
    THEN [allow |-> Values(lines, "allow"),
          failOnUnknown |-> TRUE \in Values(lines, "fail_on_unknown"), given |-> TRUE]
    ELSE Refused
=============================================================================
