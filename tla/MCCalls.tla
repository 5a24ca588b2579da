------------------------------ MODULE MCCalls ------------------------------
(***************************************************************************)
(* Instances of Calls for TLC: every script of every manager, on a table   *)
(* of three rows in two parents.                                           *)
(***************************************************************************)
EXTENDS Managers, Calls

\* A script works on the row whose key the caller gives if a step for a given row comes
\* before any step that finds or creates one.
GivenRow == {"get", "get here", "put", "act", "delete", "wait"}
FoundRow == ByNameSteps \cup Listings \cup {"post", "peek any", "first", "last", "invalid"}
ByGivenKey(script) == \E i \in DOMAIN script : /\ script[i] \in GivenRow
                                               /\ \A j \in 1 .. i - 1 : script[j] \notin FoundRow

MCRow(n, p, b) == [name |-> n, of |-> p, busy |-> b, mine |-> FALSE, theirs |-> FALSE]
MCRows == <<MCRow("a", 1, FALSE), MCRow("b", 1, TRUE), MCRow("a", 2, FALSE)>>
MCParents == <<[name |-> "a", busy |-> FALSE], [name |-> "b", busy |-> TRUE]>>

\* One change by others, and two where a first look decides what is written later.
Looks == {"peek", "peek any", "peek parent", "find", "collect", "get parent"}
Others(script, n, p) ==
    IF Len(script) \in 2 .. 5 /\ n = "a" /\ p = "a" /\ Head(script) \in Looks THEN 2 ELSE 1
RequestOf(c, k, n, p, h) ==
    [within |-> c.within, script |-> c.script, key |-> k, name |-> n, parent |-> p, home |-> h,
     others |-> Others(c.script, n, p)]
UsesParentName(c) == \E i \in DOMAIN c.script : c.script[i] \in ParentReads \ {"get parent"}
ParentNames(c) == IF UsesParentName(c) THEN {"a", "c"} ELSE {"a"}
\* By key: the free row, the busy one, one of another parent and one that is not there
\* yet.  By name: one that two rows have and one that none has, in a parent that is there
\* and in one that is not.
KeyedRequests(calls) ==
    UNION {{RequestOf(c, k, "a", p, 1) : k \in 1 .. 4, p \in ParentNames(c)} : c \in calls}
NamedRequests(calls) ==
    UNION {{RequestOf(c, NoKey, n, p, 1) : n \in {"a", "c"}, p \in ParentNames(c)} : c \in calls}
UnscopedRequests == NamedRequests({c \in AllCalls : c.script = <<"resolve or ignore", "list">>})
MCRequests == LET keyed == {c \in AllCalls : ByGivenKey(c.script)}
              IN KeyedRequests(keyed) \cup NamedRequests(AllCalls \ keyed)

\* The creation of a virtual machine looks at its cloud-init files when the machine is
\* there; the update of a period looks whether it is of the manager's profile when it is saved.
MCLateChecks == VMCreate.create \cup {<<"validate", "put", "get here">>}
=============================================================================
