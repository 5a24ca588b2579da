------------------------------- MODULE Calls -------------------------------
(***************************************************************************)
(* One call of a manager's method while everybody else uses the same       *)
(* system.  The call runs its script (Scripts.tla) one step at a time; a   *)
(* step is one request, atomic on the server, or one test of the client.   *)
(* Between two steps other clients, and the system itself, create, delete, *)
(* rename and save rows and start and stop what they stand for.            *)
(*                                                                         *)
(* Any request may be refused; any write may be carried out and its answer *)
(* lost; an answer to a creation may have the whole row, its key only, no  *)
(* key or nothing.  A call that has ended does nothing more.               *)
(***************************************************************************)
EXTENDS Scripts, Integers, FiniteSets, Functions

CONSTANTS Requests,     \* the calls to explore: a script and what the caller names
          Names,        \* names of rows and of parents
          FirstRows,    \* the rows there are at first, by key,
          FirstParents, \* and the parents
          FirstNew,     \* the first key the server has not used
          LateChecks    \* scripts that look at an argument after their first write

NoKey == 0
Keys == Nat \ {NoKey}
\* mine: whether the call has changed the fields it sends; theirs: whether others have
\* saved fields it does not send.
Rows == [name : Names, of : Keys, busy : BOOLEAN, mine : BOOLEAN, theirs : BOOLEAN]
Parents == [name : Names, busy : BOOLEAN]
\* others: bound on the changes by others during the call.
AllRequests == [within : BOOLEAN, script : Seq(Steps) \ {<<>>}, key : {NoKey} \cup Keys,
                name : Names, parent : Names, home : Keys, others : Nat]

\* A table: what its rows are, by keys the server has given.
IsTable(table, new, S) == \A k \in DOMAIN table : k \in Keys /\ k < new /\ table[k] \in S

ASSUME FirstNewAssumption == FirstNew \in Keys
ASSUME RequestAssumption == Requests \subseteq AllRequests
ASSUME FirstAssumption == IsTable(FirstRows, FirstNew, Rows) /\ IsTable(FirstParents, FirstNew, Parents)

-----------------------------------------------------------------------------
(* The shape of the scripts.  The catalogue has it, and the theorems rest  *)
(* on it.                                                                  *)

ByNameSteps == {"peek", "find", "find created", "find if keyless", "find created if keyless"}
AnySteps == {"peek any", "first", "first if keyless", "last", "last if keyless"} \cup Listings
Searches == ByNameSteps \cup AnySteps
\* Steps at which a method may drop its place, and with it the filter.
Loose == {"resolve or ignore", "parent if known", "list loose"}

Places(c, steps) == {i \in 1 .. Len(c.script) : c.script[i] \in steps}
Uses(c, steps) == Places(c, steps) # {}

\* A method that was given a key searches for nothing; one that searches does so by name
\* or not, and only when it has settled in which place.
ASSUME SearchAssumption ==
    \A c \in Requests : Uses(c, Searches) =>
        /\ c.key = NoKey
        /\ ~Uses(c, ByNameSteps) \/ ~Uses(c, AnySteps)
        /\ ~Uses(c, {"peek parent", "follow"})
        /\ Uses(c, ParentReads) =>
               \A i \in Places(c, Searches) : \E j \in Places(c, ParentReads) : j < i

\* A method creates one row, and lists nothing when it has begun to delete.
ASSUME PostAssumption == \A c \in Requests : \A i, j \in Places(c, {"post"}) : i = j
ASSUME BulkAssumption ==
    \A c \in Requests : \A i \in Places(c, {"delete each"}), j \in Places(c, Listings) : j < i

\* What is checked was read before, and not read again between the check and a write.
SureReads == {"get", "get here", "peek", "peek any", "find", "first", "last", "find created", "wait"}
ASSUME CheckAssumption ==
    \A c \in Requests :
        /\ \A i \in Places(c, {"check"}) : \E j \in Places(c, SureReads) : j < i
        /\ \A i \in Places(c, {"check"}), w \in Places(c, Writes) : i < w =>
               \E j \in Places(c, {"check"}) : j < w /\ ~\E r \in Places(c, RowReads) : j < r /\ r < w
        /\ Uses(c, {"check parent"}) => ~Uses(c, {"follow", "parent if known"})
        /\ \A i \in Places(c, {"check parent"}), r \in Places(c, ParentReads) : r < i

\* After a creation the place stays, and the new row is searched for by its name, as the
\* newest or as the first there.
ASSUME CreateAssumption ==
    \A c \in Requests : \A i \in Places(c, {"post"}) :
        /\ ~Uses(c, Loose)
        /\ \A j \in Places(c, Searches) :
               i < j => c.script[j] \in ByNameSteps \cup {"first if keyless", "last if keyless"}
        /\ \A j \in Places(c, ParentReads \cup {"follow", "make parent"}) : j < i

\* What is created only if it is missing was looked for before, and since then the call has
\* done nothing but test and read other things.
Harmless == ArgumentTests \cup Asides \cup {"stop if found", "pause", "expand", "note"}
Lately(c, j, w) == j < w /\ \A r \in Places(c, Steps \ Harmless) : ~(j < r /\ r < w)
Finds == {"refuse found", "stop if found"}
ASSUME LookAssumption ==
    \A c \in Requests :
        /\ \A i \in Places(c, Finds), w \in Places(c, {"post"}) : i < w =>
               \E j \in Places(c, {"peek", "peek any"}), n \in Places(c, Finds) :
                   Lately(c, j, w) /\ j < n /\ n < w
        /\ \A w \in Places(c, {"make parent"}) :
               \E j \in Places(c, {"peek parent"}) : Lately(c, j, w)

\* An update ends with reading back what it has saved, or taking it from the answer.
ReadBack == {"get", "get here", "get unless answered", "note"}
ASSUME UpdateAssumption ==
    \A c \in Requests : \A i \in Places(c, {"put"}) :
        i < Len(c.script) /\ \A j \in i + 1 .. Len(c.script) : c.script[j] \in ReadBack

VARIABLES
    rows, parents, \* the server's tables
    next,    \* the next key it gives: none is used twice
    call,    \* the request being carried out
    at,      \* index of its next step
    verdict, \* how it ended
    key,     \* key of the row it works on
    ref,     \* key of the parent it works in, NoKey for all of them
    row,     \* its copy of the row
    batch, left, \* keys it has listed, and those it has yet to work on
    answer,  \* what came back from its last creation or change
    parentBusy, \* the state of the parent when it looked
    changes, \* changes by others so far
    done,    \* indices of the writes the server has carried out
    made,    \* key of the row it created
    touched, \* keys of the rows it has changed or deleted
    meant,   \* keys of the rows that were, at some time, what the caller named
    unscoped, \* whether the call has dropped the place it was to work in
    disturbed, \* whether others have changed something since its first write
    stale    \* which of its row and its parent others may have changed since it looked

server == <<rows, parents, next>>
locals == <<key, ref, row, batch, left, answer, parentBusy>>
ghosts == <<done, made, touched>>
vars == <<server, call, at, verdict, locals, changes, ghosts, meant, unscoped, disturbed, stale>>

Script == call.script
Live(k) == k \in DOMAIN rows
CopyOf(k, r) == [key |-> k, name |-> r.name, of |-> r.of, busy |-> r.busy,
                 mine |-> r.mine, theirs |-> r.theirs]
Nothing == [key |-> NoKey, name |-> call.name, of |-> NoKey, busy |-> FALSE,
            mine |-> FALSE, theirs |-> FALSE]

Has(steps) == Uses(call, steps)
HadBefore(steps) == \E i \in Places(call, steps) : i < at

-----------------------------------------------------------------------------
(* What the caller named: a row by its key, or the rows of a name, or all  *)
(* rows of a place.                                                        *)

Here(k) == ref = NoKey \/ rows[k].of = ref
NamedPlace(k) ==
    IF ref = NoKey /\ Has(ParentReads)
    THEN rows[k].of \in DOMAIN parents /\ parents[rows[k].of].name = call.parent
    ELSE Here(k)
IsNamed(k) == IF call.key # NoKey THEN k = call.key
              ELSE NamedPlace(k) /\ (Has(ByNameSteps) => rows[k].name = call.name)
Named == {k \in DOMAIN rows : IsNamed(k)}

Init == /\ rows = FirstRows /\ parents = FirstParents /\ next = FirstNew
        /\ call \in Requests
        /\ at = 1
        /\ verdict = "running"
        /\ key = call.key
        /\ ref = IF call.within THEN call.home ELSE NoKey
        /\ row = Nothing
        /\ batch = {} /\ left = {} /\ answer = "none"
        /\ parentBusy = (ref \in DOMAIN parents /\ parents[ref].busy)
        /\ changes = 0
        /\ done = {} /\ made = NoKey /\ touched = {}
        /\ meant = Named /\ unscoped = FALSE /\ disturbed = FALSE
        /\ stale = {}

-----------------------------------------------------------------------------
(* Where the call goes from a step.                                        *)

Running == verdict = "running"
Step == Script[at]
At(steps) == Running /\ at \in 1 .. Len(Script) /\ Step \in steps

GoOn == /\ at' = at + 1
        /\ verdict' = IF at = Len(Script) THEN "ok" ELSE "running"
End(how) == /\ verdict' = how
            /\ UNCHANGED at

NoEffect == UNCHANGED <<server, call, changes, ghosts>>
Stays == NoEffect /\ UNCHANGED <<locals, stale>>

\* A step of the client alone.
Test(bad, why) == Stays /\ IF bad THEN End(why) ELSE GoOn

Refuse == At({"invalid"}) /\ Test(TRUE, "bad_argument")
Validate == At({"validate"}) /\ \E bad \in BOOLEAN : Test(bad, "bad_argument")
MutCheck == At({"check"}) /\ Test(FALSE, "bad_argument")
Check == At({"check"}) /\ Test(row.busy, "bad_argument")
CheckParent == At({"check parent"}) /\ Test(parentBusy, "bad_argument")
MutRefuseFound == At({"refuse found"}) /\ Test(FALSE, "bad_argument")
RefuseFound == At({"refuse found"}) /\ Test(row.key # NoKey, "bad_argument")
NeedAnswer == At({"need answer"}) /\ Test(answer = "empty", "bad_answer")
NeedKey == At({"need key"}) /\ Test(answer \in {"empty", "no_key"}, "bad_answer")
StopIfFound == At({"stop if found"}) /\ Test(row.key # NoKey, "ok")
Pause == At({"pause", "expand"}) /\ Test(FALSE, "ok")
Follow == /\ At({"follow", "parent if known"}) /\ GoOn
          /\ \/ Step = "follow" /\ ref' = row.of
             \/ Step = "parent if known" /\ ref' \in {ref, NoKey}
          /\ NoEffect /\ UNCHANGED <<key, row, batch, left, answer, parentBusy, stale>>

Note == /\ At({"note"}) /\ GoOn
        /\ row' = [row EXCEPT !.mine = TRUE]
        /\ NoEffect /\ UNCHANGED <<key, ref, batch, left, answer, parentBusy, stale>>

-----------------------------------------------------------------------------
(* Reads.                                                                  *)

Found(k) == /\ GoOn
            /\ key' = k /\ row' = CopyOf(k, rows[k])
            /\ UNCHANGED <<ref, batch, left, answer, parentBusy>>
Without(why) == End(why) /\ UNCHANGED locals
OneOf(S, why) == \/ S = {} /\ Without(why)
                 \/ \E k \in S : Found(k)

Keyed == answer \in {"row", "key"}
\* Whether the answer to the write before makes this step unnecessary.
Needless == \/ Step \in {"find if keyless", "find created if keyless", "first if keyless",
                       "last if keyless"} /\ Keyed
            \/ Step = "get if keyed" /\ ~Keyed
            \/ Step = "get unless answered" /\ answer # "empty"
Skip == Running /\ at \in 1 .. Len(Script) /\ Needless /\ Test(FALSE, "ok")
Now(steps) == At(steps) /\ ~Needless

LookedAtRow == NoEffect /\ stale' = stale \ {"row"}
LookedAtParent == NoEffect /\ stale' = stale \ {"parent"}

Get == /\ Now({"get", "get here", "get if keyed", "get unless answered"})
       /\ OneOf({k \in DOMAIN rows : k = key /\ (Step = "get here" => Here(k))}, "not_found")
       /\ LookedAtRow

MutOfTheName == {k \in DOMAIN rows : rows[k].name = call.name}
OfTheName == {k \in DOMAIN rows : rows[k].name = call.name /\ Here(k)}
Find == /\ Now({"find", "find if keyless"})
        /\ OneOf(OfTheName, "not_found")
        /\ LookedAtRow
FindCreated == /\ Now({"find created", "find created if keyless"})
               /\ OneOf(OfTheName, "bad_answer")
               /\ LookedAtRow

First == /\ Now({"first", "first if keyless"})
         /\ OneOf({k \in DOMAIN rows : Here(k)}, "not_found")
         /\ LookedAtRow
MutLast == /\ Now({"last", "last if keyless"})
           /\ OneOf({k \in DOMAIN rows : Here(k) /\ \A j \in DOMAIN rows : Here(j) => k <= j}, "not_found")
           /\ LookedAtRow
Last == /\ Now({"last", "last if keyless"})
        /\ OneOf({k \in DOMAIN rows : Here(k) /\ \A j \in DOMAIN rows : Here(j) => j <= k}, "not_found")
        /\ LookedAtRow

Peek == /\ At({"peek", "peek any"})
        /\ LET S == IF Step = "peek" THEN OfTheName ELSE {k \in DOMAIN rows : Here(k)} IN
           \/ \E k \in S : Found(k)
           \/ /\ S = {} /\ GoOn
              /\ key' = NoKey /\ row' = Nothing
              /\ UNCHANGED <<ref, batch, left, answer, parentBusy>>
        /\ LookedAtRow

\* Polls until the row is in the right state; the deadline may pass first.
MutWait == /\ At({"wait"})
           /\ \/ Live(key) /\ ~rows[key].busy /\ Found(key)
              \/ ~Live(key) /\ Without("not_found")
           /\ LookedAtRow
Wait == /\ At({"wait"})
        /\ \/ Live(key) /\ ~rows[key].busy /\ Found(key)
           \/ ~Live(key) /\ Without("not_found")
           \/ Live(key) /\ Without("timeout")
        /\ LookedAtRow

MutList == /\ At(Listings) /\ GoOn
           /\ batch' = {k \in DOMAIN rows : Step = "list loose" \/ Here(k)}
           /\ left' = {k \in batch' : \A j \in batch' : k <= j}
           /\ UNCHANGED <<key, ref, row, answer, parentBusy>>
           /\ NoEffect /\ UNCHANGED stale
List == /\ At(Listings) /\ GoOn
        /\ batch' = {k \in DOMAIN rows : Step = "list loose" \/ Here(k)}
        /\ left' = batch'
        /\ UNCHANGED <<key, ref, row, answer, parentBusy>>
        /\ NoEffect /\ UNCHANGED stale

\* The parent.
SeeParent(p) == /\ GoOn
                /\ ref' = p /\ parentBusy' = parents[p].busy
                /\ UNCHANGED <<key, row, batch, left, answer>>
Unresolved ==
    \/ Step = "resolve" /\ Without("not_found")
    \/ Step = "resolve or invalid" /\ Without("bad_argument")
    \/ Step = "resolve or empty" /\ Without("ok")
    \/ /\ Step \in {"resolve or ignore", "peek parent"} /\ GoOn
       /\ ref' = NoKey /\ UNCHANGED <<key, row, batch, left, answer, parentBusy>>
Resolve == /\ At(ParentReads \ {"get parent"})
           /\ LET S == {p \in DOMAIN parents : parents[p].name = call.parent} IN
              \/ \E p \in S : SeeParent(p)
              \/ S = {} /\ Unresolved
           /\ LookedAtParent

GetParent == /\ At({"get parent"})
             /\ \/ ref \in DOMAIN parents /\ SeeParent(ref)
                \/ ref \notin DOMAIN parents /\ Without("not_found")
             /\ LookedAtParent

ReadAside == /\ At(Asides) /\ Stays
             /\ \/ GoOn
                \/ Step = "look up" /\ End("not_found")
                \/ Step = "look up or invalid" /\ End("bad_argument")
                \/ Step = "wait task" /\ End("timeout")

-----------------------------------------------------------------------------
(* Writes.  A write that is carried out may still be reported as failed.   *)

Put1(table, k, r) == [j \in DOMAIN table \cup {k} |-> IF j = k THEN r ELSE table[j]]
Drop1(table, k) == Restrict(table, DOMAIN table \ {k})

CarriedOut == done' = done \cup {at}
Reported == GoOn \/ End("failed")

MutNewRow == [name |-> call.name, of |-> ref,
              busy |-> Has({"wait"}), mine |-> TRUE, theirs |-> FALSE]
NewRow == [name |-> call.name, of |-> IF ref = NoKey THEN call.home ELSE ref,
           busy |-> Has({"wait"}), mine |-> TRUE, theirs |-> FALSE]
Post == /\ At({"post"})
        /\ rows' = Put1(rows, next, NewRow)
        /\ made' = next /\ next' = next + 1
        /\ \/ End("failed") /\ UNCHANGED <<answer, key, row>>
           \/ /\ GoOn
              /\ \/ answer' \in {"row", "key"} /\ key' = next
                 \/ answer' \in {"no_key", "empty"} /\ key' = NoKey
              /\ row' = CASE answer' = "row" -> CopyOf(next, NewRow)
                          [] answer' = "key" -> [Nothing EXCEPT !.key = next]
                          [] OTHER           -> Nothing
        /\ CarriedOut
        /\ UNCHANGED <<parents, call, changes, ref, batch, left, parentBusy, touched, stale>>

\* An update sends the fields it was given and no others.
MutPut == /\ At({"put"}) /\ Live(key)
          /\ rows' = [rows EXCEPT ![key].mine = TRUE, ![key].theirs = row.theirs]
          /\ \/ answer' = "row" /\ row' = CopyOf(key, rows'[key])
             \/ answer' = "empty" /\ UNCHANGED row
          /\ touched' = touched \cup {key}
          /\ Reported /\ CarriedOut
          /\ UNCHANGED <<parents, next, call, changes, key, ref, batch, left, parentBusy, made, stale>>
Put == /\ At({"put"}) /\ Live(key)
       /\ rows' = [rows EXCEPT ![key].mine = TRUE]
       /\ \/ answer' = "row" /\ row' = [CopyOf(key, rows[key]) EXCEPT !.mine = TRUE]
          \/ answer' = "empty" /\ UNCHANGED row
       /\ touched' = touched \cup {key}
       /\ Reported /\ CarriedOut
       /\ UNCHANGED <<parents, next, call, changes, key, ref, batch, left, parentBusy, made, stale>>

\* Starting, stopping, refreshing: the row may change its state.
Act == /\ At({"act"}) /\ Live(key)
       /\ \E busy \in BOOLEAN : rows' = [rows EXCEPT ![key].busy = busy]
       /\ touched' = touched \cup {key}
       /\ Reported /\ CarriedOut
       /\ UNCHANGED <<parents, next, call, changes, locals, made, stale>>

Delete == /\ At({"delete"}) /\ Live(key)
          /\ rows' = Drop1(rows, key)
          /\ touched' = touched \cup {key}
          /\ Reported /\ CarriedOut
          /\ UNCHANGED <<parents, next, call, changes, locals, made, stale>>

\* PUT, DELETE or an action on a row that is gone: 404.
Missing == /\ At({"put", "act", "delete"}) /\ ~Live(key)
           /\ End("not_found") /\ Stays

\* One request for each row collected; the first that fails ends the call.
DeleteEach ==
    /\ At({"delete each"})
    /\ \/ /\ left = {} /\ GoOn /\ CarriedOut
          /\ UNCHANGED <<server, locals, touched>>
       \/ \E k \in left : 
             /\ Live(k)
             /\ rows' = Drop1(rows, k)
             /\ touched' = touched \cup {k}
             /\ \/ left' = left \ {k} /\ UNCHANGED <<at, verdict>>
                \/ UNCHANGED left /\ End("failed")
             /\ UNCHANGED <<parents, next, key, ref, row, batch, answer, parentBusy, done>>
       \/ \E k \in left :
             /\ ~Live(k) /\ End("not_found")
             /\ UNCHANGED <<server, locals, touched, done>>
    /\ UNCHANGED <<call, changes, made, stale>>

MakeParent ==
    /\ At({"make parent"})
    /\ \/ /\ ref # NoKey /\ GoOn
          /\ UNCHANGED <<parents, next, ref, done>>
       \/ /\ ref = NoKey
          /\ parents' = Put1(parents, next, [name |-> call.parent, busy |-> FALSE])
          /\ next' = next + 1
          /\ \/ GoOn /\ ref' = next
             \/ \E why \in {"bad_answer", "failed"} : End(why) /\ UNCHANGED ref
          /\ CarriedOut
    /\ UNCHANGED <<rows, call, changes, key, row, batch, left, answer, parentBusy, made, touched, stale>>

ParentWrites == {"put parent", "act on parent", "delete parent"}
ChangeParent ==
    /\ At(ParentWrites) /\ ref \in DOMAIN parents
    /\ \/ Step = "put parent" /\ UNCHANGED parents
       \/ Step = "act on parent" /\ \E busy \in BOOLEAN : parents' = [parents EXCEPT ![ref].busy = busy]
       \/ Step = "delete parent" /\ parents' = Drop1(parents, ref)
    /\ Reported /\ CarriedOut
    /\ UNCHANGED <<rows, next, call, changes, locals, made, touched, stale>>
ParentMissing == /\ At(ParentWrites) /\ ref \notin DOMAIN parents
                 /\ End("not_found") /\ Stays

WriteAside == /\ At({"write aside"}) /\ Reported /\ CarriedOut
              /\ UNCHANGED <<server, call, changes, locals, made, touched, stale>>

\* The server refuses the request, or it never arrives.
Fail == /\ Now(Reads \cup Writes)
        /\ End("failed") /\ Stays

-----------------------------------------------------------------------------
(* The others.                                                             *)

OthersRow == [name |-> "", of |-> NoKey, busy |-> FALSE, mine |-> FALSE, theirs |-> TRUE]
OtherCreates(n, p) == /\ rows' = Put1(rows, next, [OthersRow EXCEPT !.name = n, !.of = p])
                      /\ next' = next + 1
OtherSaves(k) == /\ \/ rows' = [rows EXCEPT ![k].theirs = TRUE]
                    \/ rows' = [rows EXCEPT ![k].busy = ~@]
                    \/ \E n \in Names : rows' = [rows EXCEPT ![k].name = n]
                    \/ rows' = Drop1(rows, k)
                 /\ UNCHANGED next
OthersRows == /\ \/ \E n \in Names, p \in DOMAIN parents : OtherCreates(n, p)
                 \/ \E k \in DOMAIN rows : OtherSaves(k)
              /\ stale' = stale \cup {"row"}
              /\ UNCHANGED parents
OthersParents ==
    /\ \/ /\ \E n \in Names : parents' = Put1(parents, next, [name |-> n, busy |-> FALSE])
          /\ next' = next + 1
       \/ /\ \E p \in DOMAIN parents : \/ parents' = Drop1(parents, p)
                                       \/ parents' = [parents EXCEPT ![p].busy = ~@]
                                       \/ \E n \in Names : parents' = [parents EXCEPT ![p].name = n]
          /\ UNCHANGED next
    /\ stale' = stale \cup {"parent"}
    /\ UNCHANGED rows

World == /\ Running /\ changes < call.others
         /\ OthersRows \/ OthersParents
         /\ changes' = changes + 1
         /\ UNCHANGED <<call, at, verdict, locals, ghosts>>

Local == \/ Refuse \/ Validate \/ Check \/ CheckParent \/ RefuseFound \/ NeedAnswer \/ NeedKey
         \/ StopIfFound \/ Pause \/ Follow \/ Note \/ Skip
Read == Get \/ Find \/ FindCreated \/ First \/ Last \/ Peek \/ Wait \/ List \/ Resolve \/ GetParent \/ ReadAside
Write == \/ Post \/ Put \/ Act \/ Delete \/ Missing \/ DeleteEach
         \/ MakeParent \/ ChangeParent \/ ParentMissing \/ WriteAside

\* The object does not say whose rows are wanted, nothing has the name, or the filter
\* ends in an "or" without brackets.
DropsPlace == /\ at' # at
              /\ \/ At({"parent if known"}) /\ ref' # ref
                 \/ At({"resolve or ignore"}) /\ ref' = NoKey
                 \/ At({"list loose"}) /\ ref # NoKey
Mark == /\ meant' = meant \cup Named'
        /\ unscoped' = (unscoped \/ DropsPlace)
        /\ disturbed' = (disturbed \/ (done # {} /\ changes' # changes))
Proceed == (Local \/ Read \/ Write) /\ Mark
Next == Proceed \/ ((Fail \/ World) /\ Mark)

\* The client goes on, and each request ends: in an answer, or in the exception of its
\* timeout, which is not relied on.
Spec == Init /\ [][Next]_vars
FairSpec == Spec /\ WF_vars(Proceed)

-----------------------------------------------------------------------------
(* What holds of every call.                                               *)

\* Type invariant.
Verdicts == {"running", "ok", "bad_argument", "bad_answer", "not_found", "timeout", "failed"}
TypeOK == /\ IsTable(rows, next, Rows) /\ IsTable(parents, next, Parents)
          /\ next \in Keys
          /\ call \in AllRequests
          /\ at \in 1 .. Len(Script) + 1
          /\ verdict \in Verdicts
          /\ key \in Nat /\ ref \in Nat
          /\ row \in [key : Nat, name : Names, of : Nat, busy : BOOLEAN,
                     mine : BOOLEAN, theirs : BOOLEAN]
          /\ batch \subseteq Keys /\ left \subseteq batch
          /\ answer \in {"none", "row", "key", "no_key", "empty"}
          /\ parentBusy \in BOOLEAN
          /\ changes \in 0 .. call.others
          /\ done \subseteq 1 .. Len(Script)
          /\ made \in Nat /\ touched \subseteq Keys
          /\ meant \subseteq Keys /\ unscoped \in BOOLEAN /\ disturbed \in BOOLEAN
          /\ stale \subseteq {"row", "parent"}

\* A call changes, deletes and returns only rows that were, at some time since it was
\* made, what the caller named by key, by name or by parent, or that it created: whatever
\* others rename, delete and create between a look-up and the write that uses its result.
\* That is all the code can keep: once it has dropped the place it works on the rows of
\* all places (RowsAreOfThePlaceNamed says what is documented).
OnlyMeant == /\ touched \ {made} \subseteq meant
             /\ verdict = "ok" => ({row.key} \cup batch) \ {made, NoKey} \subseteq meant
WorksOnWhatWasMeant == ~unscoped => OnlyMeant

\* The documented meaning of the filters "service", "volume", "catalog", "user" and the
\* scope of a manager: the rows of that parent and no others.
RowsAreOfThePlaceNamed == OnlyMeant

\* A create returns the row it created, whichever of the four answers it got.  Where it
\* has to search for the row another may be returned: one of the same name in the same
\* place; for the method that takes the newest row one created later, or any if others
\* have already deleted the one it created; for those that take the first row any of the
\* same place.
CreateReturnsItsRow ==
    verdict = "ok" /\ made # NoKey /\ row.key \notin {NoKey, made} =>
        \/ Has(ByNameSteps \cup {"first if keyless"}) /\ row.key \in meant
        \/ Has({"last if keyless"}) /\ (row.key > made \/ ~Live(made))

\* A method that checks the state of a row or of its parent before it changes something
\* makes its first change with the check still true, unless others have changed that row
\* or parent since it was read.
GuardsHold ==
    [][done = {} /\ done' # done =>
         /\ HadBefore({"check"}) /\ Live(key) /\ rows[key].busy => "row" \in stale
         /\ HadBefore({"check parent"}) /\ ref \in DOMAIN parents /\ parents[ref].busy => "parent" \in stale]_vars

\* A create that first looks whether the row exists, and a use that makes a missing
\* configuration, makes a second one only if another appeared after the look.
Rival(k) == Here(k) /\ (Has({"peek"}) => rows[k].name = call.name)
CreatesOnlyIfMissing ==
    [][/\ made' # made /\ HadBefore(Finds) /\ (\E k \in DOMAIN rows : Rival(k))
             => "row" \in stale
       /\ At({"make parent"}) /\ done' # done /\ (\E p \in DOMAIN parents : parents[p].name = call.parent)
             => "parent" \in stale]_vars

\* A ValueError for an argument leaves the system as it was: every method of every manager
\* tests its arguments before its first write.  The late ones find out when the row has
\* been made, but before they do anything to another row.
ErrorsBeforeEffects ==
    verdict = "bad_argument" =>
        /\ touched = {}
        /\ Script \notin LateChecks => done = {}

\* A NotFoundError leaves the system as it was, unless others have changed it after the
\* first write: what a method needs it looks for before, and what it has written it finds
\* again, whatever others did until then.  A method that writes to several rows, or to the
\* parent and then to the row, promises so only if others change nothing during the call.
Undisturbed == IF Has({"delete each"} \cup ParentWrites) THEN changes = 0 ELSE ~disturbed

\* Updates merge: the row an update returns shows the fields the caller sent, and no step
\* of a call takes back what others have saved in fields it does not send.
UpdatesMerge ==
    [][/\ verdict' = "ok" /\ row'.key # NoKey /\ (\E i \in done : Script[i] = "put") => row'.mine
       /\ \A k \in DOMAIN rows \cap DOMAIN rows' : rows[k].theirs => rows'[k].theirs]_vars

\* A bulk revocation that returns has deleted every row it listed itself.
BulkDeleteIsComplete ==
    verdict = "ok" /\ HadBefore({"delete each"}) => batch \subseteq touched \ DOMAIN rows

\* Every call ends.
Ends == <>~Running
=============================================================================
