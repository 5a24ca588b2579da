---------------------------- MODULE Calls_proofs ----------------------------
(***************************************************************************)
(* Proofs about Calls, for every set of requests whose scripts have the    *)
(* shape that the assumptions of Calls name, and for all tables, names and *)
(* numbers of changes by others: types, and the three safety properties    *)
(* BulkDeleteIsComplete, WorksOnWhatWasMeant and GuardsHold.               *)
(* TLC evaluates the assumptions for the scripts of the whole catalogue.   *)
(***************************************************************************)
EXTENDS Calls, TLAPS

USE DEF At, Now, Running, Step, Script

(* What a step does to the place in the script, the verdict and the writes. *)
Ready == Running /\ at \in 1 .. Len(Script)
\* The script goes on without a write.
Passes == Ready /\ GoOn /\ done' = done /\ Step \notin Writes \ {"make parent"}
\* The write of this step is carried out and the script goes on.
Pays == Ready /\ GoOn /\ done' = done \cup {at} /\ Step \in Writes
\* An exception, before or after the write of this step.
Breaks == Ready /\ (\E why \in Verdicts \ {"running", "ok"} : End(why))
          /\ (done' = done \/ (done' = done \cup {at} /\ Step \in Writes))
\* The method finds that there is nothing to do.
EarlyEnds == {"stop if found", "resolve or empty"}
Leaves == Ready /\ End("ok") /\ done' = done /\ Step \in EarlyEnds
\* Another's step, or a deletion out of several.
Rests == UNCHANGED <<at, verdict, done>>
Kinds == Passes \/ Pays \/ Breaks \/ Leaves \/ Rests

WritesDef == Writes = {"post", "put", "act", "delete", "delete each",
                       "make parent", "put parent", "act on parent", "delete parent", "write aside"}

\* The steps that write, in full.
LEMMA WriteSteps == WritesDef
BY DEF WritesDef, Writes, RowWrites, OtherWrites

\* A test of the client goes on, ends the call or raises, and writes nothing.
LEMMA LocalKinds == ASSUME Local PROVE call' = call /\ Kinds
<1> USE WriteSteps DEF WritesDef, Kinds, Ready, Stays, NoEffect, ghosts
<1>1. CASE Refuse
  BY <1>1 DEF Refuse, Test, Breaks, Verdicts
<1>2. CASE Validate
  BY <1>2 DEF Validate, Test, Breaks, Passes, Verdicts
<1>3. CASE Check
  BY <1>3 DEF Check, Test, Breaks, Passes, Verdicts
<1>4. CASE CheckParent
  BY <1>4 DEF CheckParent, Test, Breaks, Passes, Verdicts
<1>5. CASE RefuseFound
  BY <1>5 DEF RefuseFound, Test, Breaks, Passes, Verdicts
<1>6. CASE NeedAnswer
  BY <1>6 DEF NeedAnswer, Test, Breaks, Passes, Verdicts
<1>7. CASE NeedKey
  BY <1>7 DEF NeedKey, Test, Breaks, Passes, Verdicts
<1>8. CASE StopIfFound
  BY <1>8 DEF StopIfFound, Test, Leaves, Passes, EarlyEnds
<1>9. CASE Pause
  BY <1>9 DEF Pause, Test, Passes
<1>10. CASE Follow
  BY <1>10 DEF Follow, Passes
<1>11. CASE Note
  BY <1>11 DEF Note, Passes
<1>12. CASE Skip
  BY <1>12 DEF Skip, Needless, Test, Passes
<1> QED BY <1>1, <1>2, <1>3, <1>4, <1>5, <1>6, <1>7, <1>8, <1>9, <1>10, <1>11, <1>12 DEF Local

\* A read goes on, ends the call or raises, and writes nothing.
LEMMA ReadKinds == ASSUME Read PROVE call' = call /\ Kinds
<1> USE WriteSteps DEF WritesDef, Kinds, Ready, NoEffect, ghosts, Breaks, Passes, LookedAtRow, LookedAtParent
<1>1. ASSUME NEW k, Found(k) PROVE GoOn
  BY <1>1 DEF Found
<1>2. ASSUME NEW why, Without(why) PROVE End(why)
  BY <1>2 DEF Without
<1>3. ASSUME NEW p, SeeParent(p) PROVE GoOn
  BY <1>3 DEF SeeParent
<1>4. CASE Get
  BY <1>1, <1>2, <1>4 DEF Get, OneOf, Verdicts
<1>5. CASE Find
  BY <1>1, <1>2, <1>5 DEF Find, OneOf, Verdicts
<1>6. CASE FindCreated
  BY <1>1, <1>2, <1>6 DEF FindCreated, OneOf, Verdicts
<1>7. CASE First
  BY <1>1, <1>2, <1>7 DEF First, OneOf, Verdicts
<1>8. CASE Last
  BY <1>1, <1>2, <1>8 DEF Last, OneOf, Verdicts
<1>9. CASE Peek
  BY <1>1, <1>9 DEF Peek
<1>10. CASE Wait
  BY <1>1, <1>2, <1>10 DEF Wait, Verdicts
<1>11. CASE List
  BY <1>11 DEF List, Listings
<1>12. CASE Resolve
  <2>1. Ready /\ Step \notin Writes /\ call' = call /\ done' = done
    BY <1>12 DEF Resolve, ParentReads
  <2>2. CASE \E p \in DOMAIN parents : SeeParent(p)
    BY <1>3, <2>1, <2>2
  <2>3. CASE Unresolved
    BY <1>2, <2>1, <2>3 DEF Unresolved, Verdicts, Leaves, EarlyEnds
  <2> QED BY <1>12, <2>2, <2>3 DEF Resolve
<1>13. CASE GetParent
  BY <1>2, <1>3, <1>13 DEF GetParent, Verdicts
<1>14. CASE ReadAside
  BY <1>14 DEF ReadAside, Stays, Asides, Verdicts
<1> QED BY <1>4, <1>5, <1>6, <1>7, <1>8, <1>9, <1>10, <1>11, <1>12, <1>13, <1>14 DEF Read

\* A write is carried out, or the call ends in an exception.
LEMMA WriteKinds == ASSUME Write PROVE call' = call /\ Kinds
<1> USE WriteSteps DEF WritesDef, Kinds, Ready, Breaks, Pays, Verdicts, CarriedOut, Reported
<1>1. CASE Post
  BY <1>1 DEF Post
<1>2. CASE Put
  BY <1>2 DEF Put
<1>3. CASE Act
  BY <1>3 DEF Act
<1>4. CASE Delete
  BY <1>4 DEF Delete
<1>5. CASE Missing
  BY <1>5 DEF Missing, Stays, NoEffect, ghosts
<1>6. CASE DeleteEach
  BY <1>6 DEF DeleteEach, Rests
<1>7. CASE MakeParent
  BY <1>7 DEF MakeParent, Passes
<1>8. CASE ChangeParent
  BY <1>8 DEF ChangeParent, ParentWrites
<1>9. CASE ParentMissing
  BY <1>9 DEF ParentMissing, Stays, NoEffect, ghosts
<1>10. CASE WriteAside
  BY <1>10 DEF WriteAside
<1> QED BY <1>1, <1>2, <1>3, <1>4, <1>5, <1>6, <1>7, <1>8, <1>9, <1>10 DEF Write

\* Every step is of one of these kinds and leaves the request alone.
LEMMA StepKinds == ASSUME [Next]_vars PROVE call' = call /\ Kinds
<1>1. CASE Proceed
  BY <1>1, LocalKinds, ReadKinds, WriteKinds DEF Proceed
<1>2. CASE Fail
  BY <1>2 DEF Fail, Stays, NoEffect, ghosts, Kinds, Breaks, Ready, Verdicts
<1>3. CASE World
  BY <1>3 DEF World, ghosts, Kinds, Rests
<1>4. CASE UNCHANGED vars
  BY <1>4 DEF vars, ghosts, Kinds, Rests
<1> QED BY <1>1, <1>2, <1>3, <1>4 DEF Next

-----------------------------------------------------------------------------
(* Control: a call that runs is within its script, and has carried out only *)
(* writes of its script that are behind it.                                 *)

WritesAt == Places(call, Writes)
Control == /\ call \in Requests
           /\ at \in 1 .. Len(Script) + 1 /\ verdict \in Verdicts
           /\ Running => at \in 1 .. Len(Script)
           /\ done \subseteq WritesAt
           /\ Running => \A j \in done : j < at

\* Scripts are not empty.
LEMMA ScriptOf == ASSUME NEW c \in Requests PROVE Len(c.script) \in Nat \ {0} /\ c \in AllRequests
BY RequestAssumption DEF AllRequests

\* A place of a write is a place of the script,
LEMMA WriteIndex == \A i \in WritesAt : i \in 1 .. Len(Script) /\ Script[i] \in Writes
BY DEF WritesAt, Places

\* and the other way round.
LEMMA IsWrite == \A i \in 1 .. Len(Script) : Script[i] \in Writes => i \in WritesAt
BY DEF WritesAt, Places

\* Control holds before the first step.
LEMMA InitControl == Init => Control
<1> SUFFICES ASSUME Init PROVE Control
  OBVIOUS
<1>1. call \in Requests /\ at = 1 /\ verdict = "running" /\ done = {}
  BY DEF Init
<1>2. Len(Script) \in Nat \ {0}
  BY <1>1, ScriptOf
<1> QED BY <1>1, <1>2 DEF Control, Verdicts

\* A step that goes on keeps Control,
LEMMA Advance == ASSUME Control, call' = call, Passes \/ Pays PROVE Control'
<1>1. Len(Script) \in Nat \ {0} /\ at \in 1 .. Len(Script) /\ Ready
  BY ScriptOf DEF Control, Passes, Pays, Ready
<1>2. (at' = at + 1) /\ verdict' = IF at = Len(Script) THEN "ok" ELSE "running"
  BY DEF GoOn, Passes, Pays
<1>3. WritesAt' = WritesAt
  BY DEF WritesAt, Places
<1>4. done' \subseteq done \cup {at}
  BY DEF Passes, Pays
<1>5. done' \subseteq WritesAt
  BY <1>1, <1>4, IsWrite DEF Control, Passes, Pays
<1>6. \A j \in done' : j < at'
  <2> SUFFICES ASSUME NEW j \in done' PROVE j < at + 1
    BY <1>2
  <2>1. j = at \/ (j < at /\ j \in 1 .. Len(Script))
    BY <1>1, <1>4, WriteIndex DEF Control, Ready
  <2> QED BY <1>1, <2>1
<1>7. at' \in 1 .. Len(Script) + 1 /\ (verdict' = "running" => at' \in 1 .. Len(Script))
  BY <1>1, <1>2
<1> QED BY <1>2, <1>3, <1>5, <1>6, <1>7 DEF Control, Verdicts

\* and one that ends the call.
LEMMA Halt == ASSUME Control, call' = call, Breaks \/ Leaves PROVE Control'
<1>1. Len(Script) \in Nat \ {0} /\ at \in 1 .. Len(Script) /\ Ready
  BY ScriptOf DEF Control, Breaks, Leaves, Ready
<1>2. at' = at /\ verdict' \in Verdicts \ {"running"}
  BY DEF Breaks, Leaves, End, Verdicts
<1>3. WritesAt' = WritesAt
  BY DEF WritesAt, Places
<1>4. done' \subseteq WritesAt
  BY <1>1, IsWrite DEF Control, Breaks, Leaves
<1> QED BY <1>1, <1>2, <1>3, <1>4 DEF Control

\* Every step keeps Control.
LEMMA StepControl == ASSUME Control, [Next]_vars PROVE Control'
<1>1. call' = call /\ Kinds
  BY StepKinds
<1>2. CASE Rests
  <2>1. WritesAt' = WritesAt
    BY <1>1 DEF WritesAt, Places
  <2> QED BY <1>1, <1>2, <2>1 DEF Rests, Control
<1> QED BY <1>1, <1>2, Advance, Halt DEF Kinds

-----------------------------------------------------------------------------

(* Types.                                                                  *)

Tables == IsTable(rows, next, Rows) /\ IsTable(parents, next, Parents) /\ next \in Keys
RowCopies == [key : Nat, name : Names, of : Nat, busy : BOOLEAN, mine : BOOLEAN, theirs : BOOLEAN]
Locals == /\ key \in Nat /\ ref \in Nat /\ row \in RowCopies
          /\ batch \subseteq Keys /\ left \subseteq batch
          /\ answer \in {"none", "row", "key", "no_key", "empty"}
          /\ parentBusy \in BOOLEAN
Ghosts == /\ changes \in 0 .. call.others
          /\ made \in Nat /\ touched \subseteq Keys
          /\ stale \subseteq {"row", "parent"}
Typed == call \in AllRequests /\ Tables /\ Locals /\ Ghosts

\* A new row under a new key makes a table,
LEMMA PutTable ==
    ASSUME NEW table, NEW new \in Keys, NEW S, NEW r \in S, IsTable(table, new, S)
    PROVE  IsTable(Put1(table, new, r), new + 1, S)
BY DEF IsTable, Put1, Keys, NoKey

\* a table is one when more keys have been given,
LEMMA LaterTable ==
    ASSUME NEW table, NEW new \in Keys, NEW S, IsTable(table, new, S)
    PROVE  IsTable(table, new + 1, S) /\ new + 1 \in Keys
BY DEF IsTable, Keys, NoKey

\* when a row is deleted,
LEMMA DropTable ==
    ASSUME NEW table, NEW new, NEW S, NEW k, IsTable(table, new, S)
    PROVE  IsTable(Drop1(table, k), new, S)
BY DEF IsTable, Drop1, Restrict

\* and when a row is changed.
LEMMA ChangeTable ==
    ASSUME NEW table, NEW new, NEW S, NEW k \in DOMAIN table, NEW r \in S, IsTable(table, new, S)
    PROVE  IsTable([table EXCEPT ![k] = r], new, S)
BY DEF IsTable

Marks == meant \subseteq Keys /\ unscoped \in BOOLEAN /\ disturbed \in BOOLEAN

\* The state is well typed at first.
LEMMA InitTypes == Init => Typed /\ Marks
<1> SUFFICES ASSUME Init PROVE Typed /\ Marks
  OBVIOUS
<1>1. call \in AllRequests
  BY RequestAssumption DEF Init
<1>2. Tables
  BY FirstNewAssumption, FirstAssumption DEF Init, Tables
<1>3. row \in RowCopies
  BY <1>1 DEF Init, Nothing, RowCopies, NoKey, AllRequests
<1>4. key \in Nat /\ ref \in Nat
  BY <1>1 DEF Init, NoKey, AllRequests, Keys
<1>5. Locals
  BY <1>3, <1>4 DEF Init, Locals
<1>6. Ghosts
  BY <1>1 DEF Init, Ghosts, NoKey, AllRequests
<1>7. meant \subseteq Keys
  BY <1>2 DEF Init, Named, Tables, IsTable
<1>8. Marks
  BY <1>7 DEF Init, Marks
<1> QED BY <1>1, <1>2, <1>5, <1>6, <1>8 DEF Typed

\* A row that was found makes a well-typed copy.
LEMMA FoundTypes == ASSUME Typed, NEW k \in DOMAIN rows, Found(k) PROVE Locals'
<1>1. k \in Nat /\ rows[k] \in Rows
  BY DEF Typed, Tables, IsTable, Keys
<1>2. CopyOf(k, rows[k]) \in RowCopies
  BY <1>1 DEF CopyOf, RowCopies, Rows, Keys
<1> QED BY <1>1, <1>2 DEF Found, Locals, Typed

\* A search that finds nothing leaves the local variables as they are.
LEMMA WithoutTypes == ASSUME Typed, NEW why, Without(why) PROVE Locals'
BY DEF Without, locals, Typed, Locals

\* A parent that was found makes well-typed local variables.
LEMMA SeeParentTypes == ASSUME Typed, NEW p \in DOMAIN parents, SeeParent(p) PROVE Locals'
<1>1. p \in Nat /\ parents[p].busy \in BOOLEAN
  BY DEF Typed, Tables, IsTable, Keys, Parents
<1> QED BY <1>1 DEF SeeParent, Locals, Typed

\* No row is a copy, too.
LEMMA NothingTypes == ASSUME Typed PROVE Nothing \in RowCopies
BY DEF Nothing, RowCopies, NoKey, Typed, AllRequests

\* A step without effect on the server keeps the types if its local variables have them.
LEMMA QuietTypes ==
    ASSUME Typed, NoEffect, Locals', stale' \subseteq {"row", "parent"}
    PROVE  Typed'
BY DEF Typed, NoEffect, server, ghosts, Tables, Ghosts

\* So does one that only moves on.
LEMMA StaysTypes == ASSUME Typed, Stays PROVE Typed'
<1>1. Locals' /\ stale' \subseteq {"row", "parent"}
  BY DEF Stays, locals, Typed, Locals, Ghosts
<1> QED BY <1>1, QuietTypes DEF Stays

\* The tests of the client keep the types,
LEMMA LocalTypes == ASSUME Typed, Local PROVE Typed'
<1>1. CASE Refuse \/ Validate \/ Check \/ CheckParent \/ RefuseFound \/ NeedAnswer \/ NeedKey
           \/ StopIfFound \/ Pause \/ Skip
  <2>1. Stays
    BY <1>1 DEF Refuse, Validate, Check, CheckParent, RefuseFound, NeedAnswer, NeedKey,
                StopIfFound, Pause, Skip, Test
  <2> QED BY <2>1, StaysTypes
<1>2. CASE Follow
  <2>1. ref' \in Nat
    <3>1. row.of \in Nat /\ ref \in Nat
      BY DEF Typed, Locals, RowCopies
    <3>2. ref' = row.of \/ ref' \in {ref, NoKey}
      BY <1>2 DEF Follow
    <3> QED BY <3>1, <3>2 DEF NoKey
  <2>2. Locals' /\ stale' \subseteq {"row", "parent"}
    BY <1>2, <2>1 DEF Follow, Typed, Locals, Ghosts
  <2> QED BY <1>2, <2>2, QuietTypes DEF Follow
<1>3. CASE Note
  <2>1. [row EXCEPT !.mine = TRUE] \in RowCopies
    BY DEF RowCopies, Typed, Locals
  <2>2. Locals' /\ stale' \subseteq {"row", "parent"}
    BY <1>3, <2>1 DEF Note, Typed, Locals, Ghosts
  <2> QED BY <1>3, <2>2, QuietTypes DEF Note
<1> QED BY <1>1, <1>2, <1>3 DEF Local

\* and so do the reads,
LEMMA ReadTypes == ASSUME Typed, Read PROVE Typed'
<1>1. stale \subseteq {"row", "parent"}
  BY DEF Typed, Ghosts
<1>2. ASSUME Locals', LookedAtRow \/ LookedAtParent PROVE Typed'
  BY <1>1, <1>2, QuietTypes DEF LookedAtRow, LookedAtParent
<1>3. CASE Get \/ Find \/ FindCreated \/ First \/ Last
  <2>1. LookedAtRow /\ ((\E k \in DOMAIN rows : Found(k)) \/ \E why : Without(why))
    BY <1>3 DEF Get, Find, FindCreated, First, Last, OneOf, OfTheName
  <2> QED BY <1>2, <2>1, FoundTypes, WithoutTypes
<1>4. CASE Peek
  <2>1. CASE \E k \in DOMAIN rows : Found(k)
    BY <1>2, <1>4, <2>1, FoundTypes DEF Peek
  <2>2. CASE key' = NoKey /\ row' = Nothing /\ UNCHANGED <<ref, batch, left, answer, parentBusy>>
    <3>1. Locals'
      BY <2>2, NothingTypes DEF Typed, Locals, NoKey
    <3> QED BY <1>2, <1>4, <3>1 DEF Peek
  <2> QED BY <1>4, <2>1, <2>2 DEF Peek, OfTheName
<1>5. CASE Wait
  <2>1. LookedAtRow /\ ((\E k \in DOMAIN rows : Found(k)) \/ \E why : Without(why))
    BY <1>5 DEF Wait, Live
  <2> QED BY <1>2, <2>1, FoundTypes, WithoutTypes
<1>6. CASE List
  <2>1. batch' \subseteq Keys
    BY <1>6 DEF List, Typed, Tables, IsTable
  <2>2. Locals'
    BY <1>6, <2>1 DEF List, Typed, Locals
  <2> QED BY <1>1, <1>6, <2>2, QuietTypes DEF List
<1>7. CASE Resolve
  <2>1. CASE \E p \in DOMAIN parents : SeeParent(p)
    BY <1>2, <1>7, <2>1, SeeParentTypes DEF Resolve
  <2>2. CASE Unresolved
    <3>1. CASE \E why : Without(why)
      BY <1>2, <1>7, <3>1, WithoutTypes DEF Resolve
    <3>2. CASE ref' = NoKey /\ UNCHANGED <<key, row, batch, left, answer, parentBusy>>
      <4>1. Locals'
        BY <3>2 DEF Typed, Locals, NoKey
      <4> QED BY <1>2, <1>7, <4>1 DEF Resolve
    <3> QED BY <2>2, <3>1, <3>2 DEF Unresolved
  <2> QED BY <1>7, <2>1, <2>2 DEF Resolve
<1>8. CASE GetParent
  <2>1. LookedAtParent /\ ((\E p \in DOMAIN parents : SeeParent(p)) \/ \E why : Without(why))
    BY <1>8 DEF GetParent
  <2> QED BY <1>2, <2>1, SeeParentTypes, WithoutTypes
<1>9. CASE ReadAside
  BY <1>9, StaysTypes DEF ReadAside
<1> QED BY <1>3, <1>4, <1>5, <1>6, <1>7, <1>8, <1>9 DEF Read

\* The row a call creates is one.
LEMMA NewRowTypes == ASSUME Typed PROVE NewRow \in Rows
<1>1. call.name \in Names /\ call.home \in Keys
  BY DEF Typed, AllRequests
<1>2. (IF ref = NoKey THEN call.home ELSE ref) \in Keys
  BY <1>1 DEF Typed, Locals, Keys, NoKey
<1>3. Has({"wait"}) \in BOOLEAN
  BY DEF Has, Uses
<1> QED BY <1>1, <1>2, <1>3 DEF NewRow, Rows

\* and the writes,
LEMMA WriteTypes == ASSUME Typed, Write PROVE Typed'
<1> USE DEF CarriedOut
<1>1. /\ next \in Keys /\ IsTable(rows, next, Rows) /\ IsTable(parents, next, Parents)
      /\ touched \subseteq Keys /\ DOMAIN rows \subseteq Keys /\ DOMAIN parents \subseteq Keys
  BY DEF Typed, Tables, Ghosts, IsTable
<1>2. ASSUME Tables', Locals', touched' \subseteq Keys,
             UNCHANGED <<call, changes, made, stale>>
      PROVE  Typed'
  BY <1>2 DEF Typed, Ghosts
<1>3. ASSUME UNCHANGED locals PROVE Locals'
  BY <1>3 DEF Typed, Locals, locals
<1>4. CASE Post
  <2>1. Tables'
    <3>1. IsTable(rows', next', Rows)
      BY <1>1, <1>4, PutTable, NewRowTypes DEF Post
    <3>2. IsTable(parents', next', Parents) /\ next' \in Keys
      BY <1>1, <1>4, LaterTable DEF Post
    <3> QED BY <3>1, <3>2 DEF Tables
  <2>2. CopyOf(next, NewRow) \in RowCopies /\ next \in Nat
    BY <1>1, NewRowTypes DEF CopyOf, RowCopies, Rows, Keys
  <2>3. [Nothing EXCEPT !.key = next] \in RowCopies /\ Nothing \in RowCopies
    BY <2>2, NothingTypes DEF RowCopies
  <2>4. Locals'
    <3>1. CASE UNCHANGED <<answer, key, row>>
      BY <1>4, <3>1 DEF Post, Typed, Locals
    <3>2. CASE ~UNCHANGED <<answer, key, row>>
      <4>1. answer' \in {"row", "key", "no_key", "empty"} /\ key' \in {next, NoKey}
        BY <1>4, <3>2 DEF Post
      <4>2. row' = CASE answer' = "row" -> CopyOf(next, NewRow)
                     [] answer' = "key" -> [Nothing EXCEPT !.key = next]
                     [] OTHER           -> Nothing
        BY <1>4, <3>2 DEF Post
      <4>3. row' \in RowCopies
        BY <2>2, <2>3, <4>2
      <4> QED BY <1>4, <2>2, <4>1, <4>3 DEF Post, Typed, Locals, NoKey
    <3> QED BY <3>1, <3>2
  <2>5. Ghosts' /\ call' = call
    BY <1>4, <2>2 DEF Post, Typed, Ghosts
  <2> QED BY <2>1, <2>4, <2>5 DEF Typed
<1>5. CASE Put
  <2>1. rows[key] \in Rows /\ key \in DOMAIN rows
    BY <1>1, <1>5 DEF Put, Live, IsTable
  <2>2. [rows[key] EXCEPT !.mine = TRUE] \in Rows
    BY <2>1 DEF Rows
  <2>3. Tables'
    <3>1. rows' = [rows EXCEPT ![key] = [rows[key] EXCEPT !.mine = TRUE]]
      BY <1>5 DEF Put
    <3>2. IsTable(rows', next, Rows)
      BY <1>1, <2>1, <2>2, <3>1, ChangeTable
    <3> QED BY <1>1, <1>5, <3>2 DEF Put, Tables
  <2>4. [CopyOf(key, rows[key]) EXCEPT !.mine = TRUE] \in RowCopies
    BY <1>1, <2>1 DEF CopyOf, RowCopies, Rows, Keys
  <2>5. Locals'
    BY <1>5, <2>4 DEF Put, Typed, Locals
  <2> QED BY <1>1, <1>2, <1>5, <2>1, <2>3, <2>5 DEF Put
<1>6. CASE Act
  <2>1. PICK b \in BOOLEAN : rows' = [rows EXCEPT ![key].busy = b]
    BY <1>6 DEF Act
  <2>2. rows[key] \in Rows /\ key \in DOMAIN rows
    BY <1>1, <1>6 DEF Act, Live, IsTable
  <2>3. [rows[key] EXCEPT !.busy = b] \in Rows
    BY <2>2 DEF Rows
  <2>4. rows' = [rows EXCEPT ![key] = [rows[key] EXCEPT !.busy = b]]
    BY <2>1
  <2>5. Tables'
    BY <1>1, <1>6, <2>2, <2>3, <2>4, ChangeTable DEF Act, Tables
  <2> QED BY <1>1, <1>2, <1>3, <1>6, <2>2, <2>5 DEF Act
<1>7. CASE Delete
  <2>1. Tables'
    BY <1>1, <1>7, DropTable DEF Delete, Tables
  <2> QED BY <1>1, <1>2, <1>3, <1>7, <2>1 DEF Delete, Live
<1>8. CASE Missing \/ ParentMissing
  BY <1>8, StaysTypes DEF Missing, ParentMissing
<1>9. CASE DeleteEach
  <2>1. CASE UNCHANGED <<server, locals, touched>>
    BY <1>1, <1>2, <1>3, <1>9, <2>1 DEF DeleteEach, server, Tables
  <2>2. ASSUME NEW k \in left, Live(k), rows' = Drop1(rows, k), touched' = touched \cup {k},
               left' = left \ {k} \/ UNCHANGED left,
               UNCHANGED <<parents, next, key, ref, row, batch, answer, parentBusy, done>>
        PROVE  Typed'
    <3>1. Tables'
      BY <1>1, <2>2, DropTable DEF Tables
    <3>2. Locals'
      BY <2>2 DEF Typed, Locals
    <3> QED BY <1>1, <1>2, <1>9, <2>2, <3>1, <3>2 DEF DeleteEach, Live
  <2> QED BY <1>9, <2>1, <2>2 DEF DeleteEach
<1>10. CASE MakeParent
  <2>1. [name |-> call.parent, busy |-> FALSE] \in Parents
    BY DEF Typed, AllRequests, Parents
  <2>2. Tables'
    <3>1. CASE UNCHANGED <<parents, next>>
      BY <1>1, <1>10, <3>1 DEF MakeParent, Tables
    <3>2. CASE parents' = Put1(parents, next, [name |-> call.parent, busy |-> FALSE]) /\ next' = next + 1
      <4>1. IsTable(parents', next', Parents)
        BY <1>1, <2>1, <3>2, PutTable
      <4>2. IsTable(rows', next', Rows) /\ next' \in Keys
        BY <1>1, <1>10, <3>2, LaterTable DEF MakeParent
      <4> QED BY <4>1, <4>2 DEF Tables
    <3> QED BY <1>10, <3>1, <3>2 DEF MakeParent
  <2>3. ref' \in {ref, next}
    BY <1>10 DEF MakeParent
  <2>4. Locals'
    BY <1>1, <1>10, <2>3 DEF MakeParent, Typed, Locals, Keys
  <2> QED BY <1>1, <1>2, <1>10, <2>2, <2>4 DEF MakeParent
<1>11. CASE ChangeParent
  <2>1. ref \in DOMAIN parents /\ parents[ref] \in Parents
    BY <1>1, <1>11 DEF ChangeParent, IsTable
  <2>2. IsTable(parents', next, Parents)
    <3>1. CASE UNCHANGED parents
      BY <1>1, <3>1
    <3>2. CASE \E busy \in BOOLEAN : parents' = [parents EXCEPT ![ref].busy = busy]
      <4>1. PICK b \in BOOLEAN : parents' = [parents EXCEPT ![ref].busy = b]
        BY <3>2
      <4>2. [parents[ref] EXCEPT !.busy = b] \in Parents
        BY <2>1 DEF Parents
      <4>3. parents' = [parents EXCEPT ![ref] = [parents[ref] EXCEPT !.busy = b]]
        BY <4>1
      <4> QED BY <1>1, <2>1, <4>2, <4>3, ChangeTable
    <3>3. CASE parents' = Drop1(parents, ref)
      BY <1>1, <3>3, DropTable
    <3> QED BY <1>11, <3>1, <3>2, <3>3 DEF ChangeParent
  <2>3. Tables'
    BY <1>1, <1>11, <2>2 DEF ChangeParent, Tables
  <2> QED BY <1>1, <1>2, <1>3, <1>11, <2>3 DEF ChangeParent
<1>12. CASE WriteAside
  BY <1>1, <1>2, <1>3, <1>12 DEF WriteAside, server, Tables
<1> QED BY <1>4, <1>5, <1>6, <1>7, <1>8, <1>9, <1>10, <1>11, <1>12 DEF Write

\* and what others do,
LEMMA WorldTypes == ASSUME Typed, World PROVE Typed'
<1>1. /\ next \in Keys /\ IsTable(rows, next, Rows) /\ IsTable(parents, next, Parents)
  BY DEF Typed, Tables
<1>2. Locals'
  BY DEF World, Typed, Locals, locals
<1>3. ASSUME OthersRows PROVE Tables'
  <2>1. ASSUME NEW n \in Names, NEW p \in DOMAIN parents, OtherCreates(n, p) PROVE Tables'
    <3>1. [OthersRow EXCEPT !.name = n, !.of = p] \in Rows
      BY <1>1 DEF OthersRow, Rows, IsTable
    <3>2. IsTable(rows', next', Rows)
      BY <1>1, <2>1, <3>1, PutTable DEF OtherCreates
    <3>3. IsTable(parents', next', Parents) /\ next' \in Keys
      BY <1>1, <1>3, <2>1, LaterTable DEF OtherCreates, OthersRows
    <3> QED BY <3>2, <3>3 DEF Tables
  <2>2. ASSUME NEW k \in DOMAIN rows, OtherSaves(k) PROVE Tables'
    <3>1. rows[k] \in Rows
      BY <1>1 DEF IsTable
    <3>2. ASSUME NEW r \in Rows, rows' = [rows EXCEPT ![k] = r] PROVE IsTable(rows', next, Rows)
      BY <1>1, <3>2, ChangeTable
    <3>3. ASSUME rows' = [rows EXCEPT ![k].theirs = TRUE] PROVE IsTable(rows', next, Rows)
      <4>1. [rows[k] EXCEPT !.theirs = TRUE] \in Rows
        BY <3>1 DEF Rows
      <4> QED BY <3>2, <3>3, <4>1
    <3>4. ASSUME rows' = [rows EXCEPT ![k].busy = ~@] PROVE IsTable(rows', next, Rows)
      <4>1. [rows[k] EXCEPT !.busy = ~@] \in Rows
        BY <3>1 DEF Rows
      <4> QED BY <3>2, <3>4, <4>1
    <3>5. ASSUME NEW n \in Names, rows' = [rows EXCEPT ![k].name = n] PROVE IsTable(rows', next, Rows)
      <4>1. [rows[k] EXCEPT !.name = n] \in Rows
        BY <3>1 DEF Rows
      <4> QED BY <3>2, <3>5, <4>1
    <3>6. ASSUME rows' = Drop1(rows, k) PROVE IsTable(rows', next, Rows)
      BY <1>1, <3>6, DropTable
    <3>7. IsTable(rows', next, Rows)
      BY <2>2, <3>3, <3>4, <3>5, <3>6 DEF OtherSaves
    <3> QED BY <1>1, <1>3, <2>2, <3>7 DEF OtherSaves, OthersRows, Tables
  <2> QED BY <1>3, <2>1, <2>2 DEF OthersRows
<1>4. ASSUME OthersParents PROVE Tables'
  <2>1. ASSUME NEW n \in Names, parents' = Put1(parents, next, [name |-> n, busy |-> FALSE]), next' = next + 1
        PROVE  Tables'
    <3>1. [name |-> n, busy |-> FALSE] \in Parents
      BY DEF Parents
    <3>2. IsTable(parents', next', Parents)
      BY <1>1, <2>1, <3>1, PutTable
    <3>3. IsTable(rows', next', Rows) /\ next' \in Keys
      BY <1>1, <1>4, <2>1, LaterTable DEF OthersParents
    <3> QED BY <3>2, <3>3 DEF Tables
  <2>2. ASSUME NEW p \in DOMAIN parents, next' = next,
               \/ parents' = Drop1(parents, p)
               \/ parents' = [parents EXCEPT ![p].busy = ~@]
               \/ \E n \in Names : parents' = [parents EXCEPT ![p].name = n]
        PROVE  Tables'
    <3>1. parents[p] \in Parents
      BY <1>1 DEF IsTable
    <3>2. ASSUME NEW r \in Parents, parents' = [parents EXCEPT ![p] = r] PROVE IsTable(parents', next, Parents)
      BY <1>1, <3>2, ChangeTable
    <3>3. ASSUME parents' = [parents EXCEPT ![p].busy = ~@] PROVE IsTable(parents', next, Parents)
      <4>1. [parents[p] EXCEPT !.busy = ~@] \in Parents
        BY <3>1 DEF Parents
      <4> QED BY <3>2, <3>3, <4>1
    <3>4. ASSUME NEW n \in Names, parents' = [parents EXCEPT ![p].name = n] PROVE IsTable(parents', next, Parents)
      <4>1. [parents[p] EXCEPT !.name = n] \in Parents
        BY <3>1 DEF Parents
      <4> QED BY <3>2, <3>4, <4>1
    <3>5. ASSUME parents' = Drop1(parents, p) PROVE IsTable(parents', next, Parents)
      BY <1>1, <3>5, DropTable
    <3>6. IsTable(parents', next, Parents)
      BY <2>2, <3>3, <3>4, <3>5
    <3> QED BY <1>1, <1>4, <2>2, <3>6 DEF OthersParents, Tables
  <2> QED BY <1>4, <2>1, <2>2 DEF OthersParents
<1>5. Tables'
  BY <1>3, <1>4 DEF World
<1>6. changes' \in 0 .. call.others
  BY DEF World, Typed, Ghosts, AllRequests
<1>7. stale' \subseteq {"row", "parent"}
  BY DEF World, OthersRows, OthersParents, Typed, Ghosts
<1> QED BY <1>2, <1>5, <1>6, <1>7 DEF World, ghosts, Typed, Ghosts

\* and so every step.
LEMMA StepTypes == ASSUME Typed, Marks, [Next]_vars PROVE Typed' /\ Marks'
<1>1. ASSUME Proceed PROVE Typed'
  BY <1>1, LocalTypes, ReadTypes, WriteTypes DEF Proceed
<1>2. ASSUME Fail PROVE Typed'
  BY <1>2, StaysTypes DEF Fail
<1>3. ASSUME World PROVE Typed'
  BY <1>3, WorldTypes
<1>4. ASSUME UNCHANGED vars PROVE Typed'
  BY <1>4 DEF vars, server, locals, ghosts, Typed, Tables, Locals, Ghosts
<1>5. Typed'
  BY <1>1, <1>2, <1>3, <1>4 DEF Next
<1>6. Mark \/ UNCHANGED <<meant, unscoped, disturbed>>
  BY DEF Next, Proceed, vars
<1>7. Named' \subseteq Keys
  BY <1>5 DEF Named, Typed, Tables, IsTable
<1>8. meant' \subseteq Keys
  BY <1>6, <1>7 DEF Mark, Marks
<1>9. unscoped' \in BOOLEAN /\ disturbed' \in BOOLEAN
  BY <1>6, Zenon DEF Mark, Marks
<1> QED BY <1>5, <1>8, <1>9 DEF Marks

TypesAndControl == Control /\ Typed /\ Marks

\* Both invariants hold throughout.
LEMMA ControlAndTypes == Spec => []TypesAndControl
<1>1. Init => TypesAndControl
  BY InitControl, InitTypes DEF TypesAndControl
<1>2. TypesAndControl /\ [Next]_vars => TypesAndControl'
  BY StepControl, StepTypes DEF TypesAndControl
<1> QED BY <1>1, <1>2, PTL DEF Spec

\* Every reachable state of a call of any manager's method is well typed, whatever others do
\* and whichever of its requests fail.
THEOREM CallsTypes == Spec => []TypeOK
<1>1. ASSUME TypesAndControl PROVE TypeOK
  <2>1. done \subseteq 1 .. Len(Script)
    BY <1>1, WriteIndex DEF TypesAndControl, Control
  <2>2. /\ IsTable(rows, next, Rows) /\ IsTable(parents, next, Parents) /\ next \in Keys
        /\ call \in AllRequests
    BY <1>1 DEF TypesAndControl, Typed, Tables
  <2>3. /\ key \in Nat /\ ref \in Nat /\ row \in RowCopies
        /\ batch \subseteq Keys /\ left \subseteq batch
        /\ answer \in {"none", "row", "key", "no_key", "empty"} /\ parentBusy \in BOOLEAN
    BY <1>1 DEF TypesAndControl, Typed, Locals
  <2>4. /\ changes \in 0 .. call.others /\ made \in Nat /\ touched \subseteq Keys
        /\ stale \subseteq {"row", "parent"}
        /\ meant \subseteq Keys /\ unscoped \in BOOLEAN /\ disturbed \in BOOLEAN
    BY <1>1 DEF TypesAndControl, Typed, Ghosts, Marks
  <2>5. at \in 1 .. Len(Script) + 1 /\ verdict \in Verdicts
    BY <1>1 DEF TypesAndControl, Control
  <2> QED BY <2>1, <2>2, <2>3, <2>4, <2>5 DEF TypeOK, RowCopies
<1> QED BY <1>1, ControlAndTypes, PTL

-----------------------------------------------------------------------------

(* Bulk deletion.                                                          *)

\* Keys are given once: a row that is gone does not come back.
LEMMA ServerSteps ==
    ASSUME Typed, [Next]_vars
    PROVE  /\ next' \in Nat /\ next <= next'
           /\ touched \subseteq touched'
           /\ \A k \in DOMAIN rows' : k \in DOMAIN rows \/ k = next
           /\ next \in DOMAIN rows' => next < next'
<1> DEFINE Goal == /\ next' \in Nat /\ next <= next'
                   /\ touched \subseteq touched'
                   /\ \A k \in DOMAIN rows' : k \in DOMAIN rows \/ k = next
                   /\ next \in DOMAIN rows' => next < next'
<1> USE DEF Keys
<1>1. next \in Nat /\ \A k \in DOMAIN rows : k < next
  BY DEF Typed, Tables, IsTable
<1>2. ASSUME UNCHANGED <<rows, next, touched>> PROVE Goal
  BY <1>1, <1>2
<1>3. ASSUME NEW r, rows' = Put1(rows, next, r), next' = next + 1, touched' = touched PROVE Goal
  BY <1>1, <1>3 DEF Put1
<1>4. ASSUME DOMAIN rows' \subseteq DOMAIN rows, next' = next, touched \subseteq touched' PROVE Goal
  BY <1>1, <1>4
<1>5. \A k : DOMAIN Drop1(rows, k) \subseteq DOMAIN rows
  BY DEF Drop1, Restrict
<1>6. ASSUME rows' = rows, next' = next + 1, touched' = touched PROVE Goal
  BY <1>1, <1>6
<1>7. ASSUME NoEffect PROVE Goal
  BY <1>2, <1>7 DEF NoEffect, server, ghosts
<1>8. ASSUME Local PROVE Goal
  BY <1>7, <1>8 DEF Local, Refuse, Validate, Check, CheckParent, RefuseFound, NeedAnswer, NeedKey,
                StopIfFound, Pause, Skip, Test, Stays, Follow, Note
<1>9. ASSUME Read PROVE Goal
  BY <1>7, <1>9 DEF Read, Get, Find, FindCreated, First, Last, Peek, Wait, List, Resolve, GetParent,
                ReadAside, Stays, LookedAtRow, LookedAtParent
<1>10. ASSUME Write PROVE Goal
  <2>1. ASSUME Post PROVE Goal
    BY <1>3, <2>1 DEF Post
  <2>2. ASSUME Put PROVE Goal
    BY <1>4, <2>2 DEF Put
  <2>3. ASSUME Act PROVE Goal
    BY <1>4, <2>3 DEF Act
  <2>4. ASSUME Delete PROVE Goal
    BY <1>4, <1>5, <2>4 DEF Delete
  <2>5. ASSUME Missing \/ ParentMissing PROVE Goal
    BY <1>7, <2>5 DEF Missing, ParentMissing, Stays
  <2>6. ASSUME DeleteEach PROVE Goal
    BY <1>2, <1>4, <1>5, <2>6 DEF DeleteEach, server
  <2>7. ASSUME MakeParent PROVE Goal
    BY <1>2, <1>6, <2>7 DEF MakeParent
  <2>8. ASSUME ChangeParent \/ WriteAside PROVE Goal
    BY <1>2, <2>8 DEF ChangeParent, WriteAside, server
  <2> QED BY <1>10, <2>1, <2>2, <2>3, <2>4, <2>5, <2>6, <2>7, <2>8 DEF Write
<1>11. ASSUME World PROVE Goal
  <2>1. touched' = touched
    BY <1>11 DEF World, ghosts
  <2>2. ASSUME NEW n \in Names, NEW q \in DOMAIN parents, OtherCreates(n, q) PROVE Goal
    BY <1>3, <2>1, <2>2 DEF OtherCreates
  <2>3. ASSUME NEW k \in DOMAIN rows, OtherSaves(k) PROVE Goal
    BY <1>4, <1>5, <2>1, <2>3 DEF OtherSaves
  <2>4. ASSUME OthersParents PROVE Goal
    BY <1>2, <1>6, <2>1, <2>4 DEF OthersParents
  <2> QED BY <1>11, <2>2, <2>3, <2>4 DEF World, OthersRows
<1>12. ASSUME Fail \/ UNCHANGED vars PROVE Goal
  BY <1>2, <1>7, <1>12 DEF Fail, Stays, vars, server, ghosts
<1> QED BY <1>8, <1>9, <1>10, <1>11, <1>12 DEF Next, Proceed

\* What has been worked on is gone for good.
Bulk == /\ \A k \in batch : k < next
        /\ \A k \in batch \ left : k \in touched /\ ~Live(k)
        /\ HadBefore({"delete each"}) => left = {}

Each == {"delete each"}

\* Only a listing and a deletion change what there is left to delete.
LEMMA BatchSteps ==
    ASSUME [Next]_vars
    PROVE  List \/ DeleteEach \/ (batch' = batch /\ left' = left /\ (at' = at \/ Step \notin Each))
<1> DEFINE Goal == batch' = batch /\ left' = left /\ (at' = at \/ Step \notin Each)
<1> USE DEF Each
<1>1. ASSUME Local PROVE Goal
  BY <1>1 DEF Local, Refuse, Validate, Check, CheckParent, RefuseFound, NeedAnswer, NeedKey,
              StopIfFound, Pause, Skip, Needless, Test, Stays, Follow, Note, locals
<1>2. ASSUME Read, ~List PROVE Goal
  BY <1>2 DEF Read, Get, Find, FindCreated, First, Last, Peek, Wait, Resolve, GetParent, ReadAside,
              OneOf, Found, Without, SeeParent, Unresolved, Stays, locals, ParentReads, Asides
<1>3. ASSUME Write, ~DeleteEach PROVE Goal
  BY <1>3 DEF Write, Post, Put, Act, Delete, Missing, MakeParent, ChangeParent, ParentMissing, WriteAside,
              Stays, locals, ParentWrites
<1>4. ASSUME Fail \/ World \/ UNCHANGED vars PROVE Goal
  BY <1>4 DEF Fail, End, World, Stays, locals, vars
<1> QED BY <1>1, <1>2, <1>3, <1>4 DEF Next, Proceed

\* The order of places.
LEMMA Ordered == \A i, j \in Nat : (i <= j \/ i < j) => ~(j < i)
OBVIOUS

\* A place of a step is in the script.
LEMMA PlaceIndex ==
    ASSUME NEW c \in Requests, NEW S, NEW i \in Places(c, S)
    PROVE  i \in Nat /\ i >= 1 /\ i <= Len(c.script) /\ c.script[i] \in S
<1>1. Len(c.script) \in Nat
  BY ScriptOf
<1>2. i \in 1 .. Len(c.script) /\ c.script[i] \in S
  BY DEF Places
<1> QED BY <1>1, <1>2

\* The step that is next has its place.
LEMMA PlaceHere ==
    ASSUME call \in Requests, NEW S, At(S)
    PROVE  at \in Places(call, S) /\ at \in Nat
<1>1. Len(Script) \in Nat
  BY ScriptOf
<1> QED BY <1>1 DEF Places

\* A call stays at its step or takes the next one.
LEMMA AtSteps ==
    ASSUME TypesAndControl, [Next]_vars
    PROVE  at \in Nat /\ (at' = at \/ (at' = at + 1 /\ Running /\ at \in 1 .. Len(Script)))
<1>1. Len(Script) \in Nat /\ at \in Nat
  BY ScriptOf DEF TypesAndControl, Control
<1>2. CASE Passes \/ Pays
  BY <1>1, <1>2 DEF Passes, Pays, GoOn, Ready
<1>3. CASE Breaks \/ Leaves \/ Rests
  BY <1>1, <1>3 DEF Breaks, Leaves, Rests, End
<1> QED BY <1>2, <1>3, StepKinds DEF Kinds

\* Only a running call moves.
LEMMA Moved == ASSUME TypesAndControl, [Next]_vars, at' = at + 1 PROVE at \in 1 .. Len(Script) /\ Running
BY AtSteps

\* What is behind a call stays behind it, and grows by the step it takes.
LEMMA Behind ==
    ASSUME TypesAndControl, [Next]_vars, NEW S
    PROVE  /\ HadBefore(S) => HadBefore(S)'
           /\ HadBefore(S)' => HadBefore(S) \/ (at' # at /\ Running /\ Step \in S)
           /\ Has(S)' = Has(S)
<1>1. call' = call /\ Kinds
  BY StepKinds
<1>2. Places(call, S)' = Places(call, S)
  BY <1>1 DEF Places
<1>3. at \in Nat /\ (at' = at \/ (at' = at + 1 /\ Running /\ at \in 1 .. Len(Script)))
  BY AtSteps
<1>4. \A i \in Places(call, S) : i \in Nat /\ Script[i] \in S
  BY DEF Places
<1>5. ASSUME HadBefore(S) PROVE HadBefore(S)'
  BY <1>2, <1>3, <1>4, <1>5 DEF HadBefore
<1>6. ASSUME HadBefore(S)' PROVE HadBefore(S) \/ (at' # at /\ Running /\ Step \in S)
  <2>1. PICK i \in Places(call, S) : i < at'
    BY <1>2, <1>6 DEF HadBefore
  <2>2. CASE i < at
    BY <2>1, <2>2 DEF HadBefore
  <2>3. CASE ~(i < at)
    <3>1. i = at /\ at' = at + 1
      BY <1>3, <1>4, <2>1, <2>3
    <3> QED BY <1>3, <1>4, <3>1
  <2> QED BY <2>2, <2>3
<1>7. Has(S)' = Has(S)
  BY <1>2 DEF Has, Uses
<1> QED BY <1>5, <1>6, <1>7

\* Every step keeps it.  A listing never follows a deletion (BulkAssumption).
LEMMA StepBulk == ASSUME TypesAndControl, Bulk, [Next]_vars PROVE Bulk'
<1>1. /\ next' \in Nat /\ next <= next'
      /\ touched \subseteq touched'
      /\ \A k \in DOMAIN rows' : k \in DOMAIN rows \/ k = next
      /\ next \in DOMAIN rows' => next < next'
      /\ next \in Nat
  BY ServerSteps DEF TypesAndControl, Typed, Tables, Keys
<1>2. /\ batch \subseteq Nat /\ left \subseteq batch
      /\ \A k \in DOMAIN rows : k < next
  BY DEF TypesAndControl, Typed, Locals, Tables, IsTable, Keys
<1>3. /\ \A k \in batch : k < next'
      /\ \A k \in batch \ left : k \in touched' /\ k \notin DOMAIN rows'
  <2> SUFFICES ASSUME NEW k \in batch
               PROVE  k < next' /\ (k \notin left => k \in touched' /\ k \notin DOMAIN rows')
    OBVIOUS
  <2>1. k \in Nat /\ k < next
    BY <1>2 DEF Bulk
  <2>2. k \notin left => k \in touched /\ k \notin DOMAIN rows
    BY DEF Bulk, Live
  <2> QED BY <1>1, <2>1, <2>2
<1>4. CASE batch' = batch /\ left' = left /\ (at' = at \/ Step \notin Each)
  BY <1>3, <1>4, Behind DEF Bulk, Live, Each
<1>5. CASE List
  <2>1. batch' \subseteq DOMAIN rows /\ left' = batch' /\ rows' = rows /\ Step \in Listings
    BY <1>5 DEF List, NoEffect, server
  <2>2. ~HadBefore({"delete each"})
    <3>1. at \in Places(call, Listings) /\ call \in Requests /\ at \in Nat
      BY <1>5, PlaceHere DEF List, TypesAndControl, Control
    <3>2. \A i \in Places(call, {"delete each"}) : i \in Nat
      BY <3>1, PlaceIndex
    <3>3. \A i \in Places(call, {"delete each"}) : at < i
      BY <3>1, BulkAssumption
    <3>4. ASSUME NEW i \in Places(call, {"delete each"}) PROVE ~(i < at)
      <4>1. i \in Nat /\ at \in Nat /\ at < i
        BY <3>1, <3>2, <3>3
      <4> QED BY <4>1, Ordered
    <3> QED BY <3>4 DEF HadBefore
  <2>3. ~HadBefore({"delete each"})'
    <3>1. "delete each" \notin Listings
      BY DEF Listings
    <3>2. HadBefore({"delete each"})' => HadBefore({"delete each"}) \/ Step \in {"delete each"}
      BY Behind
    <3> QED BY <2>1, <2>2, <3>1, <3>2
  <2>4. \A k \in batch' : k < next'
    <3> SUFFICES ASSUME NEW k \in batch' PROVE k < next'
      OBVIOUS
    <3>1. k \in Nat /\ k < next
      BY <1>2, <2>1 DEF TypesAndControl, Typed, Tables, IsTable, Keys
    <3> QED BY <1>1, <3>1
  <2>5. batch' \ left' = {}
    BY <2>1
  <2> QED BY <2>3, <2>4, <2>5 DEF Bulk
<1>6. CASE DeleteEach
  <2>1. CASE left = {} /\ UNCHANGED <<server, locals, touched>>
    BY <1>3, <2>1 DEF Bulk, Live, locals, server
  <2>2. CASE \E k \in left : /\ Live(k) /\ rows' = Drop1(rows, k) /\ touched' = touched \cup {k}
                            /\ \/ left' = left \ {k} /\ UNCHANGED <<at, verdict>>
                               \/ UNCHANGED left /\ End("failed")
                            /\ UNCHANGED batch
    <3>1. PICK k \in left : /\ Live(k) /\ rows' = Drop1(rows, k) /\ touched' = touched \cup {k}
                            /\ \/ left' = left \ {k} /\ UNCHANGED <<at, verdict>>
                               \/ UNCHANGED left /\ End("failed")
                            /\ UNCHANGED batch
      BY <2>2
    <3>2. k \notin DOMAIN rows' /\ k \in touched' /\ at' = at /\ left' \subseteq left
      BY <3>1 DEF Drop1, Restrict, End
    <3>3. HadBefore({"delete each"})' => left' = {}
      BY <3>2, Behind DEF Bulk
    <3>4. \A j \in batch' \ left' : j = k \/ j \in batch \ left
      BY <3>1
    <3> QED BY <1>3, <3>1, <3>2, <3>3, <3>4 DEF Bulk, Live
  <2>3. CASE End("not_found") /\ UNCHANGED <<server, locals, touched>>
    <3>1. HadBefore({"delete each"})' => left' = {}
      BY <2>3, Behind DEF Bulk, End, locals
    <3> QED BY <1>3, <2>3, <3>1 DEF Bulk, Live, locals, server
  <2> QED BY <1>6, <2>1, <2>2, <2>3 DEF DeleteEach
<1> QED BY <1>4, <1>5, <1>6, BatchSteps

\* A bulk revocation that returns has worked through every row it listed, and none of them
\* exists any more, whatever others create and delete meanwhile.
THEOREM CallsDeleteAll == Spec => []BulkDeleteIsComplete
<1>1. Init => Bulk
  <2> SUFFICES ASSUME Init PROVE Bulk
    OBVIOUS
  <2>1. ~HadBefore({"delete each"})
    <3>1. ASSUME NEW i \in Places(call, {"delete each"}) PROVE ~(i < at)
      <4>1. i \in Nat /\ at \in Nat /\ at <= i
        BY PlaceIndex DEF Init
      <4> QED BY <4>1, Ordered
    <3> QED BY <3>1 DEF HadBefore
  <2> QED BY <2>1 DEF Init, Bulk
<1>2. TypesAndControl /\ Bulk /\ [Next]_vars => Bulk'
  BY StepBulk
<1>3. Bulk => BulkDeleteIsComplete
  BY DEF Bulk, BulkDeleteIsComplete, Live
<1> QED BY <1>1, <1>2, <1>3, ControlAndTypes, PTL DEF Spec

-----------------------------------------------------------------------------

(* Only what was meant.  What a search may return is what the caller named, *)
(* since it has settled where to look before it looks; what it works on was *)
(* found, named by key or created.                                          *)

Wanted(k) == Here(k) /\ (Step \in ByNameSteps => rows[k].name = call.name)
Sought == {k \in DOMAIN rows : At(Searches) /\ Wanted(k)}
Worked == {key} \cap DOMAIN rows

\* A call that still has its place has not dropped it.
LEMMA StillScoped == ASSUME [Next]_vars, ~unscoped' PROVE ~unscoped /\ ~DropsPlace
<1>1. CASE Mark
  BY <1>1 DEF Mark
<1>2. CASE UNCHANGED vars
  BY <1>2 DEF vars, DropsPlace
<1> QED BY <1>1, <1>2 DEF Next, Proceed

\* A call that goes on has left its step.
LEMMA GoesOn == ASSUME Control, GoOn PROVE at' # at
<1>1. at \in 1 .. Len(Script) + 1 /\ Len(Script) \in Nat
  BY ScriptOf DEF Control
<1>2. at \in Int
  BY <1>1
<1>3. at' = at + 1
  BY DEF GoOn
<1> QED BY <1>2, <1>3

SearchesDef == Searches = {"peek", "find", "find created", "find if keyless", "find created if keyless",
                           "peek any", "first", "first if keyless", "last", "last if keyless",
                           "list", "list loose", "collect"}
\* The steps that search, in full.
LEMMA SearchSteps == SearchesDef
BY DEF SearchesDef, Searches, ByNameSteps, AnySteps, Listings

\* Where the keys a call holds after a step come from.
FromSearch == /\ key' \in {key, NoKey, made'} \cup Sought
              /\ row'.key \in {row.key, NoKey, made'} \cup Sought \cup Worked
              /\ batch' \subseteq batch \cup Sought
              /\ touched' \subseteq touched \cup Worked \cup batch
              /\ made' = made \/ Post

\* A test of the client takes no key from elsewhere,
LEMMA LocalSearch == ASSUME TypesAndControl, Local PROVE FromSearch
<1>1. row \in RowCopies
  BY DEF TypesAndControl, Typed, Locals
<1>2. ASSUME Stays PROVE FromSearch
  BY <1>2 DEF FromSearch, Stays, NoEffect, locals, ghosts
<1>3. CASE Follow
  BY <1>3 DEF FromSearch, Follow, NoEffect, ghosts
<1>4. CASE Note
  <2>1. row'.key = row.key
    BY <1>1, <1>4 DEF Note, RowCopies
  <2> QED BY <1>4, <2>1 DEF FromSearch, Note, NoEffect, ghosts
<1> QED BY <1>2, <1>3, <1>4 DEF Local, Refuse, Validate, Check, CheckParent, RefuseFound, NeedAnswer, NeedKey,
              StopIfFound, Pause, Skip, Test

\* a read only those it searched for, or its own,
LEMMA ReadSearch == ASSUME TypesAndControl, Read, ~DropsPlace PROVE FromSearch
<1> USE SearchSteps DEF SearchesDef
<1>1. ASSUME NoEffect, batch' = batch,
             (key' = key /\ row' = row) \/ (key' = NoKey /\ row' = Nothing)
               \/ (\E k \in Sought \cup Worked : Found(k))
      PROVE  FromSearch
  <2>1. touched' = touched /\ made' = made
    BY <1>1 DEF NoEffect, ghosts
  <2>2. Nothing.key = NoKey
    BY DEF Nothing
  <2>3. ASSUME NEW k \in Sought \cup Worked, Found(k) PROVE key' = k /\ row'.key = k
    BY <2>3 DEF Found, CopyOf
  <2>4. key' \in {key, NoKey} \cup Sought /\ row'.key \in {row.key, NoKey} \cup Sought \cup Worked
    BY <1>1, <2>2, <2>3 DEF Worked
  <2> QED BY <1>1, <2>1, <2>4 DEF FromSearch
<1>2. ASSUME NEW S, NEW why, S \subseteq Sought \cup Worked, OneOf(S, why), NoEffect PROVE FromSearch
  <2>1. CASE \E k \in S : Found(k)
    <3>1. PICK k \in Sought \cup Worked : Found(k)
      BY <1>2, <2>1
    <3>2. batch' = batch
      BY <3>1 DEF Found
    <3> QED BY <1>1, <1>2, <3>1, <3>2
  <2>2. CASE Without(why)
    BY <1>1, <1>2, <2>2 DEF Without, locals
  <2> QED BY <1>2, <2>1, <2>2 DEF OneOf
<1>3. CASE Get
  BY <1>2, <1>3 DEF Get, LookedAtRow, Worked
<1>4. ASSUME At(Searches) PROVE OfTheName \subseteq Sought
  BY <1>4 DEF OfTheName, Sought, Wanted
<1>5. CASE Find
  BY <1>2, <1>4, <1>5 DEF Find, LookedAtRow
<1>6. CASE FindCreated
  BY <1>2, <1>4, <1>6 DEF FindCreated, LookedAtRow
<1>7. ASSUME At(AnySteps) PROVE At(Searches) /\ \A k \in DOMAIN rows : Here(k) => k \in Sought
  BY <1>7 DEF Sought, Wanted, Searches, AnySteps, ByNameSteps, Listings
<1>8. CASE First
  <2>1. At(AnySteps)
    BY <1>8 DEF First, AnySteps
  <2> QED BY <1>2, <1>7, <1>8, <2>1 DEF First, LookedAtRow
<1>9. CASE Last
  <2>1. At(AnySteps)
    BY <1>9 DEF Last, AnySteps
  <2>2. {k \in DOMAIN rows : Here(k) /\ \A j \in DOMAIN rows : Here(j) => j <= k} \subseteq Sought
    BY <1>7, <2>1
  <2> QED BY <1>2, <1>9, <2>2 DEF Last, LookedAtRow
<1>10. CASE Peek
  <2>1. OfTheName \subseteq Sought
    BY <1>4, <1>10 DEF Peek
  <2>2. CASE \E k \in Sought : Found(k)
    <3>1. batch' = batch
      BY <2>2 DEF Found
    <3> QED BY <1>1, <1>10, <2>2, <3>1 DEF Peek, LookedAtRow
  <2>3. CASE key' = NoKey /\ row' = Nothing /\ batch' = batch
    BY <1>1, <1>10, <2>3 DEF Peek, LookedAtRow
  <2>4. Step # "peek" => \A k \in DOMAIN rows : Here(k) => k \in Sought
    BY <1>7, <1>10 DEF Peek, AnySteps
  <2> QED BY <1>10, <2>1, <2>2, <2>3, <2>4 DEF Peek
<1>11. CASE Wait
  <2>1. CASE Live(key) /\ Found(key)
    <3>1. key \in Worked /\ batch' = batch
      BY <2>1 DEF Worked, Live, Found
    <3> QED BY <1>1, <1>11, <2>1, <3>1 DEF Wait, LookedAtRow
  <2>2. CASE \E why : Without(why)
    BY <1>1, <1>11, <2>2 DEF Wait, Without, locals, LookedAtRow
  <2> QED BY <1>11, <2>1, <2>2 DEF Wait
<1>12. CASE List
  <2>1. At(Listings) /\ at' # at
    BY <1>12, GoesOn DEF List, TypesAndControl
  <2>2. At(AnySteps)
    BY <2>1 DEF AnySteps
  <2>3. Step = "list loose" => \A k \in DOMAIN rows : Here(k)
    BY <2>1 DEF DropsPlace, Here
  <2>4. batch' \subseteq Sought
    BY <1>7, <1>12, <2>2, <2>3 DEF List
  <2> QED BY <1>12, <2>4 DEF FromSearch, List, NoEffect, ghosts
<1>13. CASE Resolve
  <2>1. key' = key /\ row' = row /\ batch' = batch
    BY <1>13 DEF Resolve, SeeParent, Unresolved, Without, locals
  <2> QED BY <1>1, <1>13, <2>1 DEF Resolve, LookedAtParent
<1>14. CASE GetParent
  <2>1. key' = key /\ row' = row /\ batch' = batch
    BY <1>14 DEF GetParent, SeeParent, Without, locals
  <2> QED BY <1>1, <1>14, <2>1 DEF GetParent, LookedAtParent
<1>15. CASE ReadAside
  BY <1>1, <1>15 DEF ReadAside, Stays, locals
<1> QED BY <1>3, <1>5, <1>6, <1>8, <1>9, <1>10, <1>11, <1>12, <1>13, <1>14, <1>15 DEF Read

\* and a write only that of the row it creates or works on.
LEMMA WriteSearch == ASSUME TypesAndControl, Write PROVE FromSearch
<1>1. left \subseteq batch /\ row \in RowCopies
  BY DEF TypesAndControl, Typed, Locals
<1>2. ASSUME UNCHANGED <<key, row, batch, made>>, touched' \subseteq touched \cup Worked \cup batch
      PROVE  FromSearch
  BY <1>2 DEF FromSearch
<1>3. CASE Post
  <2>1. Nothing.key = NoKey /\ [Nothing EXCEPT !.key = next].key = next /\ CopyOf(next, NewRow).key = next
    BY DEF Nothing, CopyOf
  <2>2. made' = next /\ key' \in {key, next, NoKey}
    BY <1>3 DEF Post
  <2>3. row' \in {row, CopyOf(next, NewRow), [Nothing EXCEPT !.key = next], Nothing}
    BY <1>3 DEF Post
  <2>4. row'.key \in {row.key, next, NoKey}
    BY <2>1, <2>3
  <2> QED BY <1>3, <2>2, <2>4 DEF FromSearch, Post
<1>4. CASE Put
  <2>1. key \in Worked
    BY <1>4 DEF Put, Live, Worked
  <2>2. [CopyOf(key, rows[key]) EXCEPT !.mine = TRUE].key = key
    BY DEF CopyOf
  <2>3. row'.key \in {row.key, key}
    BY <1>4, <2>2 DEF Put
  <2> QED BY <1>4, <2>1, <2>3 DEF FromSearch, Put
<1>5. CASE Act \/ Delete
  <2>1. touched' = touched \cup {key} /\ key \in Worked /\ UNCHANGED <<locals, made>>
    BY <1>5 DEF Act, Delete, Live, Worked
  <2> QED BY <1>2, <2>1 DEF locals
<1>6. CASE Missing \/ ParentMissing
  BY <1>2, <1>6 DEF Missing, ParentMissing, Stays, NoEffect, locals, ghosts
<1>7. CASE DeleteEach
  BY <1>1, <1>2, <1>7 DEF DeleteEach, locals
<1>8. CASE MakeParent \/ ChangeParent \/ WriteAside
  BY <1>2, <1>8 DEF MakeParent, ChangeParent, WriteAside, locals
<1> QED BY <1>3, <1>4, <1>5, <1>6, <1>7, <1>8 DEF Write

\* So it is for every step.
LEMMA StepSearch == ASSUME TypesAndControl, [Next]_vars, ~DropsPlace PROVE FromSearch
<1>1. ASSUME UNCHANGED <<locals, ghosts>> PROVE FromSearch
  BY <1>1 DEF FromSearch, locals, ghosts
<1>2. ASSUME Fail \/ World \/ UNCHANGED vars PROVE FromSearch
  BY <1>1, <1>2 DEF Fail, Stays, NoEffect, World, vars
<1> QED BY <1>2, LocalSearch, ReadSearch, WriteSearch DEF Next, Proceed

\* Where the call looks is settled before it searches.
Settled == Has(Searches) => (HadBefore(ParentReads) => ref # NoKey)
Unsettling == {"peek parent", "follow"}

\* A settled place stays settled, and the step that settles it ends the call otherwise.
LEMMA RefSteps ==
    ASSUME TypesAndControl, [Next]_vars, ~At(Unsettling), ~DropsPlace
    PROVE  /\ ref' = ref \/ ref' # NoKey
           /\ At(ParentReads) => at' = at \/ ref' # NoKey
<1> DEFINE Goal == /\ ref' = ref \/ ref' # NoKey
                   /\ At(ParentReads) => at' = at \/ ref' # NoKey
<1>1. next # NoKey /\ NoKey \notin DOMAIN parents
  BY DEF TypesAndControl, Typed, Tables, IsTable, Keys
<1>2. ASSUME ref' = ref, ~At(ParentReads) \/ at' = at PROVE Goal
  BY <1>2
<1>3. ParentReads \subseteq {"resolve", "resolve or invalid", "resolve or ignore", "resolve or empty",
                            "peek parent", "get parent"}
  BY DEF ParentReads
<1>4. ASSUME Follow PROVE Goal
  <2>1. at' # at
    BY <1>4, GoesOn DEF Follow, TypesAndControl
  <2>2. ref' = ref /\ ~At(ParentReads)
    BY <1>3, <1>4, <2>1 DEF Follow, Unsettling, DropsPlace
  <2> QED BY <1>2, <2>2
<1>13. ASSUME Local PROVE Goal
  BY <1>2, <1>3, <1>4, <1>13 DEF Local, Refuse, Validate, Check, CheckParent, RefuseFound, NeedAnswer, NeedKey,
     StopIfFound, Pause, Skip, Needless, Test, Stays, Note, locals
<1>5. ASSUME NEW q \in DOMAIN parents, SeeParent(q) PROVE Goal
  BY <1>1, <1>5 DEF SeeParent
<1>6. ASSUME NEW why, Without(why) PROVE Goal
  BY <1>2, <1>6 DEF Without, End, locals
<1>7. ASSUME Resolve PROVE Goal
  <2>1. CASE \E q \in DOMAIN parents : SeeParent(q)
    BY <1>5, <2>1
  <2>2. CASE Unresolved
    <3>1. GoOn => at' # at
      BY GoesOn DEF TypesAndControl
    <3>2. Step \notin {"resolve or ignore", "peek parent"} \/ ~GoOn \/ ref' # NoKey
      BY <1>7, <3>1 DEF Resolve, Unsettling, DropsPlace
    <3>3. \E why : Without(why)
      BY <2>2, <3>2 DEF Unresolved
    <3> QED BY <1>6, <3>3
  <2> QED BY <1>7, <2>1, <2>2 DEF Resolve
<1>8. ASSUME GetParent PROVE Goal
  BY <1>5, <1>6, <1>8 DEF GetParent
<1>9. ASSUME Get \/ Find \/ FindCreated \/ First \/ Last \/ Peek \/ Wait \/ List \/ ReadAside PROVE Goal
  BY <1>2, <1>3, <1>9 DEF Get, Find, FindCreated, First, Last, Peek, Wait, List, ReadAside,
     OneOf, Found, Without, Stays, locals, Listings, Asides
<1>10. ASSUME Write, ~MakeParent PROVE Goal
  BY <1>2, <1>3, <1>10 DEF Write, Post, Put, Act, Delete, Missing, DeleteEach, ChangeParent, ParentMissing,
     WriteAside, Stays, locals, ParentWrites
<1>11. ASSUME MakeParent PROVE Goal
  BY <1>1, <1>2, <1>3, <1>11 DEF MakeParent
<1>12. ASSUME Fail \/ World \/ UNCHANGED vars PROVE Goal
  BY <1>2, <1>12 DEF Fail, End, World, Stays, locals, vars
<1> QED BY <1>7, <1>8, <1>9, <1>10, <1>11, <1>12, <1>13 DEF Next, Proceed, Read

\* Every step keeps Settled: searches come after what settles their place (SearchAssumption).
LEMMA StepSettled == ASSUME TypesAndControl, Settled, [Next]_vars, ~DropsPlace PROVE Settled'
<1> SUFFICES ASSUME Has(Searches)', HadBefore(ParentReads)' PROVE ref' # NoKey
  BY DEF Settled
<1>1. Has(Searches) /\ call \in Requests
  BY Behind DEF TypesAndControl, Control
<1>2. ~At(Unsettling)
  <2>1. ~Uses(call, {"peek parent", "follow"})
    BY <1>1, SearchAssumption DEF Has
  <2> QED BY <1>1, <2>1, PlaceHere DEF Uses, Unsettling
<1>3. HadBefore(ParentReads) \/ (at' # at /\ Running /\ Step \in ParentReads)
  BY Behind
<1>4. CASE HadBefore(ParentReads)
  BY <1>1, <1>2, <1>4, RefSteps DEF Settled
<1>5. CASE at' # at /\ Running /\ Step \in ParentReads
  <2>1. at \in 1 .. Len(Script)
    BY <1>5 DEF TypesAndControl, Control
  <2> QED BY <1>2, <1>5, <2>1, RefSteps
<1> QED BY <1>3, <1>4, <1>5

\* A call creates one row.
OneRow == made # NoKey /\ Running => HadBefore({"post"})

\* There is no second creation (PostAssumption).
LEMMA PostFirst == ASSUME TypesAndControl, OneRow, Post PROVE made = NoKey
<1>1. call \in Requests /\ at \in Places(call, {"post"}) /\ at \in Nat
  BY PlaceHere DEF Post, TypesAndControl, Control
<1>2. ASSUME NEW i \in Places(call, {"post"}) PROVE ~(i < at)
  <2>1. i = at
    BY <1>1, PostAssumption
  <2> QED BY <1>1, <2>1, Ordered
<1>3. ~HadBefore({"post"})
  BY <1>2 DEF HadBefore
<1> QED BY <1>3 DEF OneRow, Post

\* Every step keeps OneRow.
LEMMA StepOneRow == ASSUME TypesAndControl, OneRow, [Next]_vars, made' = made \/ Post PROVE OneRow'
<1> SUFFICES ASSUME made' # NoKey, Running' PROVE HadBefore({"post"})'
  BY DEF OneRow
<1>1. Running
  BY StepKinds DEF Kinds, Passes, Pays, Breaks, Leaves, Rests, Ready
<1>2. CASE made' = made
  BY <1>1, <1>2, Behind DEF OneRow
<1>3. CASE Post
  <2>1. at \in Places(call, {"post"}) /\ at \in Nat /\ at' = at + 1 /\ call' = call
    BY <1>3, PlaceHere DEF Post, End, GoOn, TypesAndControl, Control
  <2>2. at < at'
    BY <2>1
  <2>3. Places(call, {"post"})' = Places(call, {"post"})
    BY <2>1 DEF Places
  <2> QED BY <2>1, <2>2, <2>3 DEF HadBefore
<1> QED BY <1>2, <1>3

\* The strengthening of OnlyMeant: all keys the call holds are of rows that were meant.
Means == /\ Named \subseteq meant
         /\ key \in {NoKey, made, call.key} \cup meant
         /\ row.key \in {NoKey, made} \cup meant
         /\ batch \subseteq {made} \cup meant
         /\ touched \subseteq {made} \cup meant

\* What a search may find is what the caller named.
LEMMA SoughtNamed == ASSUME TypesAndControl, Settled PROVE Sought \subseteq Named
<1> SUFFICES ASSUME NEW k \in Sought PROVE IsNamed(k)
  BY DEF Named, Sought
<1>1. k \in DOMAIN rows /\ At(Searches) /\ Wanted(k) /\ call \in Requests
  BY DEF Sought, TypesAndControl, Control
<1>2. at \in Places(call, Searches)
  BY <1>1, PlaceHere
<1>3. Uses(call, Searches)
  BY <1>2 DEF Uses
<1>4. /\ call.key = NoKey
      /\ ~Uses(call, ByNameSteps) \/ ~Uses(call, AnySteps)
      /\ Uses(call, ParentReads) => \E j \in Places(call, ParentReads) : j < at
  BY <1>1, <1>2, <1>3, SearchAssumption
<1>5. Has(ByNameSteps) => Step \in ByNameSteps
  <2>1. ASSUME Step \in AnySteps PROVE Uses(call, AnySteps)
    BY <1>1, <2>1, PlaceHere DEF Uses
  <2> QED BY <1>1, <1>4, <2>1 DEF Searches, Has
<1>6. NamedPlace(k)
  <2>1. Has(ParentReads) => HadBefore(ParentReads)
    BY <1>4 DEF Has, HadBefore
  <2>2. ~(ref = NoKey /\ Has(ParentReads))
    BY <1>3, <2>1 DEF Settled, Has
  <2> QED BY <1>1, <2>2 DEF NamedPlace, Wanted
<1> QED BY <1>1, <1>4, <1>5, <1>6 DEF IsNamed, Wanted

\* Every step keeps Means.
LEMMA StepMeans ==
    ASSUME TypesAndControl, Settled, OneRow, Means, [Next]_vars, ~DropsPlace
    PROVE  Means' /\ (made' = made \/ Post)
<1>1. call' = call
  BY StepKinds
<1>2. FromSearch
  BY StepSearch
<1>3. meant \subseteq meant' /\ Named' \subseteq meant'
  <2>1. CASE Mark
    BY <2>1 DEF Mark
  <2>2. CASE UNCHANGED vars
    <3>1. Named' = Named
      <4>1. rows' = rows /\ parents' = parents /\ call' = call /\ ref' = ref
        BY <2>2 DEF vars, server, locals
      <4> QED BY <4>1 DEF Named, IsNamed, NamedPlace, Here, Has, Uses, Places
    <3> QED BY <2>2, <3>1 DEF vars, Means
  <2> QED BY <2>1, <2>2 DEF Next, Proceed
<1>4. Sought \subseteq meant'
  BY <1>3, SoughtNamed DEF Means
<1>5. Worked \subseteq {made} \cup meant'
  <2> SUFFICES ASSUME key \in DOMAIN rows, key \notin {made} \cup meant PROVE key \in Named
    BY <1>3 DEF Worked, Means
  <2>1. NoKey \notin DOMAIN rows
    BY DEF TypesAndControl, Typed, Tables, IsTable, Keys
  <2>2. key = call.key /\ call.key # NoKey
    BY <2>1 DEF Means
  <2> QED BY <2>2 DEF Named, IsNamed
<1>6. made' = made \/ (Post /\ made = NoKey)
  BY <1>2, PostFirst DEF FromSearch
<1>7. NoKey \notin batch /\ NoKey \notin touched
  BY DEF TypesAndControl, Typed, Locals, Ghosts, Keys
<1>8. batch \subseteq {made'} \cup meant' /\ touched \subseteq {made'} \cup meant'
  BY <1>3, <1>6, <1>7 DEF Means
<1>9. NoKey \notin Worked
  BY DEF Worked, TypesAndControl, Typed, Tables, IsTable, Keys
<1>10. Worked \subseteq {made'} \cup meant'
  BY <1>5, <1>6, <1>9
<1>11. key' \in {NoKey, made', call'.key} \cup meant'
  BY <1>1, <1>2, <1>3, <1>4, <1>6 DEF FromSearch, Means
<1>12. row'.key \in {NoKey, made'} \cup meant'
  BY <1>2, <1>3, <1>4, <1>6, <1>10 DEF FromSearch, Means
<1>13. batch' \subseteq {made'} \cup meant' /\ touched' \subseteq {made'} \cup meant'
  BY <1>2, <1>4, <1>8, <1>10 DEF FromSearch
<1> QED BY <1>3, <1>6, <1>11, <1>12, <1>13 DEF Means

\* A call that has its place still has settled it, and holds the keys of rows that were
\* meant; and only a loose script loses its place.
Works == /\ unscoped => Has(Loose)
         /\ ~unscoped => Settled /\ OneRow /\ Means

\* All of it holds throughout.
LEMMA WorksThroughout == Spec => [](TypesAndControl /\ Works)
<1>1. Init => Works
  <2> SUFFICES ASSUME Init PROVE Settled /\ OneRow /\ Means /\ ~unscoped
    BY DEF Works
  <2>1. ASSUME NEW i \in Places(call, ParentReads) PROVE ~(i < at)
    <3>1. i \in Nat /\ at \in Nat /\ at <= i
      BY PlaceIndex DEF Init
    <3> QED BY <3>1, Ordered
  <2>2. ~HadBefore(ParentReads)
    BY <2>1 DEF HadBefore
  <2>3. row.key = NoKey
    BY DEF Init, Nothing
  <2>4. Means
    BY <2>3 DEF Init, Means
  <2> QED BY <2>2, <2>4 DEF Settled, OneRow, Init
<1>2. TypesAndControl /\ Works /\ [Next]_vars => Works'
  <2> SUFFICES ASSUME TypesAndControl, Works, [Next]_vars PROVE Works'
    OBVIOUS
  <2>1. ASSUME ~unscoped' PROVE (Settled /\ OneRow /\ Means)'
    <3>1. ~unscoped /\ ~DropsPlace
      BY <2>1, StillScoped
    <3>2. Settled /\ OneRow /\ Means
      BY <3>1 DEF Works
    <3> QED BY <3>1, <3>2, StepSettled, StepMeans, StepOneRow
  <2>2. ASSUME unscoped' PROVE Has(Loose)'
    <3>1. Has(Loose)' = Has(Loose)
      BY Behind
    <3>2. unscoped \/ DropsPlace
      <4>1. CASE Mark
        BY <2>2, <4>1 DEF Mark
      <4>2. CASE UNCHANGED vars
        BY <2>2, <4>2 DEF vars
      <4> QED BY <4>1, <4>2 DEF Next, Proceed
    <3>3. ASSUME DropsPlace PROVE Has(Loose)
      <4>1. call \in Requests /\ At(Loose)
        BY <3>3 DEF TypesAndControl, Control, DropsPlace, Loose
      <4> QED BY <4>1, PlaceHere DEF Has, Uses
    <3> QED BY <3>1, <3>2, <3>3 DEF Works
  <2> QED BY <2>1, <2>2 DEF Works
<1> QED BY <1>1, <1>2, ControlAndTypes, PTL DEF Spec

\* A call of any manager changes, deletes and returns only rows that the caller named or that
\* it created, although it looks up and writes in separate requests, for any tables, names and
\* interference, as long as it has not dropped the place it was to work in.
THEOREM CallsWorkOnWhatWasMeant == Spec => []WorksOnWhatWasMeant
<1>1. TypesAndControl /\ Works => WorksOnWhatWasMeant
  BY DEF Works, Means, WorksOnWhatWasMeant, OnlyMeant
<1> QED BY <1>1, WorksThroughout, PTL

-----------------------------------------------------------------------------

(* Checks.  While nobody has changed the row since it was read, the copy    *)
(* shows its state (Seen), and behind a check that is not followed by       *)
(* another read the row passes it (Passed); for the parent likewise.        *)

FreshRow == Running /\ done = {} /\ "row" \notin stale /\ Live(key)
Seen == HadBefore(SureReads) /\ FreshRow => row.busy = rows[key].busy
Checked(j) == j < at /\ \A r \in Places(call, RowReads) : ~(j < r /\ r < at)
Passed == FreshRow /\ (\E j \in Places(call, {"check"}) : Checked(j)) => ~rows[key].busy

\* A step after which the copy is fresh has read the row, or has left it and its copy alone.
ReadsRow == Step \in RowReads /\ at' = at + 1 /\ row'.busy = rows'[key'].busy
LeavesRow == /\ FreshRow /\ key' = key /\ row'.busy = row.busy /\ rows'[key].busy = rows[key].busy
             /\ Step \in SureReads => at' = at
             /\ Step = "check" /\ at' # at => ~row.busy

\* Every step that leaves a fresh copy reads the row or leaves the row and its copy alone.
LEMMA RowSteps ==
    ASSUME TypesAndControl, [Next]_vars, FreshRow'
    PROVE  ReadsRow \/ LeavesRow
<1> DEFINE Goal == ReadsRow \/ LeavesRow
<1>1. done = {} /\ "row" \notin stale' /\ verdict' = "running" /\ Running
  BY StepKinds DEF FreshRow, Kinds, Passes, Pays, Breaks, Leaves, Rests, Ready
<1>2. key' \in DOMAIN rows' /\ row \in RowCopies /\ ~CarriedOut
  BY <1>1 DEF FreshRow, Live, CarriedOut, TypesAndControl, Typed, Locals
<1>3. SureReads \subseteq RowReads \ {"check", "find if keyless", "find created if keyless",
                      "first if keyless", "last if keyless", "get if keyed", "get unless answered"}
  BY DEF SureReads, RowReads
<1>4. ASSUME rows' = rows, key' = key, row'.busy = row.busy, stale' = stale,
             Step \in SureReads => at' = at, Step = "check" /\ at' # at => ~row.busy
      PROVE  Goal
  BY <1>1, <1>2, <1>4 DEF LeavesRow, FreshRow, Live
<1>5. ASSUME Step \in RowReads, rows' = rows, NEW k \in DOMAIN rows, Found(k) PROVE Goal
  <2>1. at' = at + 1 /\ row'.busy = rows'[key'].busy
    BY <1>5 DEF Found, GoOn, CopyOf
  <2> QED BY <1>5, <2>1 DEF ReadsRow
<1>6. ASSUME Local PROVE Goal
  <2>1. Step \notin SureReads \/ at' = at
    BY <1>3, <1>6 DEF Local, Refuse, Validate, Check, CheckParent, RefuseFound, NeedAnswer, NeedKey,
       StopIfFound, Pause, Skip, Needless, Follow, Note, SureReads
  <2>2. Step = "check" /\ at' # at => ~row.busy
    BY <1>6 DEF Local, Refuse, Validate, Check, CheckParent, RefuseFound, NeedAnswer, NeedKey,
       StopIfFound, Pause, Skip, Needless, Follow, Note, Test, End
  <2>3. rows' = rows /\ key' = key /\ stale' = stale
    BY <1>6 DEF Local, Refuse, Validate, Check, CheckParent, RefuseFound, NeedAnswer, NeedKey,
       StopIfFound, Pause, Skip, Needless, Follow, Note, Test, Stays, NoEffect, server, locals
  <2>4. row'.busy = row.busy
    BY <1>2, <1>6 DEF Local, Refuse, Validate, Check, CheckParent, RefuseFound, NeedAnswer, NeedKey,
       StopIfFound, Pause, Skip, Follow, Note, Test, Stays, locals, RowCopies
  <2> QED BY <1>4, <2>1, <2>2, <2>3, <2>4
<1>7. ASSUME NEW why \in {"not_found", "bad_answer", "bad_argument", "timeout", "failed", "ok"} PROVE ~End(why)
  BY <1>1 DEF End
<1>8. ASSUME Read PROVE Goal
  <2>1. CASE Get \/ Find \/ FindCreated \/ First \/ Last
    <3>1. rows' = rows /\ Step \in RowReads
      BY <2>1 DEF Get, Find, FindCreated, First, Last, LookedAtRow, NoEffect, server, RowReads
    <3>2. \E k \in DOMAIN rows : Found(k)
      BY <1>7, <2>1 DEF Get, Find, FindCreated, First, Last, OneOf, Without, OfTheName
    <3> QED BY <1>5, <3>1, <3>2
  <2>2. CASE Peek
    <3>1. rows' = rows /\ Step \in RowReads
      BY <2>2 DEF Peek, LookedAtRow, NoEffect, server, RowReads
    <3>2. key' # NoKey
      BY <1>2, <3>1 DEF TypesAndControl, Typed, Tables, IsTable, Keys
    <3>3. \E k \in DOMAIN rows : Found(k)
      BY <2>2, <3>2 DEF Peek, OfTheName
    <3> QED BY <1>5, <3>1, <3>3
  <2>3. CASE Wait
    <3>1. rows' = rows /\ Step \in RowReads
      BY <2>3 DEF Wait, LookedAtRow, NoEffect, server, RowReads
    <3>2. \E k \in DOMAIN rows : Found(k)
      BY <1>7, <2>3 DEF Wait, Without, Live
    <3> QED BY <1>5, <3>1, <3>2
  <2>4. CASE List
    BY <1>4, <2>4 DEF List, NoEffect, server, Listings, SureReads
  <2>5. CASE Resolve \/ GetParent
    <3>1. rows' = rows /\ Step \notin SureReads /\ Step # "check"
      BY <2>5 DEF Resolve, GetParent, LookedAtParent, NoEffect, server, ParentReads, SureReads
    <3>2. key' = key /\ row' = row
      BY <2>5 DEF Resolve, GetParent, SeeParent, Unresolved, Without, locals
    <3>3. "row" \notin stale
      BY <1>1, <2>5 DEF Resolve, GetParent, LookedAtParent
    <3> QED BY <1>1, <1>2, <3>1, <3>2, <3>3 DEF LeavesRow, FreshRow, Live
  <2>6. CASE ReadAside
    BY <1>4, <2>6 DEF ReadAside, Stays, NoEffect, server, locals, Asides, SureReads
  <2> QED BY <1>8, <2>1, <2>2, <2>3, <2>4, <2>5, <2>6 DEF Read
<1>9. ASSUME Write PROVE Goal
  <2>1. CASE DeleteEach
    <3>1. stale' = stale /\ key' = key /\ row' = row /\ Step \notin SureReads /\ Step # "check"
      BY <2>1 DEF DeleteEach, locals, SureReads
    <3>2. rows' = rows \/ \E k \in left : rows' = Drop1(rows, k)
      BY <2>1 DEF DeleteEach, server
    <3>3. key \in DOMAIN rows /\ rows'[key] = rows[key]
      BY <1>2, <3>1, <3>2 DEF Drop1, Restrict
    <3> QED BY <1>1, <3>1, <3>3 DEF LeavesRow, FreshRow, Live
  <2>2. CASE MakeParent
    BY <1>2, <1>4, <2>2 DEF MakeParent, SureReads
  <2> QED BY <1>2, <1>7, <1>9, <2>1, <2>2 DEF Write, Post, Put, Act, Delete, Missing, ChangeParent,
            ParentMissing, WriteAside
<1>10. ASSUME World PROVE Goal
  <2>1. OthersParents
    BY <1>1, <1>10 DEF World, OthersRows
  <2>2. rows' = rows /\ "row" \notin stale
    BY <1>1, <2>1 DEF OthersParents
  <2>3. key' = key /\ row' = row /\ at' = at
    BY <1>10 DEF World, locals
  <2> QED BY <1>1, <1>2, <2>2, <2>3 DEF LeavesRow, FreshRow, Live
<1>11. ASSUME UNCHANGED vars PROVE Goal
  BY <1>4, <1>11 DEF vars, server, locals
<1>12. ~Fail
  BY <1>7 DEF Fail
<1> QED BY <1>6, <1>8, <1>9, <1>10, <1>11, <1>12 DEF Next, Proceed

\* Every step keeps both.  What is checked was read before (CheckAssumption).
LEMMA StepPassed == ASSUME TypesAndControl, Seen, Passed, [Next]_vars PROVE Seen' /\ Passed'
<1>1. call' = call /\ call \in Requests /\ Places(call, RowReads)' = Places(call, RowReads)
      /\ Places(call, {"check"})' = Places(call, {"check"})
  BY StepKinds DEF TypesAndControl, Control, Places
<1>2. at \in Nat /\ (at' = at \/ (at' = at + 1 /\ Running /\ at \in 1 .. Len(Script)))
  BY AtSteps
<1> SUFFICES ASSUME FreshRow'
             PROVE  /\ HadBefore(SureReads)' => row'.busy = rows'[key'].busy
                    /\ \A j \in Places(call, {"check"}) : Checked(j)' => ~rows'[key'].busy
  BY <1>1 DEF Seen, Passed
<1>3. CASE ReadsRow
  <2>1. at \in Places(call, RowReads) /\ Step # "check"
    <3>1. at \in 1 .. Len(Script) /\ Running
      BY <1>3, Moved DEF ReadsRow
    <3>2. At(RowReads)
      BY <1>3, <3>1 DEF ReadsRow
    <3> QED BY <1>1, <3>2, PlaceHere DEF RowReads
  <2>2. ASSUME NEW j \in Places(call, {"check"}), Checked(j)' PROVE FALSE
    <3>1. j \in Nat /\ Script[j] \in {"check"}
      BY <1>1, PlaceIndex
    <3>2. ~(j < at /\ at < at + 1) /\ j < at + 1
      BY <1>1, <1>3, <2>1, <2>2 DEF Checked, ReadsRow
    <3>3. j = at
      BY <1>2, <3>1, <3>2
    <3> QED BY <2>1, <3>1, <3>3
  <2> QED BY <1>3, <2>2 DEF ReadsRow
<1>4. CASE LeavesRow
  <2>1. HadBefore(SureReads)' => HadBefore(SureReads)
    BY <1>4, Behind DEF LeavesRow
  <2>2. HadBefore(SureReads)' => row'.busy = rows'[key'].busy
    BY <1>4, <2>1 DEF LeavesRow, Seen
  <2>3. ASSUME NEW j \in Places(call, {"check"}), Checked(j)' PROVE ~rows'[key'].busy
    <3>1. j \in Nat /\ Script[j] \in {"check"} /\ \A r \in Places(call, RowReads) : r \in Nat
      BY <1>1, PlaceIndex
    <3>2. j < at' /\ \A r \in Places(call, RowReads) : ~(j < r /\ r < at')
      BY <1>1, <2>3 DEF Checked
    <3>3. CASE j < at
      <4>1. \A r \in Places(call, RowReads) : r < at => r < at'
        BY <1>2, <3>1
      <4>2. Checked(j)
        BY <3>2, <3>3, <4>1 DEF Checked
      <4> QED BY <1>4, <4>2 DEF LeavesRow, Passed
    <3>4. CASE ~(j < at)
      <4>1. j = at /\ at' # at
        BY <1>2, <3>1, <3>2, <3>4
      <4>2. ~row.busy
        BY <1>4, <3>1, <4>1 DEF LeavesRow
      <4>3. HadBefore(SureReads)
        BY <1>1, <4>1, CheckAssumption DEF HadBefore
      <4> QED BY <1>4, <4>2, <4>3 DEF LeavesRow, Seen
    <3> QED BY <3>3, <3>4
  <2> QED BY <2>2, <2>3
<1> QED BY <1>3, <1>4, RowSteps

FreshParent == Running /\ done = {} /\ "parent" \notin stale /\ ref \in DOMAIN parents
ParentSeen == Has({"check parent"}) /\ FreshParent => parentBusy = parents[ref].busy
ParentPassed == HadBefore({"check parent"}) /\ FreshParent => ~parents[ref].busy

ReadsParent == Step \in ParentReads /\ at' = at + 1 /\ parentBusy' = parents'[ref'].busy
LeavesParent == /\ FreshParent /\ ref' = ref /\ parentBusy' = parentBusy
                /\ parents'[ref].busy = parents[ref].busy
                /\ Step = "check parent" /\ at' # at => ~parentBusy

\* The same for the parent.
LEMMA ParentSteps ==
    ASSUME TypesAndControl, [Next]_vars, FreshParent', ~At({"follow", "parent if known"})
    PROVE  ReadsParent \/ LeavesParent
<1> DEFINE Goal == ReadsParent \/ LeavesParent
<1>1. done = {} /\ "parent" \notin stale' /\ verdict' = "running" /\ Running
  BY StepKinds DEF FreshParent, Kinds, Passes, Pays, Breaks, Leaves, Rests, Ready
<1>2. ref' \in DOMAIN parents' /\ ~CarriedOut
  BY <1>1 DEF FreshParent, CarriedOut
<1>3. ASSUME parents' = parents, ref' = ref, parentBusy' = parentBusy, "parent" \notin stale,
             Step = "check parent" /\ at' # at => ~parentBusy
      PROVE  Goal
  BY <1>1, <1>2, <1>3 DEF LeavesParent, FreshParent
<1>4. ASSUME NEW why \in {"not_found", "bad_answer", "bad_argument", "timeout", "failed", "ok"} PROVE ~End(why)
  BY <1>1 DEF End
<1>5. ASSUME Local PROVE Goal
  <2>1. Step = "check parent" /\ at' # at => ~parentBusy
    BY <1>5 DEF Local, Refuse, Validate, Check, CheckParent, RefuseFound, NeedAnswer, NeedKey,
       StopIfFound, Pause, Skip, Needless, Follow, Note, Test, End
  <2>2. parents' = parents /\ ref' = ref /\ stale' = stale /\ parentBusy' = parentBusy
    BY <1>5 DEF Local, Refuse, Validate, Check, CheckParent, RefuseFound, NeedAnswer, NeedKey,
       StopIfFound, Pause, Skip, Follow, Note, Test, Stays, NoEffect, server, locals
  <2> QED BY <1>1, <1>3, <2>1, <2>2
<1>6. ASSUME Step \in ParentReads, parents' = parents, NEW q \in DOMAIN parents, SeeParent(q) PROVE Goal
  BY <1>6 DEF SeeParent, GoOn, ReadsParent
<1>7. ASSUME Read PROVE Goal
  <2>1. CASE Resolve
    <3>1. parents' = parents /\ Step \in ParentReads
      BY <2>1 DEF Resolve, LookedAtParent, NoEffect, server
    <3>2. ref' # NoKey
      BY <1>2, <3>1 DEF TypesAndControl, Typed, Tables, IsTable, Keys
    <3>3. \E q \in DOMAIN parents : SeeParent(q)
      BY <1>4, <2>1, <3>2 DEF Resolve, Unresolved, Without
    <3> QED BY <1>6, <3>1, <3>3
  <2>2. CASE GetParent
    <3>1. parents' = parents /\ Step \in ParentReads
      BY <2>2 DEF GetParent, LookedAtParent, NoEffect, server, ParentReads
    <3>2. \E q \in DOMAIN parents : SeeParent(q)
      BY <1>4, <2>2 DEF GetParent, Without
    <3> QED BY <1>6, <3>1, <3>2
  <2>3. CASE Get \/ Find \/ FindCreated \/ First \/ Last \/ Peek \/ Wait
    <3>1. parents' = parents /\ stale' = stale \ {"row"} /\ Step # "check parent"
      BY <2>3 DEF Get, Find, FindCreated, First, Last, Peek, Wait, LookedAtRow, NoEffect, server
    <3>2. ref' = ref /\ parentBusy' = parentBusy
      BY <2>3 DEF Get, Find, FindCreated, First, Last, Peek, Wait, OneOf, Found, Without, locals
    <3> QED BY <1>1, <1>3, <3>1, <3>2
  <2>4. CASE List \/ ReadAside
    BY <1>1, <1>3, <2>4 DEF List, ReadAside, Stays, NoEffect, server, locals, Listings, Asides
  <2> QED BY <1>7, <2>1, <2>2, <2>3, <2>4 DEF Read
<1>8. ASSUME Write PROVE Goal
  <2>1. CASE DeleteEach
    BY <1>1, <1>3, <2>1 DEF DeleteEach, server, locals
  <2>2. CASE MakeParent
    BY <1>1, <1>2, <1>3, <2>2 DEF MakeParent
  <2> QED BY <1>2, <1>4, <1>8, <2>1, <2>2 DEF Write, Post, Put, Act, Delete, Missing, ChangeParent,
            ParentMissing, WriteAside
<1>9. ASSUME World PROVE Goal
  <2>1. OthersRows
    BY <1>1, <1>9 DEF World, OthersParents
  <2>2. parents' = parents /\ "parent" \notin stale
    BY <1>1, <2>1 DEF OthersRows
  <2> QED BY <1>3, <1>9, <2>2 DEF World, locals
<1>10. ASSUME UNCHANGED vars PROVE Goal
  BY <1>1, <1>3, <1>10 DEF vars, server, locals
<1>11. ~Fail
  BY <1>4 DEF Fail
<1> QED BY <1>5, <1>7, <1>8, <1>9, <1>10, <1>11 DEF Next, Proceed

\* Every step keeps both.  The parent is not read again after its check (CheckAssumption).
LEMMA StepParentPassed ==
    ASSUME TypesAndControl, ParentSeen, ParentPassed, [Next]_vars
    PROVE  ParentSeen' /\ ParentPassed'
<1>1. call' = call /\ call \in Requests
  BY StepKinds DEF TypesAndControl, Control
<1>2. HadBefore({"check parent"}) => Has({"check parent"})
  BY DEF HadBefore, Has, Uses
<1>3. HadBefore({"check parent"})' => Has({"check parent"})
  BY <1>1 DEF HadBefore, Has, Uses, Places
<1> SUFFICES ASSUME FreshParent', Has({"check parent"})
             PROVE  /\ parentBusy' = parents'[ref'].busy
                    /\ HadBefore({"check parent"})' => ~parents'[ref'].busy
  BY <1>3, Behind DEF ParentSeen, ParentPassed
<1>4. ~At({"follow", "parent if known"})
  BY <1>1, CheckAssumption, PlaceHere DEF Has, Uses
<1>5. CASE ReadsParent
  <2>1. at \in Places(call, ParentReads) /\ Step # "check parent" /\ at \in Nat
    <3>1. at \in 1 .. Len(Script) /\ Running
      BY <1>5, Moved DEF ReadsParent
    <3> QED BY <1>1, <1>5, <3>1, PlaceHere DEF ReadsParent, ParentReads
  <2>2. ASSUME NEW i \in Places(call, {"check parent"}) PROVE ~(i < at)
    <3>1. i \in Nat /\ at < i
      BY <1>1, <2>1, CheckAssumption, PlaceIndex
    <3> QED BY <2>1, <3>1, Ordered
  <2>3. ~HadBefore({"check parent"})
    BY <2>2 DEF HadBefore
  <2>4. ~HadBefore({"check parent"})'
    <3>1. HadBefore({"check parent"})' => HadBefore({"check parent"}) \/ Step \in {"check parent"}
      BY Behind
    <3> QED BY <2>1, <2>3, <3>1
  <2> QED BY <1>5, <2>4 DEF ReadsParent
<1>6. CASE LeavesParent
  <2>1. parentBusy' = parents'[ref'].busy
    BY <1>6 DEF LeavesParent, ParentSeen
  <2>2. ASSUME HadBefore({"check parent"})' PROVE ~parents'[ref'].busy
    <3>1. CASE HadBefore({"check parent"})
      BY <1>6, <3>1 DEF LeavesParent, ParentPassed
    <3>2. CASE at' # at /\ Step = "check parent"
      <4>1. ~parentBusy
        BY <1>6, <3>2 DEF LeavesParent
      <4>2. parents'[ref'].busy = parentBusy
        BY <1>6, <2>1 DEF LeavesParent
      <4> QED BY <4>1, <4>2
    <3>3. HadBefore({"check parent"})' =>
              HadBefore({"check parent"}) \/ (at' # at /\ Step \in {"check parent"})
      BY Behind
    <3> QED BY <2>2, <3>1, <3>2, <3>3
  <2> QED BY <2>1, <2>2
<1> QED BY <1>4, <1>5, <1>6, ParentSteps

Guards == Seen /\ Passed /\ ParentSeen /\ ParentPassed

\* A method that checks the state of its row or parent makes its first write with the check
\* still true, unless others have changed that row or parent since it was read.
THEOREM CallsKeepTheirGuards == Spec => GuardsHold
<1>1. Init => Guards
  <2> SUFFICES ASSUME Init PROVE Guards
    OBVIOUS
  <2>1. ASSUME NEW S, NEW i \in Places(call, S) PROVE ~(i < at)
    <3>1. i \in Nat /\ at \in Nat /\ at <= i
      BY PlaceIndex DEF Init
    <3> QED BY <3>1, Ordered
  <2>2. ~HadBefore(SureReads) /\ ~HadBefore({"check parent"})
    BY <2>1 DEF HadBefore
  <2>3. \A j \in Places(call, {"check"}) : ~Checked(j)
    BY <2>1 DEF Checked
  <2>4. ref \in DOMAIN parents => parentBusy = parents[ref].busy
    <3>1. parentBusy = (ref \in DOMAIN parents /\ parents[ref].busy)
      BY DEF Init
    <3>2. ref \in DOMAIN parents => parents[ref].busy \in BOOLEAN
      BY InitTypes DEF Typed, Tables, IsTable, Parents
    <3> QED BY <3>1, <3>2
  <2> QED BY <2>2, <2>3, <2>4 DEF Guards, Seen, Passed, ParentSeen, ParentPassed, FreshParent
<1>2. TypesAndControl /\ Guards /\ [Next]_vars => Guards'
  BY StepPassed, StepParentPassed DEF Guards
<1>3. ASSUME TypesAndControl, Guards, [Next]_vars, done = {}, done' # done
      PROVE  /\ HadBefore({"check"}) /\ Live(key) /\ rows[key].busy => "row" \in stale
             /\ HadBefore({"check parent"}) /\ ref \in DOMAIN parents /\ parents[ref].busy => "parent" \in stale
  <2>1. Running /\ at \in 1 .. Len(Script) /\ Step \in Writes /\ call \in Requests
    BY <1>3, StepKinds DEF Kinds, Passes, Pays, Breaks, Leaves, Rests, Ready, TypesAndControl, Control
  <2>2. at \in Places(call, Writes)
    BY <2>1, PlaceHere
  <2>3. ASSUME HadBefore({"check"}) PROVE \E j \in Places(call, {"check"}) : Checked(j)
    <3>1. PICK i \in Places(call, {"check"}) : i < at
      BY <2>3 DEF HadBefore
    <3>2. PICK j \in Places(call, {"check"}) : j < at /\ ~\E r \in Places(call, RowReads) : j < r /\ r < at
      BY <2>1, <2>2, <3>1, CheckAssumption
    <3> QED BY <3>2 DEF Checked
  <2>4. HadBefore({"check"}) /\ Live(key) /\ rows[key].busy => "row" \in stale
    BY <1>3, <2>1, <2>3 DEF Guards, Passed, FreshRow
  <2>5. HadBefore({"check parent"}) /\ ref \in DOMAIN parents /\ parents[ref].busy => "parent" \in stale
    BY <1>3, <2>1 DEF Guards, ParentPassed, FreshParent
  <2> QED BY <2>4, <2>5
<1>4. TypesAndControl /\ Guards /\ [Next]_vars =>
        [done = {} /\ done' # done =>
         /\ HadBefore({"check"}) /\ Live(key) /\ rows[key].busy => "row" \in stale
         /\ HadBefore({"check parent"}) /\ ref \in DOMAIN parents /\ parents[ref].busy => "parent" \in stale]_vars
  BY <1>3
<1> QED BY <1>1, <1>2, <1>4, ControlAndTypes, PTL DEF Spec, GuardsHold
=============================================================================
