------------------------- MODULE CallsResults_proofs -------------------------
(***************************************************************************)
(* More proofs about Calls, for every set of requests whose scripts have   *)
(* the shape its assumptions name: a creation returns the row it made      *)
(* (CreateReturnsItsRow), an update returns what it saved and takes back   *)
(* nothing of others (UpdatesMerge), and what is created only if it is     *)
(* missing is missing (CreatesOnlyIfMissing).                              *)
(***************************************************************************)
EXTENDS Calls_proofs

USE DEF At, Now, Running, Step, Script

(* What a step leaves of the rows: their place, and what has been saved.   *)

Kept(k) == /\ rows'[k].of = rows[k].of
           /\ rows[k].mine => rows'[k].mine
           /\ rows[k].theirs => rows'[k].theirs

\* No step moves a row or takes back what was saved in it, and a key is given once.
LEMMA RowsKept ==
    ASSUME Typed, [Next]_vars
    PROVE  \A k \in DOMAIN rows \cap DOMAIN rows' : Kept(k)
<1> DEFINE Goal == \A k \in DOMAIN rows \cap DOMAIN rows' : Kept(k)
<1>1. IsTable(rows, next, Rows) /\ next \in Keys
  BY DEF Typed, Tables
<1>2. next \notin DOMAIN rows
  BY <1>1 DEF IsTable, Keys
<1>3. ASSUME rows' = rows PROVE Goal
  BY <1>3 DEF Kept
<1>4. ASSUME NEW r, rows' = Put1(rows, next, r) PROVE Goal
  BY <1>2, <1>4 DEF Put1, Kept
<1>5. ASSUME NEW j, rows' = Drop1(rows, j) PROVE Goal
  BY <1>5 DEF Drop1, Restrict, Kept
<1>6. ASSUME NEW j \in DOMAIN rows, NEW r,
             rows' = [rows EXCEPT ![j] = r], r.of = rows[j].of,
             rows[j].mine => r.mine, rows[j].theirs => r.theirs
      PROVE  Goal
  BY <1>6 DEF Kept
<1>7. ASSUME NEW j \in DOMAIN rows PROVE rows[j] \in Rows
  BY <1>1, <1>7 DEF IsTable
<1>8. ASSUME NoEffect PROVE Goal
  BY <1>3, <1>8 DEF NoEffect, server
<1>9. ASSUME Local PROVE Goal
  BY <1>8, <1>9 DEF Local, Refuse, Validate, Check, CheckParent, RefuseFound, NeedAnswer, NeedKey,
                StopIfFound, Pause, Skip, Test, Stays, Follow, Note
<1>10. ASSUME Read PROVE Goal
  BY <1>8, <1>10 DEF Read, Get, Find, FindCreated, First, Last, Peek, Wait, List, Resolve, GetParent,
                ReadAside, Stays, LookedAtRow, LookedAtParent
<1>11. ASSUME Write PROVE Goal
  <2>1. ASSUME Post PROVE Goal
    BY <1>4, <2>1 DEF Post
  <2>2. ASSUME Put PROVE Goal
    <3>1. key \in DOMAIN rows /\ rows' = [rows EXCEPT ![key] = [rows[key] EXCEPT !.mine = TRUE]]
      BY <2>2 DEF Put, Live
    <3>2. rows[key] \in Rows
      BY <1>7, <3>1
    <3>3. LET r == [rows[key] EXCEPT !.mine = TRUE]
          IN r.of = rows[key].of /\ r.mine /\ r.theirs = rows[key].theirs
      BY <3>2 DEF Rows
    <3> QED BY <1>6, <3>1, <3>3
  <2>3. ASSUME Act PROVE Goal
    <3>1. PICK b \in BOOLEAN : key \in DOMAIN rows /\ rows' = [rows EXCEPT ![key] = [rows[key] EXCEPT !.busy = b]]
      BY <2>3 DEF Act, Live
    <3>2. rows[key] \in Rows
      BY <1>7, <3>1
    <3>3. LET r == [rows[key] EXCEPT !.busy = b]
          IN r.of = rows[key].of /\ r.mine = rows[key].mine /\ r.theirs = rows[key].theirs
      BY <3>2 DEF Rows
    <3> QED BY <1>6, <3>1, <3>3
  <2>4. ASSUME Delete PROVE Goal
    BY <1>5, <2>4 DEF Delete
  <2>5. ASSUME Missing \/ ParentMissing PROVE Goal
    BY <1>8, <2>5 DEF Missing, ParentMissing, Stays
  <2>6. ASSUME DeleteEach PROVE Goal
    BY <1>3, <1>5, <2>6 DEF DeleteEach, server
  <2>7. ASSUME MakeParent \/ ChangeParent \/ WriteAside PROVE Goal
    BY <1>3, <2>7 DEF MakeParent, ChangeParent, WriteAside, server
  <2> QED BY <1>11, <2>1, <2>2, <2>3, <2>4, <2>5, <2>6, <2>7 DEF Write
<1>12. ASSUME World PROVE Goal
  <2>1. ASSUME NEW n \in Names, NEW q \in DOMAIN parents, OtherCreates(n, q) PROVE Goal
    BY <1>4, <2>1 DEF OtherCreates
  <2>2. ASSUME NEW j \in DOMAIN rows, OtherSaves(j) PROVE Goal
    <3>1. rows[j] \in Rows
      BY <1>7
    <3>2. CASE rows' = [rows EXCEPT ![j].theirs = TRUE]
      <4>1. rows' = [rows EXCEPT ![j] = [rows[j] EXCEPT !.theirs = TRUE]]
        BY <3>2
      <4>2. LET r == [rows[j] EXCEPT !.theirs = TRUE]
            IN r.of = rows[j].of /\ r.mine = rows[j].mine /\ r.theirs
        BY <3>1 DEF Rows
      <4> QED BY <1>6, <4>1, <4>2
    <3>3. CASE rows' = [rows EXCEPT ![j].busy = ~@]
      <4>1. rows' = [rows EXCEPT ![j] = [rows[j] EXCEPT !.busy = ~@]]
        BY <3>3
      <4>2. LET r == [rows[j] EXCEPT !.busy = ~@]
            IN r.of = rows[j].of /\ r.mine = rows[j].mine /\ r.theirs = rows[j].theirs
        BY <3>1 DEF Rows
      <4> QED BY <1>6, <4>1, <4>2
    <3>4. CASE \E n \in Names : rows' = [rows EXCEPT ![j].name = n]
      <4>1. PICK n \in Names : rows' = [rows EXCEPT ![j] = [rows[j] EXCEPT !.name = n]]
        BY <3>4
      <4>2. LET r == [rows[j] EXCEPT !.name = n]
            IN r.of = rows[j].of /\ r.mine = rows[j].mine /\ r.theirs = rows[j].theirs
        BY <3>1 DEF Rows
      <4> QED BY <1>6, <4>1, <4>2
    <3>5. CASE rows' = Drop1(rows, j)
      BY <1>5, <3>5
    <3> QED BY <2>2, <3>2, <3>3, <3>4, <3>5 DEF OtherSaves
  <2>3. ASSUME OthersParents PROVE Goal
    BY <1>3, <2>3 DEF OthersParents
  <2> QED BY <1>12, <2>1, <2>2, <2>3 DEF World, OthersRows
<1>13. ASSUME Fail \/ UNCHANGED vars PROVE Goal
  BY <1>3, <1>8, <1>13 DEF Fail, Stays, vars, server
<1> QED BY <1>9, <1>10, <1>11, <1>12, <1>13 DEF Next, Proceed

RefMoves == ParentReads \cup {"follow", "parent if known", "make parent"}

\* The place changes only in the steps that are for it.
LEMMA RefKept == ASSUME [Next]_vars, ~At(RefMoves) PROVE ref' = ref
<1>1. ASSUME Local PROVE ref' = ref
  BY <1>1 DEF Local, Refuse, Validate, Check, CheckParent, RefuseFound, NeedAnswer, NeedKey,
     StopIfFound, Pause, Skip, Test, Stays, Follow, Note, locals, RefMoves
<1>2. ASSUME Read PROVE ref' = ref
  BY <1>2 DEF Read, Get, Find, FindCreated, First, Last, Peek, Wait, List, Resolve, GetParent, ReadAside,
     OneOf, Found, Without, Stays, locals, RefMoves, ParentReads
<1>3. ASSUME Write PROVE ref' = ref
  BY <1>3 DEF Write, Post, Put, Act, Delete, Missing, DeleteEach, MakeParent, ChangeParent, ParentMissing,
     WriteAside, Stays, locals, RefMoves
<1>4. ASSUME Fail \/ World \/ UNCHANGED vars PROVE ref' = ref
  BY <1>4 DEF Fail, World, Stays, locals, vars
<1> QED BY <1>1, <1>2, <1>3, <1>4 DEF Next, Proceed

\* After the end nothing happens any more.
LEMMA EndedRests == ASSUME [Next]_vars PROVE Running \/ UNCHANGED vars
BY DEF Next, Proceed, Local, Refuse, Validate, Check, CheckParent, RefuseFound, NeedAnswer, NeedKey,
  StopIfFound, Pause, Skip, Follow, Note, Read, Get, Find, FindCreated, First, Last, Peek, Wait, List, Resolve,
  GetParent, ReadAside, Write, Post, Put, Act, Delete, Missing, DeleteEach, MakeParent, ChangeParent,
  ParentMissing, WriteAside, Fail, World

-----------------------------------------------------------------------------

(* A creation returns its row.  While the call runs its row stays in the    *)
(* place it searches, so that the newest row there is that one or a later.  *)

SearchesByName == Has(ByNameSteps \cup {"first if keyless"})
Good(k) == \/ k \in {NoKey, made}
           \/ SearchesByName /\ k \in meant
           \/ Has({"last if keyless"}) /\ (k > made \/ ~Live(made))
StaysInPlace == made # NoKey => /\ Has({"post"}) /\ made < next
                                /\ Running /\ Live(made) => Here(made)
Holds == made # NoKey /\ verdict \in {"running", "ok"} => Good(key) /\ Good(row.key)
Returns == StaysInPlace /\ Holds

Newest(k) == \A j \in DOMAIN rows : Here(j) => j <= k
\* What a step takes for the row of the call: the one it had, none, or one it searched for.
Keeps == key' = key /\ row'.key \in {row.key, key}
Loses == key' = NoKey /\ row'.key = NoKey
Takes(k) == k \in Sought /\ key' = k /\ row'.key = k /\ (At({"last", "last if keyless"}) => Newest(k))

\* A read takes a row it searched for, none, or its own.
LEMMA ReadTakes == ASSUME TypesAndControl, Read PROVE Keeps \/ Loses \/ \E k : Takes(k)
<1> DEFINE Goal == Keeps \/ Loses \/ \E k : Takes(k)
<1> USE SearchSteps DEF SearchesDef
<1>1. ASSUME key' = key, row' = row PROVE Goal
  BY <1>1 DEF Keeps
<1>2. ASSUME NEW why, Without(why) PROVE Goal
  BY <1>1, <1>2 DEF Without, locals
<1>3. ASSUME NEW k, Found(k) PROVE key' = k /\ row'.key = k
  BY <1>3 DEF Found, CopyOf
<1>4. ASSUME NEW k \in Sought, Found(k), ~At({"last", "last if keyless"}) PROVE Goal
  BY <1>3, <1>4 DEF Takes
<1>5. ASSUME Found(key) PROVE Goal
  BY <1>3, <1>5 DEF Keeps
<1>6. ASSUME At(Searches) PROVE OfTheName \subseteq Sought
  BY <1>6 DEF OfTheName, Sought, Wanted
<1>7. ASSUME At(AnySteps) PROVE \A k \in DOMAIN rows : Here(k) => k \in Sought
  BY <1>7 DEF Sought, Wanted, Searches, AnySteps, ByNameSteps, Listings
<1>8. CASE Get
  BY <1>2, <1>5, <1>8 DEF Get, OneOf
<1>9. CASE Find \/ FindCreated
  <2>1. At(Searches) /\ ~At({"last", "last if keyless"})
    BY <1>9 DEF Find, FindCreated
  <2> QED BY <1>2, <1>4, <1>6, <1>9, <2>1 DEF Find, FindCreated, OneOf
<1>10. CASE First
  <2>1. At(AnySteps) /\ ~At({"last", "last if keyless"})
    BY <1>10 DEF First, AnySteps
  <2> QED BY <1>2, <1>4, <1>7, <1>10, <2>1 DEF First, OneOf
<1>11. CASE Last
  <2>1. At(AnySteps)
    BY <1>11 DEF Last, AnySteps
  <2>2. ASSUME NEW k \in DOMAIN rows, Here(k), Newest(k), Found(k) PROVE Goal
    BY <1>3, <1>7, <2>1, <2>2 DEF Takes
  <2> QED BY <1>2, <1>11, <2>2 DEF Last, OneOf, Newest
<1>12. CASE Peek
  <2>1. CASE key' = NoKey /\ row' = Nothing
    BY <2>1 DEF Loses, Nothing
  <2>2. CASE \E k \in OfTheName : Step = "peek" /\ Found(k)
    <3>1. At(Searches) /\ ~At({"last", "last if keyless"})
      BY <1>12 DEF Peek
    <3> QED BY <1>4, <1>6, <2>2, <3>1
  <2>3. CASE \E k \in DOMAIN rows : Step # "peek" /\ Here(k) /\ Found(k)
    <3>1. At(AnySteps) /\ ~At({"last", "last if keyless"})
      BY <1>12, <2>3 DEF Peek, AnySteps
    <3> QED BY <1>4, <1>7, <2>3, <3>1
  <2> QED BY <1>12, <2>1, <2>2, <2>3 DEF Peek
<1>13. CASE Wait
  BY <1>2, <1>5, <1>13 DEF Wait
<1>14. CASE List
  BY <1>1, <1>14 DEF List
<1>15. CASE Resolve \/ GetParent
  BY <1>1, <1>2, <1>15 DEF Resolve, GetParent, SeeParent, Unresolved
<1>16. CASE ReadAside
  BY <1>1, <1>16 DEF ReadAside, Stays, locals
<1> QED BY <1>8, <1>9, <1>10, <1>11, <1>12, <1>13, <1>14, <1>15, <1>16 DEF Read

\* So does every step but the creation.
LEMMA StepTakes == ASSUME TypesAndControl, [Next]_vars, ~Post PROVE Keeps \/ Loses \/ \E k : Takes(k)
<1>1. ASSUME key' = key, row' = row PROVE Keeps
  BY <1>1 DEF Keeps
<1>2. ASSUME Local PROVE Keeps
  <2>1. CASE Note
    <3>1. row'.key = row.key /\ key' = key
      BY <2>1 DEF Note, TypesAndControl, Typed, Locals, RowCopies
    <3> QED BY <3>1 DEF Keeps
  <2> QED BY <1>1, <1>2, <2>1 DEF Local, Refuse, Validate, Check, CheckParent, RefuseFound, NeedAnswer,
     NeedKey, StopIfFound, Pause, Skip, Test, Stays, Follow, locals
<1>3. ASSUME Write PROVE Keeps
  <2>1. CASE Put
    <3>1. [CopyOf(key, rows[key]) EXCEPT !.mine = TRUE].key = key
      BY DEF CopyOf
    <3> QED BY <2>1, <3>1 DEF Put, Keeps
  <2> QED BY <1>1, <1>3, <2>1 DEF Write, Act, Delete, Missing, DeleteEach, MakeParent, ChangeParent,
     ParentMissing, WriteAside, Stays, locals
<1>4. ASSUME Fail \/ World \/ UNCHANGED vars PROVE Keeps
  BY <1>1, <1>4 DEF Fail, World, Stays, locals, vars
<1> QED BY <1>2, <1>3, <1>4, ReadTakes DEF Next, Proceed

\* Only a creation makes a row of the call.
LEMMA MadeKept == ASSUME [Next]_vars, ~Post PROVE made' = made
<1>1. ASSUME NoEffect PROVE made' = made
  BY <1>1 DEF NoEffect, ghosts
<1>2. ASSUME Local PROVE made' = made
  BY <1>1, <1>2 DEF Local, Refuse, Validate, Check, CheckParent, RefuseFound, NeedAnswer, NeedKey,
                StopIfFound, Pause, Skip, Test, Stays, Follow, Note
<1>3. ASSUME Read PROVE made' = made
  BY <1>1, <1>3 DEF Read, Get, Find, FindCreated, First, Last, Peek, Wait, List, Resolve, GetParent,
                ReadAside, Stays, LookedAtRow, LookedAtParent
<1>4. ASSUME Write PROVE made' = made
  BY <1>1, <1>4 DEF Write, Put, Act, Delete, Missing, DeleteEach, MakeParent, ChangeParent,
     ParentMissing, WriteAside, Stays
<1>5. ASSUME Fail \/ World \/ UNCHANGED vars PROVE made' = made
  BY <1>1, <1>5 DEF Fail, World, Stays, ghosts, vars
<1> QED BY <1>2, <1>3, <1>4, <1>5 DEF Next, Proceed

\* A creation keeps Returns: its row is in the place the call works in.
LEMMA PostReturns == ASSUME TypesAndControl, Post PROVE Returns'
<1>1. next \in Nat /\ next # NoKey /\ made' = next /\ next' = next + 1 /\ ref' = ref
  BY DEF Post, TypesAndControl, Typed, Tables, Keys
<1>2. rows'[next] = NewRow
  BY DEF Post, Put1
<1>3. StaysInPlace'
  <2>1. NewRow.of = IF ref = NoKey THEN call.home ELSE ref
    BY DEF NewRow
  <2>2. ref' = NoKey \/ rows'[made'].of = ref'
    BY <1>1, <1>2, <2>1
  <2>3. Has({"post"})'
    BY PlaceHere, Behind DEF Post, Has, Uses, TypesAndControl, Control
  <2> QED BY <1>1, <2>2, <2>3 DEF StaysInPlace, Here
<1>4. ASSUME verdict' \in {"running", "ok"} PROVE key' \in {NoKey, made'} /\ row'.key \in {NoKey, made'}
  <2>1. ~End("failed")
    BY <1>4 DEF End
  <2>2. /\ key' \in {next, NoKey}
        /\ row' = CASE answer' = "row" -> CopyOf(next, NewRow)
                    [] answer' = "key" -> [Nothing EXCEPT !.key = next]
                    [] OTHER           -> Nothing
    BY <2>1 DEF Post
  <2>3. row' \in {CopyOf(next, NewRow), [Nothing EXCEPT !.key = next], Nothing}
    BY <2>2
  <2>4. CopyOf(next, NewRow).key = next /\ [Nothing EXCEPT !.key = next].key = next /\ Nothing.key = NoKey
    BY DEF CopyOf, Nothing
  <2> QED BY <1>1, <2>2, <2>3, <2>4
<1> QED BY <1>3, <1>4 DEF Returns, Holds, Good

\* What is good stays good: keys are given once, and what was meant stays meant.
LEMMA GoodStays ==
    ASSUME TypesAndControl, StaysInPlace, made # NoKey, [Next]_vars, ~Post, NEW k, Good(k)
    PROVE  Good(k)'
<1>1. made' = made /\ SearchesByName' = SearchesByName /\ Has({"last if keyless"})' = Has({"last if keyless"})
  BY MadeKept, Behind DEF SearchesByName
<1>2. meant \subseteq meant'
  BY DEF Next, Proceed, Mark, vars
<1>3. ~Live(made) => made \notin DOMAIN rows'
  <2>1. made \in Nat /\ next \in Nat /\ made < next
    BY DEF TypesAndControl, Typed, Ghosts, Tables, Keys, StaysInPlace
  <2>2. made \in DOMAIN rows' => made \in DOMAIN rows \/ made = next
    BY ServerSteps DEF TypesAndControl
  <2>3. made # next
    BY <2>1
  <2> QED BY <2>2, <2>3 DEF Live
<1> QED BY <1>1, <1>2, <1>3 DEF Good, Live

\* Every step keeps Returns.  After the creation the place stays, and a search is by name, or
\* takes the first or the newest row of the place (CreateAssumption).
LEMMA StepReturns ==
    ASSUME TypesAndControl, Works, Returns, [Next]_vars
    PROVE  Returns'
<1>1. CASE Post
  BY <1>1, PostReturns
<1>2. CASE made = NoKey /\ ~Post
  BY <1>2, MadeKept DEF Returns, StaysInPlace, Holds
<1>3. CASE made # NoKey /\ ~Post /\ ~Running
  <2>1. UNCHANGED vars
    BY <1>3, EndedRests
  <2>2. rows' = rows /\ next' = next /\ made' = made /\ verdict' = verdict /\ ref' = ref /\ key' = key /\ row' = row
    BY <2>1 DEF vars, server, locals, ghosts
  <2>3. Good(key) /\ Good(row.key) => Good(key)' /\ Good(row.key)'
    <3>1. meant' = meant /\ call' = call
      BY <2>1 DEF vars
    <3> QED BY <2>2, <3>1 DEF Good, SearchesByName, Has, Uses, Places, Live
  <2>4. Has({"post"})' = Has({"post"})
    BY Behind
  <2> QED BY <2>2, <2>3, <2>4 DEF Returns, StaysInPlace, Holds, Here, Live
<1>4. CASE made # NoKey /\ ~Post /\ Running
  <2>1. made' = made /\ call \in Requests /\ call' = call
    BY <1>4, MadeKept, StepKinds DEF TypesAndControl, Control
  <2>2. made \in Nat /\ next \in Nat /\ made < next /\ next' \in Nat /\ next <= next' /\ Has({"post"})
    BY <1>4, ServerSteps DEF TypesAndControl, Typed, Ghosts, Tables, Keys, Returns, StaysInPlace
  <2>3. Settled /\ OneRow /\ Means /\ ~Has(Loose)
    <3>1. ~Has(Loose)
      BY <2>1, <2>2, CreateAssumption DEF Has, Uses
    <3> QED BY <3>1 DEF Works
  <2>4. PICK i \in Places(call, {"post"}) : i < at
    BY <1>4, <2>3 DEF OneRow, HadBefore
  <2>5. ~At(RefMoves)
    <3>1. ASSUME At(ParentReads \cup {"follow", "make parent"}) PROVE FALSE
      <4>1. at \in Places(call, ParentReads \cup {"follow", "make parent"}) /\ at \in Nat
        BY <2>1, <3>1, PlaceHere
      <4>2. at < i /\ i \in Nat
        BY <2>1, <4>1, CreateAssumption, PlaceIndex
      <4> QED BY <2>4, <4>1, <4>2, Ordered
    <3>2. ~At({"parent if known"})
      <4>1. ~At(Loose)
        BY <2>1, <2>3, PlaceHere DEF Has, Uses
      <4> QED BY <4>1 DEF Loose
    <3> QED BY <3>1, <3>2 DEF RefMoves
  <2>6. StaysInPlace'
    <3>1. Has({"post"})'
      BY <2>2, Behind
    <3>2. ref' = ref
      BY <2>5, RefKept
    <3>3. made \in DOMAIN rows' => made \in DOMAIN rows
      BY <2>2, ServerSteps DEF TypesAndControl
    <3>4. made \in DOMAIN rows' => rows'[made].of = rows[made].of
      BY <3>3, RowsKept DEF TypesAndControl, Kept
    <3>5. made < next'
      BY <2>2
    <3> QED BY <1>4, <2>1, <2>2, <3>1, <3>2, <3>3, <3>4, <3>5 DEF Returns, StaysInPlace, Here, Live
  <2>7. Good(key) /\ Good(row.key) /\ Good(NoKey)
    BY <1>4 DEF Returns, Holds, Good
  <2>8. ASSUME NEW k, Takes(k) PROVE Good(k)
    <3>1. k \in DOMAIN rows /\ At(Searches) /\ k \in meant
      BY <2>3, <2>8, SoughtNamed DEF Takes, Sought, Means
    <3>2. at \in Places(call, Searches) /\ i \in Places(call, {"post"})
      BY <2>1, <2>4, <3>1, PlaceHere
    <3>3. Step \in ByNameSteps \cup {"first if keyless", "last if keyless"}
      BY <2>1, <2>4, <3>2, CreateAssumption
    <3>4. CASE Step \in ByNameSteps \cup {"first if keyless"}
      <4>1. SearchesByName
        BY <2>1, <3>1, <3>4, PlaceHere DEF SearchesByName, Has, Uses
      <4> QED BY <3>1, <4>1 DEF Good
    <3>5. CASE Step = "last if keyless"
      <4>1. Has({"last if keyless"})
        BY <2>1, <3>1, <3>5, PlaceHere DEF Has, Uses
      <4>2. Live(made) => made <= k
        BY <1>4, <2>8, <3>1, <3>5 DEF Takes, Newest, Returns, StaysInPlace, Live
      <4>3. k \in Nat
        BY <3>1 DEF TypesAndControl, Typed, Tables, IsTable, Keys
      <4>4. k = made \/ k > made \/ ~Live(made)
        BY <2>2, <4>2, <4>3
      <4> QED BY <4>1, <4>4 DEF Good
    <3> QED BY <3>3, <3>4, <3>5
  <2>9. PICK k : Good(k) /\ key' = k
    BY <1>4, <2>7, <2>8, StepTakes DEF Keeps, Loses, Takes
  <2>10. PICK j : Good(j) /\ row'.key = j
    BY <1>4, <2>7, <2>8, StepTakes DEF Keeps, Loses, Takes
  <2>11. Good(k)' /\ Good(j)'
    BY <1>4, <2>9, <2>10, GoodStays DEF Returns
  <2> QED BY <2>6, <2>9, <2>10, <2>11 DEF Returns, Holds, Good
<1> QED BY <1>1, <1>2, <1>3, <1>4

\* A create returns the row it created, whichever of the four answers it got.  Where it has to
\* search for it, another row is returned only if it has the same name in the same place; for
\* the method that takes the newest row only if it is later, or its own row is gone.
THEOREM CallsReturnTheirRow == Spec => []CreateReturnsItsRow
<1>1. Init => Returns
  BY DEF Init, Returns, StaysInPlace, Holds
<1>2. TypesAndControl /\ Works /\ Returns /\ [Next]_vars => Returns'
  BY StepReturns
<1>3. Returns => CreateReturnsItsRow
  BY DEF Returns, Holds, Good, SearchesByName, CreateReturnsItsRow
<1> QED BY <1>1, <1>2, <1>3, WorksThroughout, PTL DEF Spec

-----------------------------------------------------------------------------

(* Updates.  Behind its PUT a call only reads back: the row has what it     *)
(* saved as long as it exists, and so has its copy unless the answer was    *)
(* empty and is still to be replaced.                                       *)

Saved == Running /\ HadBefore({"put"}) =>
             /\ key < next
             /\ Live(key) => rows[key].mine
             /\ answer # "empty" => row.mine

\* Only the PUT itself takes its step.
LEMMA PutTakes == ASSUME [Next]_vars, At({"put"}), at' # at PROVE Put
<1>1. ~Local
  BY DEF Local, Refuse, Validate, Check, CheckParent, RefuseFound, NeedAnswer, NeedKey,
     StopIfFound, Pause, Skip, Needless, Follow, Note
<1>2. ~Read
  BY DEF Read, Get, Find, FindCreated, First, Last, Peek, Wait, List, Resolve, GetParent, ReadAside,
     Listings, ParentReads, Asides
<1>3. Write => Put
  BY DEF Write, Post, Act, Delete, Missing, End, DeleteEach, MakeParent, ChangeParent, ParentMissing,
     WriteAside, ParentWrites
<1>4. ~Fail /\ ~World
  BY DEF Fail, End, World
<1> QED BY <1>1, <1>2, <1>3, <1>4 DEF Next, Proceed, vars

\* A step that reads back copies the row, marks the copy, or finds the answer good enough.
LEMMA ReadBackSteps ==
    ASSUME TypesAndControl, [Next]_vars, At(ReadBack)
    PROVE  /\ key' = key /\ answer' = answer
           /\ \/ row' = row /\ (verdict' = "ok" => answer # "empty")
              \/ Live(key) /\ row'.mine = rows[key].mine
              \/ row'.mine
<1> DEFINE Goal == /\ key' = key /\ answer' = answer
                   /\ \/ row' = row /\ (verdict' = "ok" => answer # "empty")
                      \/ Live(key) /\ row'.mine = rows[key].mine
                      \/ row'.mine
<1>1. ASSUME UNCHANGED locals, verdict' # "ok" PROVE Goal
  BY <1>1 DEF locals
<1>2. ASSUME Local PROVE Goal
  <2>1. CASE Skip
    <3>1. Step = "get unless answered" /\ answer # "empty"
      BY <2>1 DEF Skip, Needless, ReadBack
    <3> QED BY <2>1, <3>1 DEF Skip, Test, Stays, locals
  <2>2. CASE Note
    <3>1. row'.mine
      BY <2>2 DEF Note, TypesAndControl, Typed, Locals, RowCopies
    <3> QED BY <2>2, <3>1 DEF Note
  <2> QED BY <1>2, <2>1, <2>2 DEF Local, Refuse, Validate, Check, CheckParent, RefuseFound, NeedAnswer, NeedKey,
     StopIfFound, Pause, Follow, ReadBack
<1>3. ASSUME Read PROVE Goal
  <2>1. Get
    BY <1>3 DEF Read, Find, FindCreated, First, Last, Peek, Wait, List, Resolve, GetParent, ReadAside,
     Listings, ParentReads, Asides, ReadBack
  <2>2. CASE Without("not_found")
    BY <1>1, <2>2 DEF Without, End
  <2>3. CASE Live(key) /\ Found(key)
    BY <2>3 DEF Found, CopyOf
  <2> QED BY <2>1, <2>2, <2>3 DEF Get, OneOf, Live
<1>4. ~Write
  BY DEF Write, Post, Put, Act, Delete, Missing, DeleteEach, MakeParent, ChangeParent, ParentMissing,
     WriteAside, ParentWrites, ReadBack
<1>5. ASSUME Fail \/ World \/ UNCHANGED vars PROVE Goal
  BY <1>1, <1>5 DEF Fail, End, World, Stays, vars
<1> QED BY <1>2, <1>3, <1>4, <1>5 DEF Next, Proceed

\* Behind a PUT a running call is at a step that reads back (UpdateAssumption).
LEMMA BehindPut == ASSUME TypesAndControl, Running, HadBefore({"put"}) PROVE At(ReadBack)
<1>1. call \in Requests /\ at \in 1 .. Len(Script) /\ Len(Script) \in Nat
  BY ScriptOf DEF TypesAndControl, Control
<1>2. PICK i \in Places(call, {"put"}) : i < at
  BY DEF HadBefore
<1>3. i \in Nat /\ at \in i + 1 .. Len(Script)
  BY <1>1, <1>2, PlaceIndex
<1> QED BY <1>1, <1>3, UpdateAssumption

\* Every step keeps Saved.
LEMMA StepSaved == ASSUME TypesAndControl, Saved, [Next]_vars PROVE Saved'
<1> SUFFICES ASSUME Running', HadBefore({"put"})'
             PROVE  /\ key' < next'
                    /\ key' \in DOMAIN rows' => rows'[key'].mine
                    /\ answer' # "empty" => row'.mine
  BY DEF Saved, Live
<1>1. Running
  BY StepKinds DEF Kinds, Passes, Pays, Breaks, Leaves, Rests, Ready
<1>2. key \in Nat /\ next \in Nat /\ next' \in Nat /\ next <= next'
  BY ServerSteps DEF TypesAndControl, Typed, Locals, Tables, Keys
<1>3. CASE HadBefore({"put"})
  <2>1. key < next /\ (Live(key) => rows[key].mine) /\ (answer # "empty" => row.mine)
    BY <1>1, <1>3 DEF Saved
  <2>2. /\ key' = key /\ answer' = answer
        /\ \/ row' = row
           \/ Live(key) /\ row'.mine = rows[key].mine
           \/ row'.mine
    BY <1>1, <1>3, BehindPut, ReadBackSteps
  <2>3. key' < next'
    BY <1>2, <2>1, <2>2
  <2>4. key' \in DOMAIN rows' => rows'[key'].mine
    <3>1. key \in DOMAIN rows' => key \in DOMAIN rows
      BY <1>2, <2>1, ServerSteps DEF TypesAndControl
    <3> QED BY <2>1, <2>2, <3>1, RowsKept DEF TypesAndControl, Kept, Live
  <2> QED BY <2>1, <2>2, <2>3, <2>4
<1>4. CASE ~HadBefore({"put"})
  <2>1. at' # at /\ Step \in {"put"}
    BY <1>4, Behind
  <2>2. Put
    <3>1. at \in 1 .. Len(Script)
      BY <1>1 DEF TypesAndControl, Control
    <3> QED BY <1>1, <2>1, <3>1, PutTakes
  <2>3. key' = key /\ next' = next /\ key \in DOMAIN rows /\ rows[key] \in Rows /\ key < next
    BY <2>2 DEF Put, Live, TypesAndControl, Typed, Tables, IsTable
  <2>4. rows'[key].mine
    BY <2>2, <2>3 DEF Put, Rows
  <2>5. answer' # "empty" => row'.mine
    BY <2>2 DEF Put, CopyOf
  <2> QED BY <2>3, <2>4, <2>5
<1> QED BY <1>3, <1>4

\* Updates merge: the row an update returns shows the fields the caller sent, and no step of a
\* call or of others takes back what others have saved in fields it does not send.
THEOREM CallsMergeUpdates == Spec => UpdatesMerge
<1>1. Init => Saved
  <2> SUFFICES ASSUME Init PROVE ~HadBefore({"put"})
    BY DEF Saved
  <2>1. ASSUME NEW i \in Places(call, {"put"}) PROVE ~(i < at)
    <3>1. i \in Nat /\ at \in Nat /\ at <= i
      BY PlaceIndex DEF Init
    <3> QED BY <3>1, Ordered
  <2> QED BY <2>1 DEF HadBefore
<1>2. TypesAndControl /\ Saved /\ [Next]_vars => Saved'
  BY StepSaved
<1> DEFINE Shown == verdict' = "ok" /\ row'.key # NoKey /\ (\E i \in done : Script[i] = "put") => row'.mine
           Left == \A k \in DOMAIN rows \cap DOMAIN rows' : rows[k].theirs => rows'[k].theirs
<1>3. ASSUME TypesAndControl, Saved, [Next]_vars PROVE [Shown /\ Left]_vars
  <2>1. Left
    BY <1>3, RowsKept DEF TypesAndControl, Kept
  <2>2. ASSUME verdict' = "ok", NEW i \in done, Script[i] = "put", vars' # vars PROVE row'.mine
    <3>1. Running
      BY <1>3, <2>2, EndedRests
    <3>2. i < at /\ i \in Places(call, {"put"})
      BY <1>3, <2>2, <3>1, WriteIndex DEF TypesAndControl, Control, Places
    <3>3. HadBefore({"put"})
      BY <3>2 DEF HadBefore
    <3> QED BY <1>3, <2>2, <3>1, <3>3, BehindPut, ReadBackSteps DEF Saved
  <2> QED BY <2>1, <2>2
<1>4. TypesAndControl /\ Saved /\ [Next]_vars => [Shown /\ Left]_vars
  BY <1>3
<1> QED BY <1>1, <1>2, <1>4, ControlAndTypes, PTL DEF Spec, UpdatesMerge

-----------------------------------------------------------------------------

(* Creation of what is missing.  Between the look and the creation only     *)
(* harmless steps are taken, so that what the look did not find is missing  *)
(* still unless others have been at work.                                   *)

Peeks == {"peek", "peek any"}
NoRival == Running /\ "row" \notin stale /\ row.key = NoKey /\ (\E j \in Places(call, Peeks) : Lately(call, j, at))
             => \A k \in DOMAIN rows : ~Rival(k)
Tested == \A j \in Places(call, Peeks), n \in Places(call, Finds) :
            Running /\ Lately(call, j, at) /\ j < n /\ n < at => row.key = NoKey
NoParent == Running /\ "parent" \notin stale /\ ref = NoKey /\ (\E j \in Places(call, {"peek parent"}) : Lately(call, j, at))
              => \A p \in DOMAIN parents : parents[p].name # call.parent
Looked == NoRival /\ Tested /\ NoParent

\* A look that lies lately behind was just taken, or did so before a harmless step.
LEMMA LatelyBefore ==
    ASSUME TypesAndControl, [Next]_vars, NEW S, NEW j \in Places(call, S), Lately(call, j, at')
    PROVE  \/ Lately(call, j, at) /\ at' = at
           \/ Lately(call, j, at) /\ at' = at + 1 /\ At(Harmless)
           \/ j = at /\ at' = at + 1 /\ At(S)
<1>1. at \in Nat /\ (at' = at \/ (at' = at + 1 /\ Running /\ at \in 1 .. Len(Script)))
  BY AtSteps
<1>2. call \in Requests /\ j \in Nat /\ Script[j] \in S
  BY PlaceIndex DEF TypesAndControl, Control
<1>3. CASE at' = at
  BY <1>3
<1>4. CASE at' = at + 1 /\ j = at
  BY <1>1, <1>2, <1>4
<1>5. CASE at' = at + 1 /\ j # at
  <2>1. j < at /\ at < at' /\ Running /\ at \in 1 .. Len(Script)
    BY <1>1, <1>2, <1>5 DEF Lately
  <2>2. \A r \in Places(call, Steps \ Harmless) : r \in Nat
    BY <1>2, PlaceIndex
  <2>3. \A r \in Places(call, Steps \ Harmless) : r < at => r < at'
    BY <1>1, <1>5, <2>2
  <2>4. Lately(call, j, at)
    BY <2>1, <2>3 DEF Lately
  <2>5. at \notin Places(call, Steps \ Harmless)
    BY <2>1 DEF Lately
  <2>6. Step \in Steps
    BY <1>2, <2>1, ScriptOf DEF AllRequests
  <2>7. ~At(Steps \ Harmless)
    BY <1>2, <2>5, PlaceHere
  <2> QED BY <1>5, <2>1, <2>4, <2>6, <2>7
<1> QED BY <1>1, <1>3, <1>4, <1>5

\* A harmless step leaves everything; a test for what was found goes on only without it.
LEMMA HarmlessSteps ==
    ASSUME TypesAndControl, [Next]_vars, At(Harmless), at' # at
    PROVE  /\ UNCHANGED <<rows, parents, ref, stale>> /\ row'.key = row.key
           /\ Step \in Finds => row.key = NoKey
<1> DEFINE Goal == /\ UNCHANGED <<rows, parents, ref, stale>> /\ row'.key = row.key
                   /\ Step \in Finds => row.key = NoKey
<1> USE DEF Harmless, Finds
<1>1. ASSUME Stays, Step \in Finds => row.key = NoKey PROVE Goal
  BY <1>1 DEF Stays, NoEffect, server, locals
<1>2. ASSUME Local PROVE Goal
  <2>1. CASE RefuseFound \/ StopIfFound
    BY <1>1, <2>1 DEF RefuseFound, StopIfFound, Test, End
  <2>2. CASE Note
    <3>1. row'.key = row.key
      BY <2>2 DEF Note, TypesAndControl, Typed, Locals, RowCopies
    <3> QED BY <2>2, <3>1 DEF Note, NoEffect, server
  <2> QED BY <1>1, <1>2, <2>1, <2>2 DEF Local, Refuse, Validate, Check, CheckParent, NeedAnswer, NeedKey,
     Pause, Skip, Needless, Test, Follow, ArgumentTests, Asides
<1>3. ASSUME Read PROVE Goal
  <2>1. ReadAside
    BY <1>3 DEF Read, Get, Find, FindCreated, First, Last, Peek, Wait, List, Resolve, GetParent,
     Listings, ParentReads, Asides, ArgumentTests
  <2> QED BY <1>1, <2>1 DEF ReadAside, Asides
<1>4. ~Write
  BY DEF Write, Post, Put, Act, Delete, Missing, DeleteEach, MakeParent, ChangeParent, ParentMissing,
     WriteAside, ParentWrites, Asides, ArgumentTests
<1>5. ~Fail /\ ~World /\ ~UNCHANGED vars
  BY DEF Fail, End, World, vars
<1> QED BY <1>2, <1>3, <1>4, <1>5 DEF Next, Proceed

\* While a running call stays where it is, rows and parents change only by others, but for
\* the rows it deletes.
LEMMA RestingSteps ==
    ASSUME TypesAndControl, [Next]_vars, at' = at, Running'
    PROVE  /\ ref' = ref /\ row' = row
           /\ "row" \notin stale' =>
                  /\ "row" \notin stale
                  /\ \A k \in DOMAIN rows' : k \in DOMAIN rows /\ rows'[k] = rows[k]
           /\ "parent" \notin stale' => "parent" \notin stale /\ parents' = parents
<1> DEFINE Goal == /\ ref' = ref /\ row' = row
                   /\ "row" \notin stale' =>
                          /\ "row" \notin stale
                          /\ \A k \in DOMAIN rows' : k \in DOMAIN rows /\ rows'[k] = rows[k]
                   /\ "parent" \notin stale' => "parent" \notin stale /\ parents' = parents
<1>1. ~GoOn
  BY AtSteps DEF GoOn
<1>2. ASSUME NEW why \in {"not_found", "bad_answer", "bad_argument", "timeout", "failed", "ok"} PROVE ~End(why)
  BY <1>2 DEF End
<1>3. ~Local
  BY <1>1, <1>2 DEF Local, Refuse, Validate, Check, CheckParent, RefuseFound, NeedAnswer, NeedKey,
     StopIfFound, Pause, Skip, Test, Follow, Note
<1>4. ~Read
  <2>1. (\A k : ~Found(k)) /\ (\A p : ~SeeParent(p)) /\ ~Without("not_found") /\ ~Without("bad_answer")
        /\ ~Without("bad_argument") /\ ~Without("timeout") /\ ~Without("ok")
    BY <1>1, <1>2 DEF Found, SeeParent, Without
  <2> QED BY <1>1, <1>2, <2>1 DEF Read, Get, Find, FindCreated, First, Last, Peek, Wait, List, Resolve,
     GetParent, ReadAside, OneOf, Unresolved
<1>5. ASSUME Write PROVE Goal
  <2>1. DeleteEach
    BY <1>1, <1>2, <1>5 DEF Write, Post, Put, Act, Delete, Missing, MakeParent, ChangeParent, ParentMissing,
     WriteAside, Reported
  <2>2. PICK k \in left : rows' = Drop1(rows, k) /\ UNCHANGED <<parents, ref, row, stale>>
    BY <1>1, <1>2, <2>1 DEF DeleteEach
  <2> QED BY <2>2 DEF Drop1, Restrict
<1>6. ASSUME World PROVE Goal
  <2>1. ref' = ref /\ row' = row
    BY <1>6 DEF World, locals
  <2> QED BY <1>6, <2>1 DEF World, OthersRows, OthersParents
<1>7. ~Fail
  BY <1>2 DEF Fail
<1>8. ASSUME UNCHANGED vars PROVE Goal
  BY <1>8 DEF vars, server, locals
<1> QED BY <1>3, <1>4, <1>5, <1>6, <1>7, <1>8 DEF Next, Proceed

\* A look that finds nothing leaves a call without a row, and no rival is there.
LEMMA PeekFinds ==
    ASSUME TypesAndControl, [Next]_vars, At(Peeks), at' # at, row'.key = NoKey
    PROVE  \A k \in DOMAIN rows' : ~Rival(k)'
<1>1. Peek
  <2>1. ~Local
    BY DEF Local, Refuse, Validate, Check, CheckParent, RefuseFound, NeedAnswer, NeedKey,
     StopIfFound, Pause, Skip, Needless, Follow, Note, Peeks
  <2>2. Read => Peek
    BY DEF Read, Get, Find, FindCreated, First, Last, Wait, List, Resolve, GetParent, ReadAside,
     Listings, ParentReads, Asides, Peeks
  <2>3. ~Write
    BY DEF Write, Post, Put, Act, Delete, Missing, DeleteEach, MakeParent, ChangeParent, ParentMissing,
     WriteAside, ParentWrites, Peeks
  <2>4. ~Fail /\ ~World /\ ~UNCHANGED vars
    BY DEF Fail, End, World, vars
  <2> QED BY <2>1, <2>2, <2>3, <2>4 DEF Next, Proceed
<1>2. NoKey \notin DOMAIN rows
  BY DEF TypesAndControl, Typed, Tables, IsTable, Keys
<1>3. ASSUME NEW k \in DOMAIN rows PROVE ~Found(k)
  BY <1>2, <1>3 DEF Found, CopyOf
<1>4. /\ rows' = rows /\ ref' = ref
      /\ IF Step = "peek" THEN OfTheName = {} ELSE {k \in DOMAIN rows : Here(k)} = {}
  BY <1>1, <1>3 DEF Peek, LookedAtRow, NoEffect, server, OfTheName
<1>5. Step = "peek" => Has({"peek"})
  BY PlaceHere DEF Has, Uses, TypesAndControl, Control
<1>6. call' = call
  BY StepKinds
<1>7. ASSUME NEW k \in DOMAIN rows PROVE ~(Here(k) /\ (Has({"peek"}) => rows[k].name = call.name))
  BY <1>4, <1>5, <1>7 DEF OfTheName
<1>8. Has({"peek"})' = Has({"peek"})
  BY Behind
<1> QED BY <1>4, <1>6, <1>7, <1>8 DEF Rival, Here

\* A look for the parent that finds none leaves the call without, and none is there.
LEMMA PeekParentFinds ==
    ASSUME TypesAndControl, [Next]_vars, At({"peek parent"}), at' # at, ref' = NoKey
    PROVE  \A p \in DOMAIN parents' : parents'[p].name # call.parent
<1>1. Resolve
  <2>1. ~Local
    BY DEF Local, Refuse, Validate, Check, CheckParent, RefuseFound, NeedAnswer, NeedKey,
     StopIfFound, Pause, Skip, Needless, Follow, Note
  <2>2. Read => Resolve
    BY DEF Read, Get, Find, FindCreated, First, Last, Peek, Wait, List, GetParent, ReadAside,
     Listings, Asides
  <2>3. ~Write
    BY DEF Write, Post, Put, Act, Delete, Missing, DeleteEach, MakeParent, ChangeParent, ParentMissing,
     WriteAside, ParentWrites
  <2>4. ~Fail /\ ~World /\ ~UNCHANGED vars
    BY DEF Fail, End, World, vars
  <2> QED BY <2>1, <2>2, <2>3, <2>4 DEF Next, Proceed
<1>2. NoKey \notin DOMAIN parents
  BY DEF TypesAndControl, Typed, Tables, IsTable, Keys
<1>3. ASSUME NEW p \in DOMAIN parents PROVE ~SeeParent(p)
  BY <1>2, <1>3 DEF SeeParent
<1>4. {p \in DOMAIN parents : parents[p].name = call.parent} = {} /\ parents' = parents
  BY <1>1, <1>3 DEF Resolve, LookedAtParent, NoEffect, server
<1> QED BY <1>4

\* Every step keeps what the look has shown.
LEMMA StepLooked == ASSUME TypesAndControl, Looked, [Next]_vars PROVE Looked'
<1>1. call' = call /\ (Running' => Running) /\ at \in Nat
  BY StepKinds, AtSteps DEF Kinds, Passes, Pays, Breaks, Leaves, Rests, Ready
<1>2. \A S : Places(call, S)' = Places(call, S)
  BY <1>1 DEF Places
<1>3. \A j : Lately(call, j, at)' <=> Lately(call, j, at')
  BY <1>1 DEF Lately, Places
<1>4. Has({"peek"})' = Has({"peek"})
  BY Behind
<1>5. ASSUME NEW k \in DOMAIN rows', k \in DOMAIN rows, rows'[k] = rows[k], ref' = ref, ~Rival(k)
      PROVE  ~Rival(k)'
  BY <1>1, <1>4, <1>5 DEF Rival, Here
<1>0. at' = at + 1 => at' # at
  BY <1>1
<1>6. NoRival'
  <2> SUFFICES ASSUME Running', "row" \notin stale', row'.key = NoKey,
                      NEW j \in Places(call, Peeks), Lately(call, j, at')
               PROVE  \A k \in DOMAIN rows' : ~Rival(k)'
    BY <1>2, <1>3 DEF NoRival
  <2>1. CASE j = at /\ at' = at + 1 /\ At(Peeks)
    BY <1>1, <2>1, PeekFinds
  <2>2. CASE Lately(call, j, at) /\ at' = at
    BY <1>1, <1>5, <2>2, RestingSteps DEF Looked, NoRival
  <2>3. CASE Lately(call, j, at) /\ at' = at + 1 /\ At(Harmless)
    <3>1. UNCHANGED <<rows, ref, stale>> /\ row'.key = row.key
      BY <1>1, <2>3, HarmlessSteps
    <3> QED BY <1>1, <1>5, <2>3, <3>1 DEF Looked, NoRival
  <2> QED BY <2>1, <2>2, <2>3, LatelyBefore
<1>7. Tested'
  <2> SUFFICES ASSUME Running', NEW j \in Places(call, Peeks), NEW n \in Places(call, Finds),
                      Lately(call, j, at'), j < n, n < at'
               PROVE  row'.key = NoKey
    BY <1>2, <1>3 DEF Tested
  <2>1. j \in Nat /\ n \in Nat /\ Script[n] \in Finds
    BY PlaceIndex DEF TypesAndControl, Control
  <2>2. CASE j = at /\ at' = at + 1
    BY <1>1, <2>1, <2>2
  <2>3. CASE Lately(call, j, at) /\ at' = at
    BY <1>1, <2>3, RestingSteps DEF Looked, Tested
  <2>4. CASE Lately(call, j, at) /\ at' = at + 1 /\ At(Harmless)
    <3>1. row'.key = row.key /\ (Step \in Finds => row.key = NoKey)
      BY <1>1, <2>4, HarmlessSteps
    <3>2. n = at \/ n < at
      BY <1>1, <2>1, <2>4
    <3> QED BY <1>1, <2>1, <2>4, <3>1, <3>2 DEF Looked, Tested
  <2> QED BY <2>2, <2>3, <2>4, LatelyBefore
<1>8. NoParent'
  <2> SUFFICES ASSUME Running', "parent" \notin stale', ref' = NoKey,
                      NEW j \in Places(call, {"peek parent"}), Lately(call, j, at')
               PROVE  \A p \in DOMAIN parents' : parents'[p].name # call.parent
    BY <1>1, <1>2, <1>3 DEF NoParent
  <2>1. CASE j = at /\ at' = at + 1 /\ At({"peek parent"})
    BY <1>0, <2>1, PeekParentFinds
  <2>2. CASE Lately(call, j, at) /\ at' = at
    BY <1>1, <2>2, RestingSteps DEF Looked, NoParent
  <2>3. CASE Lately(call, j, at) /\ at' = at + 1 /\ At(Harmless)
    <3>1. UNCHANGED <<parents, ref, stale>>
      BY <1>0, <2>3, HarmlessSteps
    <3> QED BY <1>1, <2>3, <3>1 DEF Looked, NoParent
  <2> QED BY <2>1, <2>2, <2>3, LatelyBefore
<1> QED BY <1>6, <1>7, <1>8 DEF Looked

\* A create that first looks whether its row exists, and a use that makes a missing
\* configuration, makes a second one only if others have been at work since the look.
THEOREM CallsCreateIfMissing == Spec => CreatesOnlyIfMissing
<1>1. Init => Looked
  <2> SUFFICES ASSUME Init, NEW S, NEW j \in Places(call, S) PROVE ~Lately(call, j, at)
    BY DEF Looked, NoRival, Tested, NoParent
  <2>1. j \in Nat /\ at \in Nat /\ at <= j
    BY PlaceIndex DEF Init
  <2> QED BY <2>1, Ordered DEF Lately
<1>2. TypesAndControl /\ Looked /\ [Next]_vars => Looked'
  BY StepLooked
<1> DEFINE RowAlone == made' # made /\ HadBefore(Finds) /\ (\E k \in DOMAIN rows : Rival(k)) => "row" \in stale
           ParentAlone == At({"make parent"}) /\ done' # done
                            /\ (\E p \in DOMAIN parents : parents[p].name = call.parent) => "parent" \in stale
<1>3. ASSUME TypesAndControl, Looked, [Next]_vars PROVE RowAlone /\ ParentAlone
  <2>1. call \in Requests
    BY <1>3 DEF TypesAndControl, Control
  <2>2. ASSUME made' # made, HadBefore(Finds), NEW k \in DOMAIN rows, Rival(k) PROVE "row" \in stale
    <3>1. Post
      BY <1>3, <2>2, MadeKept
    <3>2. at \in Places(call, {"post"}) /\ Running
      BY <2>1, <3>1, PlaceHere DEF Post
    <3>3. PICK i \in Places(call, Finds) : i < at
      BY <2>2 DEF HadBefore
    <3>4. PICK j \in Places(call, Peeks), n \in Places(call, Finds) : Lately(call, j, at) /\ j < n /\ n < at
      BY <2>1, <3>2, <3>3, LookAssumption DEF Peeks
    <3>5. row.key = NoKey
      BY <1>3, <3>2, <3>4 DEF Looked, Tested
    <3> QED BY <1>3, <2>2, <3>2, <3>4, <3>5 DEF Looked, NoRival
  <2>3. ASSUME At({"make parent"}), done' # done, NEW p \in DOMAIN parents, parents[p].name = call.parent
        PROVE  "parent" \in stale
    <3>1. ref = NoKey
      <4>1. ~Local
        BY <2>3 DEF Local, Refuse, Validate, Check, CheckParent, RefuseFound, NeedAnswer, NeedKey,
           StopIfFound, Pause, Skip, Needless, Follow, Note
      <4>2. ~Read
        BY <2>3 DEF Read, Get, Find, FindCreated, First, Last, Peek, Wait, List, Resolve, GetParent, ReadAside,
           Listings, Asides, ParentReads
      <4>3. Write => MakeParent
        BY <2>3 DEF Write, Post, Put, Act, Delete, Missing, DeleteEach, ChangeParent, ParentMissing,
           WriteAside, ParentWrites
      <4>4. ~Fail /\ ~World /\ ~UNCHANGED vars
        BY <2>3 DEF Fail, Stays, NoEffect, World, ghosts, vars
      <4> QED BY <1>3, <2>3, <4>1, <4>2, <4>3, <4>4 DEF Next, Proceed, MakeParent
    <3>2. PICK j \in Places(call, {"peek parent"}) : Lately(call, j, at)
      BY <2>1, <2>3, PlaceHere, LookAssumption
    <3> QED BY <1>3, <2>3, <3>1, <3>2 DEF Looked, NoParent
  <2> QED BY <2>2, <2>3
<1>4. TypesAndControl /\ Looked /\ [Next]_vars => [RowAlone /\ ParentAlone]_vars
  BY <1>3
<1> QED BY <1>1, <1>2, <1>4, ControlAndTypes, PTL DEF Spec, CreatesOnlyIfMissing
=============================================================================
