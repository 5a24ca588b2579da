------------------------ MODULE SharedObjects_proofs ------------------------
(***************************************************************************)
(* Proofs about SharedObjects, for every number of calls and of names:     *)
(* type correctness, ReturnedKeepsItsSnapshot and NoSilentLeak.            *)
(***************************************************************************)
EXTENDS SharedObjects, TLAPS

\* A call has no snapshot before it asked for one, and keeps it while it shares it.
SnapshotFirst == \A c \in Calls : pc[c] \in {"start", "snapshot"} => c \notin snapshots
SnapshotHeld  == \A c \in Calls : pc[c] \in {"fetch", "find"} => c \in snapshots

\* A call that looks for its share finds it, unless it has been deleted already by
\* another client that found it by the same name.
ShareMade == \A c \in Calls : pc[c] \in {"fetch", "find"} => Share(c) \in shares \/ c \in left

IInv == /\ TypeOK
        /\ SnapshotFirst /\ SnapshotHeld /\ ShareMade
        /\ ReturnedKeepsItsSnapshot /\ NoSilentLeak

USE CallAssumption

\* The invariant holds before any call has begun.
LEMMA InitInvariant == Init => IInv
BY DEF Init, IInv, TypeOK, SnapshotFirst, SnapshotHeld, ShareMade,
       ReturnedKeepsItsSnapshot, NoSilentLeak, None, Sound, Ended

\* A share is not the absence of one.
LEMMA ShareIsOne == ASSUME TypeOK PROVE None \notin shares /\ \A c \in Calls : Share(c) # None
BY DEF TypeOK, None, Share

\* What a call that goes on, or ends without a share, leaves alone.
LEMMA GoTypes ==
    ASSUME TypeOK, NEW c \in Calls, pc[c] # "returned",
           NEW where \in {"snapshot", "share", "fetch", "find", "cleanup", "raised"}, Go(c, where)
    PROVE  /\ pc' \in [Calls -> {"start", "snapshot", "share", "fetch", "find", "cleanup", "returned", "raised"}]
           /\ name' = name /\ got' = got
           /\ \A d \in Calls : pc'[d] = IF d = c THEN where ELSE pc[d]
           /\ \A d \in Calls : pc'[d] = "returned" <=> got'[d] # None
BY DEF Go, TypeOK

\* What a call that returns a share leaves alone.
LEMMA ReturnTypes ==
    ASSUME TypeOK, NEW c \in Calls, NEW s \in shares, Return(c, s)
    PROVE  /\ pc' \in [Calls -> {"start", "snapshot", "share", "fetch", "find", "cleanup", "returned", "raised"}]
           /\ got' \in [Calls -> {None} \cup [by : Calls, name : Names]]
           /\ name' = name
           /\ \A d \in Calls : /\ pc'[d] = IF d = c THEN "returned" ELSE pc[d]
                               /\ got'[d] = IF d = c THEN s ELSE got[d]
           /\ \A d \in Calls : pc'[d] = "returned" <=> got'[d] # None
BY ShareIsOne DEF Return, TypeOK

\* Every step of a call, of Ctrl-C and of a client that deletes a share keeps it.
LEMMA StepInvariant == IInv /\ [Next]_vars => IInv'
<1> SUFFICES ASSUME IInv, [Next]_vars PROVE IInv'
  OBVIOUS
<1> USE DEF IInv, SnapshotFirst, SnapshotHeld, ShareMade, ReturnedKeepsItsSnapshot, NoSilentLeak,
            Sound, Ended, Share
<1>1. ASSUME NEW c \in Calls, LookUp(c) PROVE IInv'
  <2>1. pc[c] = "start" /\ c \notin snapshots /\ UNCHANGED <<snapshots, shares, left>>
    BY <1>1 DEF LookUp
  <2>2. PICK where \in {"snapshot", "raised"} : Go(c, where)
    BY <1>1 DEF LookUp
  <2>3. TypeOK'
    BY <2>1, <2>2, GoTypes DEF TypeOK
  <2>4. SnapshotFirst' /\ SnapshotHeld' /\ ShareMade' /\ ReturnedKeepsItsSnapshot'
    BY <2>1, <2>2, GoTypes
  <2>5. NoSilentLeak'
    BY <2>1, <2>2, GoTypes DEF TypeOK
  <2> QED BY <2>3, <2>4, <2>5
<1>2. ASSUME NEW c \in Calls, PostSnapshot(c) PROVE IInv'
  <2>1. pc[c] = "snapshot" /\ UNCHANGED shares
    BY <1>2 DEF PostSnapshot
  <2>2. CASE Go(c, "raised") /\ UNCHANGED <<snapshots, left>>
    <3>1. TypeOK'
      BY <2>1, <2>2, GoTypes DEF TypeOK
    <3>2. SnapshotFirst' /\ SnapshotHeld' /\ ShareMade' /\ ReturnedKeepsItsSnapshot'
      BY <2>1, <2>2, GoTypes
    <3>3. c \notin snapshots
      BY <2>1
    <3>4. NoSilentLeak'
      BY <2>1, <2>2, <3>3, GoTypes DEF TypeOK
    <3> QED BY <3>1, <3>2, <3>4
  <2>3. CASE snapshots' = snapshots \cup {c} /\ Go(c, "share") /\ UNCHANGED left
    BY <2>1, <2>3, GoTypes DEF TypeOK
  <2>4. CASE snapshots' = snapshots \cup {c} /\ Go(c, "raised") /\ left' = left \cup {c}
    BY <2>1, <2>4, GoTypes DEF TypeOK
  <2> QED BY <1>2, <2>2, <2>3, <2>4 DEF PostSnapshot
<1>3. ASSUME NEW c \in Calls, PostShare(c) PROVE IInv'
  <2>1. pc[c] = "share" /\ UNCHANGED <<snapshots, left>>
    BY <1>3 DEF PostShare
  <2>2. CASE Go(c, "cleanup") /\ UNCHANGED shares
    BY <2>1, <2>2, GoTypes DEF TypeOK
  <2>3. ASSUME c \in snapshots, shares' = shares \cup {Share(c)},
               NEW next \in {"fetch", "find", "cleanup"}, Go(c, next)
        PROVE  IInv'
    <3>1. Share(c) \in [by : Calls, name : Names]
      BY DEF TypeOK
    <3>2. TypeOK'
      BY <2>1, <2>3, <3>1, GoTypes DEF TypeOK
    <3>3. SnapshotFirst' /\ SnapshotHeld' /\ ReturnedKeepsItsSnapshot'
      BY <2>1, <2>3, GoTypes
    <3>4. ShareMade'
      BY <2>1, <2>3, GoTypes
    <3>5. NoSilentLeak'
      BY <2>1, <2>3, GoTypes DEF TypeOK
    <3> QED BY <3>2, <3>3, <3>4, <3>5
  <2> QED BY <1>3, <2>2, <2>3 DEF PostShare
<1>4. ASSUME NEW c \in Calls, Fetch(c) PROVE IInv'
  <2>1. pc[c] = "fetch" /\ UNCHANGED <<snapshots, shares, left>>
    BY <1>4 DEF Fetch
  <2>2. CASE Share(c) \in shares /\ Return(c, Share(c))
    <3>1. TypeOK'
      BY <2>1, <2>2, ReturnTypes DEF TypeOK
    <3>2. SnapshotFirst' /\ SnapshotHeld' /\ ShareMade'
      BY <2>1, <2>2, ReturnTypes
    <3>3. ReturnedKeepsItsSnapshot'
      BY <2>1, <2>2, ReturnTypes
    <3>4. Share(c).by = c
      OBVIOUS
    <3>5. NoSilentLeak'
      BY <2>1, <2>2, <3>4, ReturnTypes DEF TypeOK
    <3> QED BY <3>1, <3>2, <3>3, <3>5
  <2>3. CASE Go(c, "cleanup")
    BY <2>1, <2>3, GoTypes DEF TypeOK
  <2> QED BY <1>4, <2>2, <2>3 DEF Fetch
<1>5. ASSUME NEW c \in Calls, Find(c) PROVE IInv'
  <2>1. pc[c] = "find" /\ UNCHANGED <<snapshots, shares, left>>
    BY <1>5 DEF Find
  <2>2. ASSUME NEW s \in shares, Return(c, s) PROVE IInv'
    <3>1. TypeOK'
      BY <2>1, <2>2, ReturnTypes DEF TypeOK
    <3>2. SnapshotFirst' /\ SnapshotHeld' /\ ShareMade'
      BY <2>1, <2>2, ReturnTypes
    <3>3. ReturnedKeepsItsSnapshot'
      BY <2>1, <2>2, ReturnTypes
    <3>4. c \in left \/ \E t \in shares : t.by = c
      BY <2>1
    <3>5. NoSilentLeak'
      BY <2>1, <2>2, <3>4, ReturnTypes DEF TypeOK
    <3> QED BY <3>1, <3>2, <3>3, <3>5
  <2>3. CASE Go(c, "cleanup")
    BY <2>1, <2>3, GoTypes DEF TypeOK
  <2> QED BY <1>5, <2>2, <2>3 DEF Find
<1>6. ASSUME NEW c \in Calls, Cleanup(c) PROVE IInv'
  <2>1. pc[c] = "cleanup" /\ Go(c, "raised") /\ UNCHANGED shares /\ got[c] = None
    BY <1>6 DEF Cleanup, TypeOK
  <2>2. CASE snapshots' = snapshots \ {c} /\ UNCHANGED left
    <3>1. TypeOK'
      BY <2>1, <2>2, GoTypes DEF TypeOK
    <3>2. SnapshotFirst' /\ SnapshotHeld' /\ ShareMade'
      BY <2>1, <2>2, GoTypes
    <3>3. ReturnedKeepsItsSnapshot'
      <4> SUFFICES ASSUME NEW d \in Calls, got'[d].by = d PROVE d \in snapshots'
        OBVIOUS
      <4>1. got'[d].by = got[d].by /\ d \in snapshots
        BY <2>1, GoTypes
      <4>2. d # c
        BY <2>1, <4>1 DEF None
      <4> QED BY <2>2, <4>1, <4>2
    <3>4. NoSilentLeak'
      BY <2>1, <2>2, GoTypes DEF TypeOK
    <3> QED BY <3>1, <3>2, <3>3, <3>4
  <2>3. CASE UNCHANGED snapshots /\ left' = left \cup {c}
    BY <2>1, <2>3, GoTypes DEF TypeOK
  <2> QED BY <1>6, <2>2, <2>3 DEF Cleanup
<1>7. ASSUME NEW c \in Calls, Interrupt(c) PROVE IInv'
  <2>1. /\ pc[c] \notin {"returned", "raised"} /\ Go(c, "raised")
        /\ left' = left \cup {c} /\ UNCHANGED <<snapshots, shares>>
    BY <1>7 DEF Interrupt
  <2> QED BY <2>1, GoTypes DEF TypeOK
<1>8. ASSUME NEW s \in shares, Delete(s) PROVE IInv'
  BY <1>8 DEF Delete, TypeOK
<1>9. CASE UNCHANGED vars
  BY <1>9 DEF vars, TypeOK
<1> QED BY <1>1, <1>2, <1>3, <1>4, <1>5, <1>6, <1>7, <1>8, <1>9 DEF Next, Create

\* Every state of the sharing calls satisfies the invariant.
THEOREM SharedInvariant == Spec => []IInv
BY InitInvariant, StepInvariant, PTL DEF Spec

\* Type correctness.
THEOREM SharedTypes == Spec => []TypeOK
<1>1. IInv => TypeOK BY DEF IInv
<1> QED BY <1>1, SharedInvariant, PTL

\* No clean-up takes the snapshot from a share that the call that made it returned.
THEOREM SharedReturnedKeepsItsSnapshot == Spec => []ReturnedKeepsItsSnapshot
<1>1. IInv => ReturnedKeepsItsSnapshot BY DEF IInv
<1> QED BY <1>1, SharedInvariant, PTL

\* No snapshot is left behind but in the ways the code cannot help.
THEOREM SharedNoSilentLeak == Spec => []NoSilentLeak
<1>1. IInv => NoSilentLeak BY DEF IInv
<1> QED BY <1>1, SharedInvariant, PTL
=============================================================================
