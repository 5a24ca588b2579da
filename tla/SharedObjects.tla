--------------------------- MODULE SharedObjects ---------------------------
(***************************************************************************)
(* SharedObjectManager.create and delete (resources/shared_objects.py).    *)
(* Sharing a VM is a saga of three requests: POST a machine snapshot,      *)
(* POST the share that points to it, GET the share.  When the second or    *)
(* the third raises, the snapshot is deleted again.  Any request may fail  *)
(* before or after it took effect; several calls run at once.              *)
(***************************************************************************)
EXTENDS Integers, FiniteSets, Functions

CONSTANTS Calls,  \* calls of create
          Names,  \* names of shares; the default is the name of the VM
          Interruptible \* whether Ctrl-C may end a call

ASSUME FlagAssumption == Interruptible \in BOOLEAN
ASSUME CallAssumption == "none" \notin Calls

VARIABLES
    snapshots, \* the calls whose machine snapshot exists; a call makes at most one
    shares,    \* shares on the server: made by which call, of what name
    pc,        \* where each call is
    name,      \* the name it gives its share
    got,       \* the share it returns
    left       \* ghost: calls that have left their snapshot to nobody, and may

vars == <<snapshots, shares, pc, name, got, left>>

None == [by |-> "none", name |-> "none"]
Share(c) == [by |-> c, name |-> name[c]]

Init == /\ snapshots = {} /\ shares = {} /\ left = {}
        /\ pc = [c \in Calls |-> "start"]
        /\ name \in [Calls -> Names]
        /\ got = [c \in Calls |-> None]

Go(c, where) == pc' = [pc EXCEPT ![c] = where] /\ UNCHANGED <<name, got>>
MutReturn(c, s) == /\ pc' = [pc EXCEPT ![c] = "returned"]
                   /\ UNCHANGED <<name, got>>
Return(c, s) == /\ pc' = [pc EXCEPT ![c] = "returned"]
                /\ got' = [got EXCEPT ![c] = s]
                /\ UNCHANGED name

-----------------------------------------------------------------------------
(* create.                                                                 *)

\* The tenant and the VM are looked up first, and the VM needs a machine.
LookUp(c) == /\ pc[c] = "start"
             /\ Go(c, "snapshot") \/ Go(c, "raised")
             /\ UNCHANGED <<snapshots, shares, left>>

\* Not under the try: a snapshot whose answer is lost, or holds no $key, stays.
PostSnapshot(c) ==
    /\ pc[c] = "snapshot"
    /\ \/ Go(c, "raised") /\ UNCHANGED <<snapshots, left>>
       \/ /\ snapshots' = snapshots \cup {c}
          /\ \/ Go(c, "share") /\ UNCHANGED left
             \/ Go(c, "raised") /\ left' = left \cup {c}
    /\ UNCHANGED shares

\* The server refuses a share of a snapshot that is gone.
MutPostShare(c) ==
    /\ pc[c] = "share"
    /\ \/ Go(c, "raised") /\ UNCHANGED shares
       \/ /\ c \in snapshots
          /\ shares' = shares \cup {Share(c)}
          /\ Go(c, "fetch")
    /\ UNCHANGED <<snapshots, left>>
PostShare(c) ==
    /\ pc[c] = "share"
    /\ \/ Go(c, "cleanup") /\ UNCHANGED shares
       \/ /\ c \in snapshots
          /\ shares' = shares \cup {Share(c)}
          /\ \E next \in {"fetch", "find", "cleanup"} : Go(c, next)
    /\ UNCHANGED <<snapshots, left>>

MutFetch(c) == /\ pc[c] = "fetch"
               /\ \/ /\ Share(c) \in shares /\ Return(c, Share(c))
                     /\ snapshots' = snapshots \ {c}
                  \/ Go(c, "cleanup") /\ UNCHANGED snapshots
               /\ UNCHANGED <<shares, left>>
Fetch(c) == /\ pc[c] = "fetch"
            /\ \/ Share(c) \in shares /\ Return(c, Share(c))
               \/ Go(c, "cleanup")
            /\ UNCHANGED <<snapshots, shares, left>>

\* Without a $key: the first share of this tenant with this name.
Find(c) == /\ pc[c] = "find"
           /\ \/ \E s \in shares : s.name = name[c] /\ Return(c, s)
              \/ Go(c, "cleanup")
           /\ UNCHANGED <<snapshots, shares, left>>

\* The DELETE is sent whatever became of the share, and its own failure suppressed.
Cleanup(c) == /\ pc[c] = "cleanup"
              /\ Go(c, "raised")
              /\ \/ snapshots' = snapshots \ {c} /\ UNCHANGED left
                 \/ UNCHANGED snapshots /\ left' = left \cup {c}
              /\ UNCHANGED shares

\* KeyboardInterrupt is no Exception: nothing is cleaned up.
Interrupt(c) == /\ Interruptible /\ pc[c] \notin {"returned", "raised"}
                /\ Go(c, "raised")
                /\ left' = left \cup {c}
                /\ UNCHANGED <<snapshots, shares>>

Create(c) == LookUp(c) \/ PostSnapshot(c) \/ PostShare(c) \/ Fetch(c) \/ Find(c) \/ Cleanup(c)

\* delete(key) of a share that some create returned; its snapshot stays.
Delete(s) == /\ s \in shares /\ \E c \in Calls : got[c] = s
             /\ shares' = shares \ {s}
             /\ left' = left \cup {s.by}
             /\ UNCHANGED <<snapshots, pc, name, got>>

Next == \/ \E c \in Calls : Create(c) \/ Interrupt(c)
        \/ \E s \in shares : Delete(s)

Spec == Init /\ [][Next]_vars

-----------------------------------------------------------------------------
Ended(c) == pc[c] \in {"returned", "raised"}
Sound(s) == s.by \in snapshots

TypeOK == /\ snapshots \subseteq Calls /\ left \subseteq Calls
          /\ shares \subseteq [by : Calls, name : Names]
          /\ pc \in [Calls -> {"start", "snapshot", "share", "fetch", "find", "cleanup", "returned", "raised"}]
          /\ name \in [Calls -> Names]
          /\ got \in [Calls -> {None} \cup [by : Calls, name : Names]]
          /\ \A c \in Calls : pc[c] = "returned" <=> got[c] # None

\* A call that returns the share it made returns one that can be imported: no clean-up,
\* its own or another call's, ever takes the snapshot from it.
ReturnedKeepsItsSnapshot == \A c \in Calls : got[c].by = c => Sound(got[c])

\* A snapshot never expires, so nobody but this code removes it.  Every snapshot is
\* either in use by a share, or of a call still running, or left behind in one of the
\* ways the code cannot help: a lost answer, a failed clean-up, Ctrl-C, a share deleted.
NoSilentLeak == \A c \in snapshots \ left : ~Ended(c) \/ \E s \in shares : s.by = c

-----------------------------------------------------------------------------
(* A statement of the sources that a run refutes.                          *)

\* "If shared object creation fails, clean up the snapshot": the snapshot is cleaned up
\* although the share was created, when the answer is lost or the GET fails.
CleanedUpOnlyIfNotCreated == \A s \in shares : Sound(s)
=============================================================================
