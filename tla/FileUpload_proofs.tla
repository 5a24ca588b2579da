-------------------------- MODULE FileUpload_proofs --------------------------
(***************************************************************************)
(* Proofs about FileUpload, for every thread count, chunk size and file    *)
(* size: type correctness, SuccessIsComplete, QuietAfterwards,             *)
(* NoByteForgotten, ProgressIsHonest, and that the upload implements       *)
(* UploadContract.                                                         *)
(***************************************************************************)
EXTENDS FileUpload, FiniteSetTheorems, TLAPS

\* Before the entry exists nothing has been read or stored.
NothingYet == pc \in {"stat", "create"} =>
                /\ offset = 0
                /\ Pending = {}
                /\ entry = "none"

\* Every byte read is stored or in a chunk some worker still has to answer for.
AllCovered == pc \in (Steps \ {"cleanup"}) \cup {"returned"} =>
                \A b \in 0 .. offset - 1 : Covered(b)

\* The loop ends with everything read and every future collected.
LoopDone == pc \in {"leave", "confirm", "returned"} => Pending = {} /\ size <= offset

EntryIsThere == pc \in {"fill", "collect", "leave", "confirm", "drain", "cleanup", "returned"}
                  => entry = "present"

InterruptUnwinds == interrupted => pc \in {"drain", "raised"}

\* A DELETE is the last thing an upload does.
DeletesLast == deleting => pc = "raised"

IInv == /\ TypeOK
        /\ NothingYet
        /\ AllCovered
        /\ LoopDone
        /\ EntryIsThere
        /\ InterruptUnwinds
        /\ DeletesLast
        /\ QuietAfterwards

USE ThreadAssumption, ChunkAssumption, SizeAssumption

\* A submitted chunk is not empty and covers exactly the bytes newly read.
LEMMA SubmitReads ==
    ASSUME TypeOK, Submit
    PROVE  /\ NextChunk \in Chunk
           /\ offset' \in Nat
           /\ \A b \in 0 .. offset' - 1 : b < offset \/ b \in Bytes(NextChunk)
<1>1. offset \in Nat /\ disk \in Nat /\ offset < disk /\ offset' = offset + NextChunk.len
  BY DEF TypeOK, Submit, MaySubmit
<1>2. NextChunk.off = offset /\ NextChunk.len \in Nat \ {0}
  BY <1>1 DEF NextChunk, Shortest
<1>3. NextChunk \in Chunk
  BY <1>1, <1>2 DEF NextChunk, Chunk
<1>4. offset' \in Nat
  BY <1>1, <1>2
<1>5. ASSUME NEW b \in 0 .. offset' - 1, ~(b < offset) PROVE b \in Bytes(NextChunk)
  <2>1. b \in Nat /\ offset <= b /\ b <= offset + NextChunk.len - 1
    BY <1>1, <1>2, <1>4, <1>5
  <2> QED BY <2>1, <1>1, <1>2 DEF Bytes
<1> QED BY <1>3, <1>4, <1>5

\* A chunk's bytes are positions.
LEMMA BytesType == ASSUME NEW c \in Chunk PROVE Bytes(c) \subseteq Nat
BY DEF Chunk, Bytes

\* The upload begins in the invariant.
LEMMA InitInvariant == Init => IInv
<1> SUFFICES ASSUME Init PROVE IInv
  OBVIOUS
<1>1. TypeOK
  <2>1. disk \in Nat BY DEF Init
  <2> QED BY <2>1 DEF Init, TypeOK, Steps
<1>2. NothingYet
  BY DEF Init, NothingYet, Pending
<1>3. AllCovered
  BY DEF Init, AllCovered
<1>4. LoopDone /\ EntryIsThere /\ InterruptUnwinds /\ DeletesLast /\ QuietAfterwards
  BY DEF Init, LoopDone, EntryIsThere, InterruptUnwinds, DeletesLast, QuietAfterwards, Final
<1> QED BY <1>1, <1>2, <1>3, <1>4 DEF IInv

\* Every step of the upload preserves the invariant.
LEMMA StepInvariant == IInv /\ [Next]_vars => IInv'
<1> SUFFICES ASSUME IInv, [Next]_vars PROVE IInv'
  OBVIOUS
<1> USE DEF IInv, TypeOK, NothingYet, AllCovered, LoopDone, EntryIsThere,
            InterruptUnwinds, DeletesLast, QuietAfterwards, Pending, Steps, Final, Idle, Covered
<1>1. CASE Stat
  BY <1>1 DEF Stat, local, futures, remote, catalog
<1>2. CASE CreateEntry
  BY <1>2 DEF CreateEntry, LoopOrLeave, local, futures
<1>3. CASE CreateRefused
  BY <1>3 DEF CreateRefused, local, futures, remote, catalog
<1>4. CASE Submit
  <2>1. /\ NextChunk \in Chunk
        /\ offset' \in Nat
        /\ \A b \in 0 .. offset' - 1 : b < offset \/ b \in Bytes(NextChunk)
    BY <1>4, SubmitReads
  <2>2. AllCovered'
    <3> SUFFICES ASSUME NEW b \in 0 .. offset' - 1 PROVE Covered(b)'
      OBVIOUS
    <3>1. CASE b < offset
      BY <1>4, <2>1, <3>1 DEF Submit, remote, catalog
    <3>2. CASE b \in Bytes(NextChunk)
      BY <1>4, <3>2 DEF Submit
    <3> QED BY <2>1, <3>1, <3>2
  <2>3. TypeOK'
    BY <1>4, <2>1 DEF Submit, remote, catalog
  <2>4. NothingYet' /\ LoopDone' /\ EntryIsThere' /\ InterruptUnwinds' /\ DeletesLast' /\ QuietAfterwards'
    BY <1>4 DEF Submit, remote, catalog
  <2> HIDE DEF TypeOK, NothingYet, AllCovered, LoopDone, EntryIsThere, InterruptUnwinds,
               DeletesLast, QuietAfterwards
  <2> QED BY <2>2, <2>3, <2>4 DEF IInv
<1>5. CASE Filled
  BY <1>5 DEF Filled, local, futures, remote, catalog
<1>6. CASE ReadFails
  BY <1>6 DEF ReadFails, local, futures, remote, catalog
<1>7. CASE CollectNothing
  BY <1>7 DEF CollectNothing, LoopOrLeave, local, futures, remote, catalog
<1>8. CASE CollectFailure
  BY <1>8 DEF CollectFailure, local, futures, remote, catalog
<1>9. ASSUME NEW c \in succeeded, Collect(c) PROVE IInv'
  <2>1. reported' \in Nat
    BY <1>9 DEF Collect, Chunk
  <2> QED BY <1>9, <2>1 DEF Collect, LoopOrLeave, remote, catalog
<1>10. CASE Leave
  BY <1>10 DEF Leave, local, futures, remote, catalog
<1>11. CASE Drained
  BY <1>11 DEF Drained, local, futures, remote, catalog
<1>12. CASE Confirm
  BY <1>12 DEF Confirm, local, futures, remote, catalog
<1>13. CASE Cleanup
  BY <1>13 DEF Cleanup, local, futures, remote, catalog
<1>14. CASE Interrupt
  BY <1>14 DEF Interrupt, futures, remote, catalog
<1>15. ASSUME NEW c \in queued, StartPut(c) PROVE IInv'
  BY <1>15 DEF StartPut, local, remote, catalog
<1>16. ASSUME NEW c \in sent, ServePut(c) PROVE IInv'
  BY <1>16, BytesType DEF ServePut, local, futures
<1>17. ASSUME NEW c \in running, PutAccepted(c) PROVE IInv'
  BY <1>17 DEF PutAccepted, local, remote, catalog
<1>18. ASSUME NEW c \in running, PutRaises(c) PROVE IInv'
  BY <1>18 DEF PutRaises, local, remote, catalog
<1>19. CASE Resize
  BY <1>19 DEF Resize, local, futures, remote, catalog
<1>20. CASE ServeCreate
  BY <1>20 DEF ServeCreate, local, futures
<1>21. CASE ServeDelete
  BY <1>21 DEF ServeDelete, local, futures
<1>22. CASE UNCHANGED vars
  BY <1>22 DEF vars, local, futures, remote, catalog
<1> QED BY <1>1, <1>2, <1>3, <1>4, <1>5, <1>6, <1>7, <1>8, <1>9, <1>10, <1>11, <1>12,
           <1>13, <1>14, <1>15, <1>16, <1>17, <1>18, <1>19, <1>20, <1>21, <1>22
        DEF Next, Caller, Workers, PutEnds, Server

\* Every state of the upload satisfies the invariant.
THEOREM UploadInvariant == Spec => []IInv
BY InitInvariant, StepInvariant, PTL DEF Spec

\* Type correctness.
THEOREM UploadTypes == Spec => []TypeOK
<1>1. IInv => TypeOK BY DEF IInv
<1> QED BY <1>1, UploadInvariant, PTL

\* upload returns a File only when the server holds every byte of it.
THEOREM UploadSuccessIsComplete == Spec => []SuccessIsComplete
<1>1. IInv => SuccessIsComplete
  BY DEF IInv, TypeOK, AllCovered, LoopDone, EntryIsThere, SuccessIsComplete, Whole,
         Covered, Pending
<1> QED BY <1>1, UploadInvariant, PTL

\* No worker outlives an upload that was not interrupted, or runs beside its delete.
THEOREM UploadQuietAfterwards == Spec => []QuietAfterwards
<1>1. IInv => QuietAfterwards BY DEF IInv
<1> QED BY <1>1, UploadInvariant, PTL

-----------------------------------------------------------------------------
(* The chunks tile the file, and what was reported is what they brought.   *)

\* A pending chunk was read before the offset, apart from every other, and is held
\* by one future; the server stores only bytes that were read.
Below == \A c \in Pending : c.off + c.len <= offset
Apart == \A c, d \in Pending : c # d => Bytes(c) \cap Bytes(d) = {}
OneFuture == /\ queued \cap running = {} /\ queued \cap succeeded = {} /\ queued \cap failed = {}
             /\ running \cap succeeded = {} /\ running \cap failed = {}
             /\ succeeded \cap failed = {}
StoredWasRead == stored \subseteq 0 .. offset - 1

\* So was every chunk that a PUT, in flight or given up, may still bring.
SentWasRead == \A c \in sent : c.off + c.len <= offset

\* A chunk whose PUT was accepted stays stored until the entry is deleted.
AcceptedIsStored == entry # "deleted" => \A c \in succeeded : Bytes(c) \subseteq stored

\* The bytes stored of no pending chunk: those of the collected ones.
Settled == {b \in stored : \A c \in Pending : b \notin Bytes(c)}
ReportedIsSettled == entry # "deleted" => reported <= Cardinality(Settled)

TileInv == /\ Below /\ Apart /\ OneFuture /\ StoredWasRead /\ SentWasRead
           /\ AcceptedIsStored /\ ReportedIsSettled

\* Nothing was read, stored or reported when the upload begins.
LEMMA TileInit == Init => TileInv
<1> SUFFICES ASSUME Init PROVE TileInv
  OBVIOUS
<1>1. Below /\ Apart /\ OneFuture /\ StoredWasRead /\ SentWasRead /\ AcceptedIsStored
  BY DEF Init, Pending, Below, Apart, OneFuture, StoredWasRead, SentWasRead, AcceptedIsStored
<1>2. Settled = {} /\ reported = 0
  BY DEF Init, Settled
<1>3. ReportedIsSettled
  BY <1>2, FS_EmptySet DEF ReportedIsSettled
<1> QED BY <1>1, <1>3 DEF TileInv

\* A chunk has as many bytes as it is long.
LEMMA ChunkLength ==
    ASSUME NEW c \in Chunk
    PROVE  IsFiniteSet(Bytes(c)) /\ Cardinality(Bytes(c)) = c.len
<1>1. c.off \in Nat /\ c.len \in Nat \ {0}
  BY DEF Chunk
<1> DEFINE last == c.off + c.len - 1
<1>2. c.off \in Int /\ last \in Int /\ ~(c.off > last) /\ last - c.off + 1 = c.len
  BY <1>1
<1>3. Bytes(c) = c.off .. last
  BY DEF Bytes
<1> HIDE DEF last
<1>4. /\ IsFiniteSet(c.off .. last)
      /\ Cardinality(c.off .. last) = IF c.off > last THEN 0 ELSE last - c.off + 1
  BY <1>2, FS_Interval
<1> QED BY <1>2, <1>3, <1>4

\* What was read is finite, and so is what is stored of it.
LEMMA StoredIsFinite ==
    ASSUME TypeOK, StoredWasRead
    PROVE  /\ IsFiniteSet(stored)
           /\ \A S \in SUBSET stored : /\ IsFiniteSet(S)
                                       /\ Cardinality(S) \in Nat
                                       /\ Cardinality(S) <= Cardinality(stored)
<1>1. 0 \in Int /\ offset - 1 \in Int
  BY DEF TypeOK
<1>2. IsFiniteSet(0 .. offset - 1)
  BY <1>1, FS_Interval
<1>3. IsFiniteSet(stored)
  BY <1>2, FS_Subset DEF StoredWasRead
<1> QED BY <1>3, FS_Subset, FS_CardinalityType

\* A step that leaves the chunks, the server's bytes and the report alone.
LEMMA TileQuiet ==
    ASSUME TileInv,
           UNCHANGED <<offset, reported, queued, running, succeeded, failed, stored, sent>>,
           entry' # "deleted" => entry # "deleted"
    PROVE  TileInv'
<1>1. Pending' = Pending
  BY DEF Pending
<1>2. Settled' = Settled
  BY <1>1 DEF Settled
<1>3. (Below /\ Apart /\ OneFuture /\ StoredWasRead /\ SentWasRead)'
  BY <1>1 DEF TileInv, Below, Apart, OneFuture, StoredWasRead, SentWasRead
<1>4. AcceptedIsStored' /\ ReportedIsSettled'
  BY <1>2 DEF TileInv, AcceptedIsStored, ReportedIsSettled
<1> QED BY <1>3, <1>4 DEF TileInv

\* A step that moves a chunk from one future to the next.
LEMMA TileMove ==
    ASSUME TileInv, Pending' = Pending, UNCHANGED <<offset, reported, stored, entry>>,
           OneFuture', SentWasRead', AcceptedIsStored'
    PROVE  TileInv'
<1>1. Settled' = Settled
  BY DEF Settled
<1>2. (Below /\ Apart /\ StoredWasRead)'
  BY DEF TileInv, Below, Apart, StoredWasRead
<1>3. ReportedIsSettled'
  BY <1>1 DEF TileInv, ReportedIsSettled
<1> QED BY <1>2, <1>3 DEF TileInv

\* A chunk is submitted beyond every other.
LEMMA TileSubmit == ASSUME IInv, TileInv, Submit PROVE TileInv'
<1> DEFINE n == NextChunk
<1>1. /\ n \in Chunk /\ n.off = offset /\ offset' = offset + n.len
      /\ offset \in Nat /\ n.len \in Nat \ {0}
  <2>1. n \in Chunk
    BY SubmitReads DEF IInv
  <2> QED BY <2>1 DEF Submit, NextChunk, Chunk, IInv, TypeOK
<1>2. /\ queued' = queued \cup {n}
      /\ UNCHANGED <<reported, running, succeeded, failed, stored, entry, sent>>
  BY DEF Submit, remote, catalog
<1>3. Pending' = Pending \cup {n} /\ Pending \subseteq Chunk
  BY <1>2 DEF Pending, IInv, TypeOK
<1> HIDE DEF n
<1>4. ASSUME NEW c \in Pending PROVE Bytes(c) \cap Bytes(n) = {} /\ c # n
  <2>1. c.off \in Nat /\ c.len \in Nat \ {0} /\ c.off + c.len <= offset
    BY <1>3, <1>4 DEF Chunk, TileInv, Below
  <2>2. c # n
    BY <1>1, <2>1
  <2>3. Bytes(c) \cap Bytes(n) = {}
    BY <1>1, <2>1 DEF Bytes
  <2> QED BY <2>2, <2>3
<1>5. Below'
  <2> SUFFICES ASSUME NEW c \in Pending' PROVE c.off + c.len <= offset'
    BY DEF Below
  <2>1. CASE c = n
    BY <1>1, <2>1
  <2>2. CASE c \in Pending
    <3>1. c.off \in Nat /\ c.len \in Nat /\ c.off + c.len <= offset
      BY <1>3, <2>2 DEF Chunk, TileInv, Below
    <3> QED BY <1>1, <3>1
  <2> QED BY <1>3, <2>1, <2>2
<1>6. Apart'
  BY <1>3, <1>4 DEF TileInv, Apart
<1>7. OneFuture'
  <2>1. n \notin running /\ n \notin succeeded /\ n \notin failed
    BY <1>4 DEF Pending
  <2> QED BY <1>2, <2>1 DEF TileInv, OneFuture
<1>8. StoredWasRead'
  <2>1. \A b \in 0 .. offset - 1 : b \in 0 .. offset' - 1
    BY <1>1
  <2> QED BY <1>2, <2>1 DEF TileInv, StoredWasRead
<1>9. AcceptedIsStored' /\ SentWasRead'
  <2>1. ASSUME NEW c \in sent PROVE c.off + c.len <= offset'
    <3>1. c.off \in Nat /\ c.len \in Nat /\ c.off + c.len <= offset
      BY <2>1 DEF Chunk, TileInv, SentWasRead, IInv, TypeOK
    <3> QED BY <1>1, <3>1
  <2> QED BY <1>2, <2>1 DEF TileInv, AcceptedIsStored, SentWasRead
<1>10. Settled' = Settled
  <2>1. \A b \in stored : b \notin Bytes(n)
    <3> SUFFICES ASSUME NEW b \in stored, b \in Bytes(n) PROVE FALSE
      OBVIOUS
    <3>1. b \in 0 .. offset - 1
      BY DEF TileInv, StoredWasRead
    <3>2. b >= offset
      BY <1>1 DEF Bytes
    <3> QED BY <1>1, <3>1, <3>2
  <2> QED BY <1>2, <1>3, <2>1 DEF Settled
<1> QED BY <1>2, <1>5, <1>6, <1>7, <1>8, <1>9, <1>10 DEF TileInv, ReportedIsSettled

\* A collected chunk is settled with all of its bytes.
LEMMA TileCollect == ASSUME IInv, TileInv, NEW c \in succeeded, Collect(c) PROVE TileInv'
<1>1. /\ succeeded' = succeeded \ {c} /\ reported' = reported + c.len
      /\ UNCHANGED <<offset, queued, running, failed, stored, entry, sent>>
  BY DEF Collect, remote, catalog
<1>2. /\ c \in Pending /\ c \in Chunk /\ c \notin Pending' /\ Pending' \subseteq Pending
      /\ reported \in Nat /\ c.len \in Nat
  <2>1. c \in Pending /\ Pending' \subseteq Pending /\ c \notin Pending'
    BY <1>1 DEF Pending, TileInv, OneFuture
  <2> QED BY <2>1 DEF IInv, TypeOK, Chunk
<1>3. (Below /\ Apart /\ OneFuture /\ StoredWasRead /\ SentWasRead /\ AcceptedIsStored)'
  BY <1>1, <1>2 DEF TileInv, Below, Apart, OneFuture, StoredWasRead, SentWasRead, AcceptedIsStored
<1>4. ASSUME entry' # "deleted" PROVE reported' <= Cardinality(Settled')
  <2>1. Bytes(c) \subseteq stored /\ reported <= Cardinality(Settled)
    BY <1>1, <1>4 DEF TileInv, AcceptedIsStored, ReportedIsSettled
  <2>2. Settled \cup Bytes(c) \subseteq Settled'
    BY <1>1, <1>2, <2>1 DEF Settled, TileInv, Apart
  <2>3. Settled \cap Bytes(c) = {}
    BY <1>2 DEF Settled
  <2>4. IsFiniteSet(Settled) /\ Cardinality(Settled) \in Nat /\ IsFiniteSet(Settled')
    <3>1. Settled \subseteq stored /\ Settled' \subseteq stored
      BY <1>1 DEF Settled
    <3> QED BY <3>1, StoredIsFinite DEF IInv, TileInv
  <2>5. Cardinality(Settled \cup Bytes(c)) = Cardinality(Settled) + c.len
    <3>1. IsFiniteSet(Bytes(c)) /\ Cardinality(Bytes(c)) = c.len
      BY <1>2, ChunkLength
    <3>2. Cardinality(Settled \cap Bytes(c)) = 0
      BY <2>3, FS_EmptySet
    <3>3. Cardinality(Settled \cup Bytes(c))
            = Cardinality(Settled) + Cardinality(Bytes(c)) - Cardinality(Settled \cap Bytes(c))
      BY <2>4, <3>1, FS_Union
    <3> QED BY <1>2, <2>4, <3>1, <3>2, <3>3
  <2>6. Cardinality(Settled \cup Bytes(c)) <= Cardinality(Settled')
    BY <2>2, <2>4, FS_Subset
  <2>7. Cardinality(Settled') \in Nat
    BY <2>4, FS_CardinalityType
  <2> QED BY <1>1, <1>2, <2>1, <2>4, <2>5, <2>6, <2>7
<1> QED BY <1>3, <1>4 DEF TileInv, ReportedIsSettled

\* A PUT, of a worker that waits or of an attempt given up, stores bytes that were read and
\* takes none away.
LEMMA TileServe == ASSUME IInv, TileInv, NEW c \in sent, ServePut(c) PROVE TileInv'
<1>1. /\ stored' = stored \cup Bytes(c)
      /\ UNCHANGED <<offset, reported, queued, running, succeeded, failed, entry, sent>>
  BY DEF ServePut, local, futures
<1>2. Pending' = Pending /\ c \in Chunk
  BY <1>1 DEF Pending, IInv, TypeOK
<1>3. (Below /\ Apart /\ OneFuture /\ SentWasRead /\ AcceptedIsStored)'
  BY <1>1, <1>2 DEF TileInv, Below, Apart, OneFuture, SentWasRead, AcceptedIsStored
<1>4. StoredWasRead'
  <2>1. c.off \in Nat /\ c.len \in Nat /\ c.off + c.len <= offset /\ offset \in Nat
    BY <1>2 DEF Chunk, TileInv, SentWasRead, IInv, TypeOK
  <2>2. \A b \in Bytes(c) : b \in 0 .. offset - 1
    BY <2>1 DEF Bytes
  <2> QED BY <1>1, <2>2 DEF TileInv, StoredWasRead
<1>5. ReportedIsSettled'
  <2>1. Settled \subseteq Settled' /\ Settled' \subseteq stored'
    BY <1>1, <1>2 DEF Settled
  <2>2. IsFiniteSet(Settled')
    <3>1. IsFiniteSet(stored) /\ IsFiniteSet(Bytes(c))
      BY <1>2, ChunkLength, StoredIsFinite DEF IInv, TileInv
    <3>2. IsFiniteSet(stored')
      BY <1>1, <3>1, FS_Union
    <3> QED BY <2>1, <3>2, FS_Subset
  <2>3. /\ Cardinality(Settled) <= Cardinality(Settled')
        /\ IsFiniteSet(Settled)
    BY <2>1, <2>2, FS_Subset
  <2>4. Cardinality(Settled) \in Nat /\ Cardinality(Settled') \in Nat
    BY <2>2, <2>3, FS_CardinalityType
  <2>5. reported \in Nat
    BY DEF IInv, TypeOK
  <2> QED BY <1>1, <2>3, <2>4, <2>5 DEF TileInv, ReportedIsSettled
<1> QED BY <1>3, <1>4, <1>5 DEF TileInv

\* The chunks stay apart and the report honest, step after step.
LEMMA TileStep == IInv /\ TileInv /\ [Next]_vars => TileInv'
<1> SUFFICES ASSUME IInv, TileInv, [Next]_vars PROVE TileInv'
  OBVIOUS
<1> USE DEF local, futures, remote, catalog
<1>1. CASE CreateEntry
  BY <1>1, TileQuiet DEF CreateEntry, IInv, NothingYet
<1>2. CASE \/ Stat \/ CreateRefused \/ Filled \/ ReadFails \/ CollectNothing \/ CollectFailure
           \/ Leave \/ Drained \/ Confirm \/ Interrupt \/ Resize
  BY <1>2, TileQuiet DEF Stat, CreateRefused, Filled, ReadFails, CollectNothing, CollectFailure,
                         Leave, Drained, Confirm, Interrupt, Resize
<1>3. CASE Submit
  BY <1>3, TileSubmit
<1>4. ASSUME NEW c \in succeeded, Collect(c) PROVE TileInv'
  BY <1>4, TileCollect
<1>5. CASE Cleanup \/ ServeDelete
  <2>1. UNCHANGED <<offset, reported, queued, running, succeeded, failed, sent>>
    BY <1>5 DEF Cleanup, ServeDelete
  <2>2. CASE UNCHANGED <<entry, stored>>
    BY <2>1, <2>2, TileQuiet
  <2>3. CASE entry' = "deleted" /\ stored' = {}
    <3>1. (Below /\ Apart /\ OneFuture /\ StoredWasRead /\ SentWasRead)'
      BY <2>1, <2>3 DEF TileInv, Pending, Below, Apart, OneFuture, StoredWasRead, SentWasRead
    <3> QED BY <2>3, <3>1 DEF TileInv, AcceptedIsStored, ReportedIsSettled
  <2> QED BY <1>5, <2>2, <2>3 DEF Cleanup, ServeDelete
<1>6. ASSUME NEW c \in queued, StartPut(c) PROVE TileInv'
  <2>1. /\ queued' = queued \ {c} /\ running' = running \cup {c}
        /\ sent' = sent \cup {c}
        /\ UNCHANGED <<offset, reported, succeeded, failed, stored, entry>>
    BY <1>6 DEF StartPut
  <2>2. Pending' = Pending /\ OneFuture' /\ AcceptedIsStored'
    BY <2>1 DEF Pending, TileInv, OneFuture, AcceptedIsStored
  <2>3. SentWasRead'
    BY <2>1 DEF Pending, TileInv, Below, SentWasRead
  <2> QED BY <2>1, <2>2, <2>3, TileMove
<1>7. ASSUME NEW c \in sent, ServePut(c) PROVE TileInv'
  BY <1>7, TileServe
<1>8. ASSUME NEW c \in running, PutAccepted(c) PROVE TileInv'
  <2>1. /\ Bytes(c) \subseteq stored
        /\ running' = running \ {c} /\ succeeded' = succeeded \cup {c}
        /\ UNCHANGED <<offset, reported, queued, failed, stored, entry, sent>>
    BY <1>8 DEF PutAccepted
  <2>2. Pending' = Pending /\ OneFuture'
    BY <2>1 DEF Pending, TileInv, OneFuture
  <2>3. AcceptedIsStored' /\ SentWasRead'
    BY <2>1 DEF TileInv, AcceptedIsStored, SentWasRead
  <2> QED BY <2>1, <2>2, <2>3, TileMove
<1>9. ASSUME NEW c \in running, PutRaises(c) PROVE TileInv'
  <2>1. /\ running' = running \ {c} /\ failed' = failed \cup {c}
        /\ UNCHANGED <<offset, reported, queued, succeeded, stored, entry, sent>>
    BY <1>9 DEF PutRaises
  <2>2. Pending' = Pending /\ OneFuture' /\ SentWasRead' /\ AcceptedIsStored'
    BY <2>1 DEF Pending, TileInv, OneFuture, SentWasRead, AcceptedIsStored
  <2> QED BY <2>1, <2>2, TileMove
<1>10. CASE ServeCreate
  BY <1>10, TileQuiet DEF ServeCreate
<1>11. CASE UNCHANGED vars
  BY <1>11, TileQuiet DEF vars
<1> QED BY <1>1, <1>2, <1>3, <1>4, <1>5, <1>6, <1>7, <1>8, <1>9, <1>10, <1>11
        DEF Next, Caller, Workers, PutEnds, Server

\* Every state of the upload keeps its chunks apart and its report settled.
THEOREM UploadTiles == Spec => []TileInv
BY TileInit, TileStep, UploadInvariant, PTL DEF Spec

\* Every byte read is stored or in a chunk the loop still holds, and no two chunks
\* the loop holds cover the same byte.
THEOREM UploadNoByteForgotten == Spec => []NoByteForgotten
<1>1. IInv /\ TileInv => NoByteForgotten
  BY DEF IInv, AllCovered, TileInv, Apart, NoByteForgotten
<1> QED BY <1>1, UploadInvariant, UploadTiles, PTL

\* The progress callback is never told of more bytes than the server holds.
THEOREM UploadProgressIsHonest == Spec => []ProgressIsHonest
<1>1. ASSUME IInv, TileInv, entry # "deleted" PROVE reported <= Cardinality(stored)
  <2>1. reported \in Nat /\ reported <= Cardinality(Settled)
    BY <1>1 DEF IInv, TypeOK, TileInv, ReportedIsSettled
  <2>2. Settled \in SUBSET stored
    BY DEF Settled
  <2>3. stored \in SUBSET stored
    OBVIOUS
  <2>4. /\ Cardinality(Settled) \in Nat /\ Cardinality(stored) \in Nat
        /\ Cardinality(Settled) <= Cardinality(stored)
    BY <1>1, <2>2, <2>3, StoredIsFinite DEF IInv, TileInv
  <2> QED BY <2>1, <2>4
<1>2. IInv /\ TileInv => ProgressIsHonest
  BY <1>1 DEF ProgressIsHonest
<1> QED BY <1>2, UploadInvariant, UploadTiles, PTL

-----------------------------------------------------------------------------
\* The upload begins as its contract does.
LEMMA ContractInit == Init => Contract!Init
BY DEF Init, Contract!Init, CatalogEntry, Verdict

\* A confirmed upload is whole: all of it was read, and nothing is outstanding; and so it
\* stays when it has returned.
LEMMA ConfirmedIsWhole == IInv /\ pc = "confirm" => Whole
BY DEF IInv, TypeOK, AllCovered, LoopDone, EntryIsThere, Whole, Covered, Pending, Steps
LEMMA ReturnedIsWhole == IInv /\ pc = "returned" => Whole
BY DEF IInv, TypeOK, AllCovered, LoopDone, EntryIsThere, Whole, Covered, Pending, Steps

\* A step that touches neither the entry nor the end of the upload is invisible.
LEMMA Invisible ==
    ASSUME UNCHANGED <<entry, stored, size>>, UNCHANGED Verdict
    PROVE  UNCHANGED Contract!contract
BY DEF Contract!contract, CatalogEntry, Whole

\* Every step of the upload is a step of its contract, or invisible in it.
LEMMA ContractStep == IInv /\ [Next]_vars => [Contract!Next]_(Contract!contract)
<1> SUFFICES ASSUME IInv, [Next]_vars PROVE [Contract!Next]_(Contract!contract)
  OBVIOUS
<1> USE DEF local, futures, remote, catalog
<1>1. CASE Stat
  BY <1>1 DEF Stat, IInv, NothingYet, Contract!contract, CatalogEntry, Verdict
<1>2. CASE CreateEntry
  <2>1. entry = "none" /\ entry' = "present" /\ pc = "create"
    BY <1>2 DEF CreateEntry, IInv, NothingYet
  <2>2. CatalogEntry = "none" /\ CatalogEntry' \in {"partial", "complete"} /\ Verdict = "running"
    BY <2>1 DEF CatalogEntry, Verdict
  <2>3. Verdict' \in {"running", "failed"}
    BY <1>2 DEF CreateEntry, LoopOrLeave, Verdict
  <2> QED BY <2>2, <2>3 DEF Contract!Next, Contract!Fill, Contract!Appears, Contract!Fail
<1>3. CASE CreateRefused \/ Drained \/ Interrupt
  <2>1. UNCHANGED CatalogEntry
    BY <1>3 DEF CreateRefused, Drained, Interrupt, CatalogEntry, Whole
  <2>2. Verdict = "running" /\ Verdict' \in {"running", "failed"}
    BY <1>3 DEF CreateRefused, Drained, Interrupt, Verdict, Steps
  <2> QED BY <2>1, <2>2 DEF Contract!Next, Contract!Fail, Contract!contract
<1>4. CASE \/ Submit \/ Filled \/ ReadFails \/ CollectNothing \/ CollectFailure \/ Leave
           \/ \E c \in succeeded : Collect(c)
  <2>1. UNCHANGED <<entry, stored, size>>
    BY <1>4 DEF Submit, Filled, ReadFails, CollectNothing, CollectFailure, Leave, Collect
  <2>2. UNCHANGED Verdict
    BY <1>4 DEF Submit, Filled, ReadFails, CollectNothing, CollectFailure, Leave, Collect,
                LoopOrLeave, Verdict
  <2> QED BY <2>1, <2>2, Invisible
<1>5. CASE Confirm
  <2>1. UNCHANGED CatalogEntry
    BY <1>5 DEF Confirm, CatalogEntry, Whole
  <2>2. CatalogEntry = "complete" /\ Verdict = "running" /\ Verdict' \in {"running", "ok"}
    BY <1>5, ConfirmedIsWhole DEF Confirm, CatalogEntry, Verdict, Whole
  <2> QED BY <2>1, <2>2 DEF Contract!Next, Contract!Succeed, Contract!contract
<1>6. CASE Cleanup
  <2>1. pc = "cleanup" /\ entry = "present"
    BY <1>6 DEF Cleanup, IInv, EntryIsThere
  <2>2. CatalogEntry \in {"partial", "complete"} /\ Verdict = "running" /\ Verdict' = "failed"
    BY <1>6, <2>1 DEF Cleanup, CatalogEntry, Verdict
  <2>3. CatalogEntry' = "gone" \/ CatalogEntry' = CatalogEntry
    BY <1>6 DEF Cleanup, CatalogEntry, Whole
  <2> QED BY <2>2, <2>3 DEF Contract!Next, Contract!Fail, Contract!Removed
<1>7. ASSUME NEW c \in sent, ServePut(c) PROVE [Contract!Next]_(Contract!contract)
  <2>1. UNCHANGED Verdict
    BY <1>7 DEF ServePut, Verdict
  <2>2. entry = "present" /\ entry' = "present" /\ (Whole => Whole')
    BY <1>7 DEF ServePut, Whole
  <2>3. CASE Whole
    BY <2>1, <2>2, <2>3 DEF CatalogEntry, Contract!contract
  <2>4. CASE ~Whole
    <3>1. Verdict # "ok"
      BY <2>4, ReturnedIsWhole DEF Verdict
    <3>2. CatalogEntry = "partial" /\ CatalogEntry' \in {"partial", "complete"}
      BY <2>2, <2>4 DEF CatalogEntry
    <3> QED BY <2>1, <3>1, <3>2
            DEF Contract!Next, Contract!Fill, Contract!Completed, Contract!contract
  <2> QED BY <2>3, <2>4
<1>8. CASE ServeCreate
  <2>1. CASE entry = "none"
    <3>1. pc = "raised"
      BY <1>8, <2>1 DEF ServeCreate, IInv, TypeOK, EntryIsThere, Steps, Final
    <3>2. UNCHANGED Verdict /\ Verdict = "failed"
      BY <1>8, <3>1 DEF ServeCreate, Verdict
    <3>3. CatalogEntry = "none" /\ CatalogEntry' \in {"partial", "complete"}
      BY <1>8, <2>1 DEF ServeCreate, CatalogEntry
    <3> QED BY <3>2, <3>3 DEF Contract!Next, Contract!Fill, Contract!Appears
  <2>2. CASE entry # "none"
    BY <1>8, <2>2, Invisible DEF ServeCreate, Verdict
  <2> QED BY <2>1, <2>2
<1>9. CASE ServeDelete
  <2>1. UNCHANGED Verdict /\ Verdict = "failed"
    BY <1>9 DEF ServeDelete, IInv, DeletesLast, Verdict
  <2>2. CatalogEntry \in {"partial", "complete"} /\ CatalogEntry' = "gone"
    BY <1>9 DEF ServeDelete, CatalogEntry
  <2> QED BY <2>1, <2>2 DEF Contract!Next, Contract!Remove, Contract!Removed
<1>10. ASSUME NEW c, StartPut(c) \/ PutAccepted(c) \/ PutRaises(c)
       PROVE  [Contract!Next]_(Contract!contract)
  BY <1>10, Invisible DEF StartPut, PutAccepted, PutRaises, Verdict
<1>11. CASE Resize
  BY <1>11, Invisible DEF Resize, Verdict
<1>12. CASE UNCHANGED vars
  BY <1>12, Invisible DEF vars, Verdict
<1> QED BY <1>1, <1>2, <1>3, <1>4, <1>5, <1>6, <1>7, <1>8, <1>9, <1>10, <1>11, <1>12
        DEF Next, Caller, Workers, PutEnds, Server

\* The upload implements its contract.
THEOREM UploadImplementsContract == Spec => ImplementsContract
<1>1. Spec => Contract!Spec
  BY ContractInit, ContractStep, UploadInvariant, PTL DEF Spec, Contract!Spec
<1> QED BY <1>1 DEF ImplementsContract
=============================================================================
