----------------------------- MODULE FileUpload -----------------------------
(***************************************************************************)
(* FileManager.upload (resources/files.py): the caller's thread creates a  *)
(* file entry, reads the local file chunk by chunk, hands each chunk to a  *)
(* pool of worker threads that PUT it, collects one finished chunk before  *)
(* it reads on, and asks for the finished entry; any exception drains the  *)
(* pool and deletes the entry.                                             *)
(*                                                                         *)
(* A byte is a position; what a byte holds is left out.  Each request ends *)
(* as RemoteCall allows: refused, carried out, carried out and its answer  *)
(* lost, or given up and carried out later, whatever the upload has become *)
(* by then.                                                                *)
(***************************************************************************)
EXTENDS Naturals, FiniteSets

CONSTANTS UPLOAD_THREAD_COUNT, UPLOAD_CHUNK_SIZE,
          MaxSize,       \* bound: size of the local file
          FileMayChange  \* whether another process may resize the local file

ASSUME ThreadAssumption == UPLOAD_THREAD_COUNT \in Nat \ {0}
ASSUME ChunkAssumption  == UPLOAD_CHUNK_SIZE \in Nat \ {0}
ASSUME SizeAssumption   == MaxSize \in Nat
ASSUME ChangeAssumption == FileMayChange \in BOOLEAN

VARIABLES
    pc,        \* where the caller's thread is
    disk,      \* size of the local file
    size,      \* file_size: its size when the upload began
    offset,    \* bytes read so far
    queued,    \* chunks submitted that no worker has picked up
    running,   \* chunks whose PUT is in flight
    succeeded, \* finished futures not yet collected: PUT accepted ...
    failed,    \* ... PUT raised
    reported,  \* bytes_uploaded, as the progress callback sees it
    interrupted, \* a BaseException (KeyboardInterrupt) is unwinding the upload
    entry,     \* the catalog entry on the server: "none", "present", "deleted"
    stored,    \* bytes the server holds for it
    strays,    \* whether a retried create left further entries (0 or 1)
    sent,      \* chunks whose PUT was sent: an attempt the worker, or the Retry of
               \* the session, gave up on may be served at any later time
    deleting   \* whether the clean-up's DELETE was sent, which may be served late too

futures == <<queued, running, succeeded, failed>>
catalog == <<entry, stored, strays>>
remote == <<catalog, sent, deleting>>
local == <<size, offset, reported, interrupted>>
vars == <<pc, disk, local, futures, remote>>

Chunk == [off : Nat, len : Nat \ {0}]
Bytes(c) == c.off .. c.off + c.len - 1
\* `pending': the futures the caller's loop still holds.
Pending == queued \cup running \cup succeeded \cup failed

Final == {"returned", "raised"}
Steps == {"stat", "create", "fill", "collect", "leave", "confirm", "drain", "cleanup"}

Init == /\ pc = "stat"
        /\ disk \in 0 .. MaxSize
        /\ size = 0 /\ offset = 0 /\ reported = 0 /\ interrupted = FALSE
        /\ queued = {} /\ running = {} /\ succeeded = {} /\ failed = {}
        /\ entry = "none" /\ stored = {} /\ strays = 0
        /\ sent = {} /\ deleting = FALSE

-----------------------------------------------------------------------------
(* The caller's thread.                                                    *)

Stat == /\ pc = "stat"
        /\ size' = disk
        /\ pc' = "create"
        /\ UNCHANGED <<disk, offset, reported, interrupted, futures, remote>>

\* The head of the loop: while offset < file_size or pending.
MutLoopOrLeave(read, held) == IF read < size THEN "fill" ELSE "leave"
LoopOrLeave(read, held) == IF read < size \/ held # {} THEN "fill" ELSE "leave"

\* POST /files.  The entry may be created more than once, or created although the
\* answer is lost or has no key; the latter raises before the try block.
CreateEntry == /\ pc = "create"
               /\ entry' = "present"
               /\ strays' \in {0, 1}
               /\ pc' \in {LoopOrLeave(offset, Pending), "raised"}
               /\ UNCHANGED <<disk, local, futures, stored, sent, deleting>>

\* Refused, or given up: the POST may still be served (ServeCreate).
CreateRefused == /\ pc = "create"
                 /\ pc' = "raised"
                 /\ UNCHANGED <<disk, local, futures, remote>>

Shortest(m, n) == IF m < n THEN m ELSE n
NextChunk == [off |-> offset, len |-> Shortest(UPLOAD_CHUNK_SIZE, disk - offset)]
MutMaySubmit == /\ Cardinality(Pending) < UPLOAD_THREAD_COUNT
                /\ offset < size
MaySubmit == /\ Cardinality(Pending) < UPLOAD_THREAD_COUNT
             /\ offset < size
             /\ offset < disk   \* else f.read returned nothing
MutSubmit == /\ pc = "fill"
             /\ MaySubmit
             /\ queued' = queued \cup {NextChunk}
             /\ offset' = offset + UPLOAD_CHUNK_SIZE
             /\ UNCHANGED <<pc, disk, size, reported, interrupted, running, succeeded, failed, remote>>
Submit == /\ pc = "fill"
          /\ MaySubmit
          /\ queued' = queued \cup {NextChunk}
          /\ offset' = offset + NextChunk.len
          /\ UNCHANGED <<pc, disk, size, reported, interrupted, running, succeeded, failed, remote>>

Filled == /\ pc = "fill"
          /\ ~MaySubmit
          /\ pc' = "collect"
          /\ UNCHANGED <<disk, local, futures, remote>>

\* The progress callback may raise after it has been told.
MutCollect(c) == /\ pc = "collect"
                 /\ succeeded' = succeeded \ {c}
                 /\ reported' = reported + UPLOAD_CHUNK_SIZE
                 /\ UNCHANGED <<disk, size, offset, interrupted, queued, running, failed, remote>>
                 /\ pc' \in {LoopOrLeave(offset, Pending'), "drain"}
Collect(c) == /\ pc = "collect"
              /\ succeeded' = succeeded \ {c}
              /\ reported' = reported + c.len
              /\ UNCHANGED <<disk, size, offset, interrupted, queued, running, failed, remote>>
              /\ pc' \in {LoopOrLeave(offset, Pending'), "drain"}

\* as_completed of an empty set yields nothing.
CollectNothing == /\ pc = "collect"
                  /\ Pending = {}
                  /\ pc' = LoopOrLeave(offset, Pending)
                  /\ UNCHANGED <<disk, local, futures, remote>>

MutCollectFailure == /\ pc = "collect"
                     /\ failed # {}
                     /\ pc' = LoopOrLeave(offset, Pending)
                     /\ UNCHANGED <<disk, local, futures, remote>>
CollectFailure == /\ pc = "collect"
                  /\ failed # {}
                  /\ pc' = "drain"
                  /\ UNCHANGED <<disk, local, futures, remote>>

\* f.read may raise too.
ReadFails == /\ pc = "fill"
             /\ MaySubmit
             /\ pc' = "drain"
             /\ UNCHANGED <<disk, local, futures, remote>>

\* A KeyboardInterrupt in the caller's thread; one that hits the wait for the
\* pool lets go of it with its workers alive, one that hits a request gives it up.
Interrupt == /\ pc \in Steps \ {"stat"}
             /\ pc' = IF pc \in {"fill", "collect"} THEN "drain" ELSE "raised"
             /\ interrupted' = TRUE
             /\ deleting' = (pc = "cleanup")
             /\ UNCHANGED <<disk, size, offset, reported, futures, catalog, sent>>

\* ThreadPoolExecutor.__exit__ waits for everything submitted, after the loop as
\* after an exception.
Idle == queued \cup running = {}

Leave == /\ pc = "leave"
         /\ Idle
         /\ pc' = "confirm"
         /\ UNCHANGED <<disk, local, futures, remote>>

\* A BaseException passes by the `except Exception' that would clean up.
MutDrained == /\ pc = "drain"
              /\ pc' = IF interrupted THEN "raised" ELSE "cleanup"
              /\ UNCHANGED <<disk, local, futures, remote>>
Drained == /\ pc = "drain"
           /\ Idle
           /\ pc' = IF interrupted THEN "raised" ELSE "cleanup"
           /\ UNCHANGED <<disk, local, futures, remote>>

\* Cleans up in a `finally'.
MutConfirm == /\ pc = "confirm"
              /\ pc' \in {"returned", "cleanup"}
              /\ deleting' = TRUE
              /\ UNCHANGED <<disk, local, futures, catalog, sent>>
\* self.get(key=int(file_id))
Confirm == /\ pc = "confirm"
           /\ pc' \in {"returned", "cleanup"}
           /\ UNCHANGED <<disk, local, futures, remote>>

\* self.delete(int(file_id)), its own failure suppressed.
Cleanup == /\ pc = "cleanup"
           /\ deleting' = TRUE
           /\ \/ entry' = "deleted" /\ stored' = {}
              \/ UNCHANGED <<entry, stored>>
           /\ pc' = "raised"
           /\ UNCHANGED <<disk, local, futures, strays, sent>>

-----------------------------------------------------------------------------
(* The worker threads (_upload_chunk), the server and the local disk.      *)

StartPut(c) == /\ Cardinality(running) < UPLOAD_THREAD_COUNT
               /\ queued' = queued \ {c}
               /\ running' = running \cup {c}
               /\ sent' = sent \cup {c}
               /\ UNCHANGED <<pc, disk, local, succeeded, failed, catalog, deleting>>

\* The server takes the bytes of an entry it has, from a worker that waits or from an
\* attempt nobody waits for.
ServePut(c) == /\ entry = "present"
               /\ stored' = stored \cup Bytes(c)
               /\ UNCHANGED <<pc, disk, local, futures, entry, strays, sent, deleting>>

\* An attempt of the POST that was given up: by the upload, or by the Retry that went on
\* to make another entry.
ServeCreate == /\ pc \notin {"stat", "create"}
               /\ IF entry = "none" THEN entry' = "present" /\ UNCHANGED strays
                                    ELSE strays' = 1 /\ UNCHANGED entry
               /\ UNCHANGED <<pc, disk, local, futures, stored, sent, deleting>>

\* An attempt of the DELETE that was given up.
ServeDelete == /\ deleting
               /\ entry = "present"
               /\ entry' = "deleted" /\ stored' = {}
               /\ UNCHANGED <<pc, disk, local, futures, strays, sent, deleting>>

PutAccepted(c) == /\ Bytes(c) \subseteq stored
                  /\ running' = running \ {c}
                  /\ succeeded' = succeeded \cup {c}
                  /\ UNCHANGED <<pc, disk, local, queued, failed, remote>>

\* Refused, timed out or cut off: whether or not the server stored the chunk, or will.
PutRaises(c) == /\ running' = running \ {c}
                /\ failed' = failed \cup {c}
                /\ UNCHANGED <<pc, disk, local, queued, succeeded, remote>>

Resize == /\ FileMayChange
          /\ disk' \in 0 .. MaxSize
          /\ UNCHANGED <<pc, local, futures, remote>>

-----------------------------------------------------------------------------
Caller == \/ Stat \/ CreateEntry \/ CreateRefused
          \/ Submit \/ Filled \/ ReadFails
          \/ CollectNothing \/ CollectFailure
          \/ \E c \in succeeded : Collect(c)
          \/ Leave \/ Drained \/ Confirm \/ Cleanup

PutEnds(c) == PutAccepted(c) \/ PutRaises(c)

Workers == \/ \E c \in queued  : StartPut(c)
           \/ \E c \in running : PutEnds(c)

Server == ServeCreate \/ ServeDelete \/ \E c \in sent : ServePut(c)

Next == Caller \/ Interrupt \/ Workers \/ Server \/ Resize

Spec == Init /\ [][Next]_vars

\* The caller's thread and the pool's threads run, and every PUT ends, if only by
\* UPLOAD_CHUNK_TIMEOUT.  Nothing makes the server answer.
FairSpec == /\ Spec
            /\ WF_vars(Caller)
            /\ WF_vars(\E c \in queued : StartPut(c))
            /\ WF_vars(\E c \in running : PutEnds(c))

-----------------------------------------------------------------------------
TypeOK == /\ pc \in Steps \cup Final
          /\ disk \in Nat /\ size \in Nat /\ offset \in Nat /\ reported \in Nat
          /\ interrupted \in BOOLEAN
          /\ queued \subseteq Chunk /\ running \subseteq Chunk
          /\ succeeded \subseteq Chunk /\ failed \subseteq Chunk
          /\ entry \in {"none", "present", "deleted"}
          /\ stored \subseteq Nat
          /\ strays \in {0, 1}
          /\ sent \subseteq Chunk /\ deleting \in BOOLEAN

Whole == entry = "present" /\ 0 .. size - 1 \subseteq stored

\* upload returns a File only when the server holds every byte of it, in whatever
\* order the workers finished and however many PUTs were lost or repeated.
SuccessIsComplete == pc = "returned" => Whole

\* No worker of the upload is alive once the delete goes out, nor after the upload
\* has returned or raised: no PUT is begun beside the clean-up.  Only an interrupt lets
\* workers outlive the upload.  (Attempts given up before may still be served: what they
\* can do is up to the contract.)
QuietAfterwards == pc \in {"confirm", "cleanup"} \cup Final /\ ~interrupted => Idle

\* The progress the callback has seen never runs ahead of the bytes stored.
ProgressIsHonest == entry # "deleted" => reported <= Cardinality(stored)

\* Chunks tile the file: no two cover the same byte, and every byte read is stored
\* or belongs to a chunk the loop still holds.
Covered(b) == b \in stored \/ \E c \in queued \cup running \cup failed : b \in Bytes(c)
NoByteForgotten ==
    /\ pc \in Steps \ {"cleanup"} => \A b \in 0 .. offset - 1 : Covered(b)
    /\ \A c, d \in Pending : c # d => Bytes(c) \cap Bytes(d) = {}

\* What the catalog shows of the upload.
CatalogEntry == IF entry = "none" THEN "none"
                ELSE IF entry = "deleted" THEN "gone"
                ELSE IF Whole THEN "complete" ELSE "partial"

\* What the caller has been told: a File, or an exception.
Verdict == CASE pc = "returned" -> "ok"
             [] pc = "raised"   -> "failed"
             [] OTHER           -> "running"

Contract == INSTANCE UploadContract WITH entry <- CatalogEntry, verdict <- Verdict

\* The upload, as the catalog and its caller see it, is the contract's: success only
\* of a complete entry, which nothing of the upload undoes later, though attempts of its
\* PUTs and its POST may still be on their way; an entry is removed only by an upload that
\* fails, and for good.
ImplementsContract == Contract!Spec

\* An upload comes to an end, unless its file is time and again shorter than it was
\* when the upload began: no lost answer, failure or slow worker keeps the loop going.
Shrunk == pc # "stat" /\ disk < size
Terminates == <>[]~Shrunk => <>(pc \in Final)

-----------------------------------------------------------------------------
(* Statements of the sources that the runs refute.                         *)

\* upload's docstring: "ValidationError: If upload fails": it returns or raises.  When
\* the file shrinks under the loop, f.read returns nothing, no future is left, and the
\* loop spins.
AlwaysTerminates == <>(pc \in Final)
=============================================================================
