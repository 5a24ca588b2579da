--------------------------- MODULE UploadContract ---------------------------
(***************************************************************************)
(* What FileManager.upload promises: one file entry that is filled, that   *)
(* is complete when the upload returns and that nothing of the upload      *)
(* undoes from then on.  An upload that raises promises less: requests it  *)
(* has given up may still be served, so that its entry may yet appear, be  *)
(* completed or be removed; but it is removed for good.                    *)
(***************************************************************************)
VARIABLES entry,  \* the entry in the media catalog
          verdict \* what the caller has been told

contract == <<entry, verdict>>

Entries == {"none", "partial", "complete", "gone"}

Init == entry = "none" /\ verdict = "running"

Appears   == entry = "none" /\ entry' \in {"partial", "complete"}
Completed == entry = "partial" /\ entry' = "complete"
Removed   == entry \in {"partial", "complete"} /\ entry' = "gone"

\* Until the caller has its file, and still after an exception.
Fill == verdict # "ok" /\ (Appears \/ Completed) /\ UNCHANGED verdict
\* A removal that comes late.
Remove == verdict = "failed" /\ Removed /\ UNCHANGED verdict

Succeed == /\ verdict = "running" /\ entry = "complete"
           /\ verdict' = "ok"
           /\ UNCHANGED entry
\* A failure normally removes the entry; it may also leave it behind, or never
\* have learnt that it was created.
Fail == /\ verdict = "running"
        /\ verdict' = "failed"
        /\ UNCHANGED entry \/ Appears \/ Removed

Next == Fill \/ Remove \/ Succeed \/ Fail

Spec == Init /\ [][Next]_contract
=============================================================================
