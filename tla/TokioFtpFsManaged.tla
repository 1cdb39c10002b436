-------------------------- MODULE TokioFtpFsManaged --------------------------
(***************************************************************************)
(* The asynchronous client keeps the promise of ManagedControl, as long as *)
(* one task uses it at a time and no finish() future is dropped: a call    *)
(* marks what it spoiled only after its mutex is released.                 *)
(***************************************************************************)
EXTENDS TokioFtpFs

(* From the Option found to be Some until nothing is left to record.        *)
InCall == Awaiting \cup {"start", "record", "fail", "complete", "unwind",
                         "late_record", "late_unwind", "raw"}

ConnectionUsers ==
    {t \in Tasks : pc[t] \in InCall /\ held[t] = NoHandle}
    \cup {h \in Handles : Alive(h)}

Managed == INSTANCE ManagedControl WITH
    Users <- Tasks \cup Handles,
    session <- stream,
    users <- ConnectionUsers,
    clean <- stream => chan.synced /\ ~chan.marker,
    marked <- stream /\ ~connection_usable

(* Every step of the asynchronous client is a step of the abstract one or  *)
(* none at all, cancellation at every await and the drops of unfinished    *)
(* streams included.                                                       *)
ImplementsManagedControl == Managed!Spec
=============================================================================
