---------------------------- MODULE FtpFsManaged ----------------------------
(***************************************************************************)
(* The blocking client keeps the promise of ManagedControl.                *)
(***************************************************************************)
EXTENDS FtpFs

(* From the Option found to be Some until the mutex is released or the      *)
(* stream is back in it.                                                   *)
InCall == InExchange \cup {"raise", "record", "fail", "unlock", "list_record", "give_back"}

(* A call that made a handle has handed the connection to it.              *)
ConnectionUsers ==
    {t \in Threads : pc[t] \in InCall \ {"quit"} /\ held[t] = NoHandle}
    \cup {h \in Handles : Alive(h)}

Managed == INSTANCE ManagedControl WITH
    Users <- Threads \cup Handles,
    session <- SessionExists,
    users <- ConnectionUsers,
    clean <- SessionExists => chan.synced /\ ~chan.marker,
    marked <- SessionExists /\ ~connection_usable

(* Every step of the blocking client is a step of the abstract one or none *)
(* at all: the mutex, the two flags, the Option that a LIST empties and the*)
(* guard of a transfer stream together amount to one owner at a time, who  *)
(* never lets go of a connection it spoiled before that is recorded.       *)
ImplementsManagedControl == Managed!Spec
=============================================================================
