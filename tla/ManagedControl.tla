--------------------------- MODULE ManagedControl ---------------------------
(***************************************************************************)
(* What a client promises about its control connection, whatever threads,  *)
(* locks, flags and futures it uses to keep the promise.                   *)
(*                                                                         *)
(* At most one user has the connection: a call, or the transfer stream a   *)
(* call handed it to.  A user may spoil it, but has said so by the time it *)
(* lets go, and nobody takes a connection that is spoiled or said to be.   *)
(* What was said stays said until the session is given up.                 *)
(***************************************************************************)
CONSTANT Users              \* the calls and the transfer streams

VARIABLES
    session,                \* there is a control stream
    users,                  \* who has it
    clean,                  \* replies in step, no restart marker pending
    marked                  \* operations are refused until reconnection

mcvars == <<session, users, clean, marked>>

Free == users = {}

Init ==
    /\ session = FALSE
    /\ users = {}
    /\ clean = TRUE
    /\ marked = FALSE

Connect ==
    /\ ~session
    /\ session' = TRUE
    /\ UNCHANGED <<users, clean, marked>>

(* Whether or not it was spoiled, and whether or not a QUIT is sent.       *)
HangUp ==
    /\ session /\ Free
    /\ session' = FALSE
    /\ clean' = TRUE
    /\ marked' = FALSE
    /\ UNCHANGED users

Acquire(a) ==
    /\ session /\ Free
    /\ clean /\ ~marked
    /\ users' = {a}
    /\ UNCHANGED <<session, clean, marked>>

(* Commands, replies, data and cleanup of the user who has the connection.  *)
Use(a) ==
    /\ users = {a}
    /\ clean' \in BOOLEAN
    /\ marked' \in BOOLEAN
    /\ marked => marked'
    /\ UNCHANGED <<session, users>>

HandOver(a, b) ==
    /\ users = {a}
    /\ users' = {b}
    /\ clean
    /\ UNCHANGED <<session, clean, marked>>

Release(a) ==
    /\ users = {a}
    /\ users' = {}
    /\ marked' \in BOOLEAN
    /\ marked => marked'
    /\ clean \/ marked'
    /\ UNCHANGED <<session, clean>>

Next ==
    \/ Connect \/ HangUp
    \/ \E a \in Users : Acquire(a) \/ Use(a) \/ Release(a)
    \/ \E a, b \in Users : HandOver(a, b)

Spec == Init /\ [][Next]_mcvars
=============================================================================
