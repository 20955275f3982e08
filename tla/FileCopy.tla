------------------------------- MODULE FileCopy -------------------------------
(***************************************************************************)
(* What the transfer of files to a path promises: the file at the path is  *)
(* replaced by a whole version, in one step, and only by a version that is *)
(* being uploaded at that moment; it never disappears.  Nothing is promised *)
(* once the transfers are "free": two of them overlapped, or the system    *)
(* lost a write that nobody reported.                                      *)
(***************************************************************************)
CONSTANTS Versions, None

VARIABLES
    file,       \* what the path holds
    offers,     \* versions being uploaded
    free

vars == <<file, offers, free>>

Init == file = None /\ offers = {} /\ free = FALSE

Offer(v) ==
    /\ offers' = offers \cup {v}
    /\ UNCHANGED <<file, free>>

\* Uploads end without a result: cancelled, failed, their link is gone.
Withdraw ==
    /\ offers' \subseteq offers
    /\ UNCHANGED <<file, free>>

Publish(v) ==
    /\ v \in offers
    /\ file' = v
    /\ offers' \subseteq offers
    /\ UNCHANGED free

Free == free'

Next == (\E v \in Versions : Offer(v) \/ Publish(v)) \/ Withdraw \/ Free

Spec == Init /\ [][Next]_vars

=============================================================================
