------------------------------- MODULE Leases -------------------------------
(***************************************************************************)
(* What a lock with a time limit promises: it is granted when it is free,   *)
(* leaves its holder only for nobody, and only because the holder's call    *)
(* ends or the lease runs out, and in that case the call is known to be     *)
(* overdue from then on.                                                   *)
(***************************************************************************)
CONSTANTS
    Callers,
    Nobody,     \* the lease is free
    Lost        \* it is held by no call, and waits for its end

VARIABLES
    holder,     \* whose lease it is
    working,    \* calls that were granted it and have not ended
    overdue     \* those of them whose lease has run out

vars == <<holder, working, overdue>>

Init == holder = Nobody /\ working = {} /\ overdue = {}

Grant(c) ==
    /\ holder = Nobody /\ c \notin working
    /\ holder' = c
    /\ working' = working \cup {c}
    /\ UNCHANGED overdue

(* The lease is granted to a call that never hears of it.                   *)
GrantUnheard ==
    /\ holder = Nobody
    /\ holder' = Lost
    /\ UNCHANGED <<working, overdue>>

(* A call ends: it gives back its own lease, if it still has one, or leaves  *)
(* it to run out.                                                          *)
End(c) ==
    /\ c \in working
    /\ working' = working \ {c}
    /\ overdue' = overdue \ {c}
    /\ holder' \in IF holder = c THEN {Nobody, Lost} ELSE {holder}

RunOut ==
    /\ holder # Nobody
    /\ holder' = Nobody
    /\ overdue' = overdue \cup ({holder} \cap working)
    /\ UNCHANGED working

Next == GrantUnheard \/ RunOut \/ \E c \in Callers : Grant(c) \/ End(c)

Spec == Init /\ [][Next]_vars
=============================================================================
