--------------------------- MODULE RefreshTokens ---------------------------
(***************************************************************************)
(* What refresh tokens promise, with one store and no cache: a token is     *)
(* issued to a user, a refresh is accepted only while its token is alive,   *)
(* and a refresh issues a successor to the same user only after the token   *)
(* it was shown is dead.                                                   *)
(***************************************************************************)
CONSTANTS Users, Tokens, Procs, None

VARIABLES
    owner,     \* the user a token was issued to, None: not issued
    dead,      \* tokens revoked or expired
    accepted   \* the token a refresh in progress was accepted with

vars == <<owner, dead, accepted>>

Init ==
    /\ owner = [t \in Tokens |-> None]
    /\ dead = {}
    /\ accepted = [p \in Procs |-> None]

Issue(u, n) ==
    /\ owner[n] = None
    /\ owner' = [owner EXCEPT ![n] = u]
    /\ UNCHANGED <<dead, accepted>>

Accept(p, t) ==
    /\ accepted[p] = None
    /\ owner[t] # None /\ t \notin dead
    /\ accepted' = [accepted EXCEPT ![p] = t]
    /\ UNCHANGED <<owner, dead>>

Rotate(p, n) ==
    /\ accepted[p] \in dead
    /\ owner[n] = None
    /\ owner' = [owner EXCEPT ![n] = owner[accepted[p]]]
    /\ accepted' = [accepted EXCEPT ![p] = None]
    /\ UNCHANGED dead

GiveUp(p) ==
    /\ accepted[p] # None
    /\ accepted' = [accepted EXCEPT ![p] = None]
    /\ UNCHANGED <<owner, dead>>

Kill(S) ==
    /\ \A t \in S : owner[t] # None
    /\ dead' = dead \cup S
    /\ UNCHANGED <<owner, accepted>>

Next ==
    \/ \E u \in Users, n \in Tokens : Issue(u, n)
    \/ \E p \in Procs, t \in Tokens : Accept(p, t) \/ Rotate(p, t)
    \/ \E p \in Procs : GiveUp(p)
    \/ \E S \in SUBSET Tokens : Kill(S)

Spec == Init /\ [][Next]_vars
=============================================================================
