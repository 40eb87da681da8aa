-------------------------- MODULE SessionsHistory --------------------------
(***************************************************************************)
(* Sessions with a history variable, for what holds of requests one after   *)
(* the other.  auth:sessions:{userId} is the only list revokeAllUserTokens  *)
(* goes by, and the set can go before the sessions listed in it: a backfill *)
(* gives it the TTL of an old token, clearCache deletes it.  The code then  *)
(* misses their hashes.  The properties say that nothing else goes wrong.   *)
(***************************************************************************)
EXTENDS Sessions

VARIABLE lost   \* tokens that were listed when their session set went, and
                \* have not been listed again

hvars == <<vars, lost>>

Listed == UNION {sset[u] : u \in Users}

HInit == Init /\ lost = {}

HNext ==
    \/ /\ \E p \in Procs : Arrive(p) \/ Step(p)
       /\ lost' = lost \ Listed'
    \/ /\ \E u \in Users : SetStatus(u)
       /\ UNCHANGED lost
    \/ /\ Fault
       /\ lost' = lost \cup (Listed \ Listed')

HSpec == HInit /\ [][HNext]_hvars

Quiet == \A p \in Procs : req[p] = Idle

-----------------------------------------------------------------------------
(* Properties.                                                             *)

(* When nothing is in flight the fast path accepts only what MySQL accepts, *)
(* except a token whose session set went: revokeAllUserTokens marks its row *)
(* and leaves its hash.                                                    *)
QuiescentAgreement ==
    Quiet => \A t \in Tokens : FastPath(t) => Usable(t) \/ t \in lost

(* A session the fast path accepts is listed in the user's session set when *)
(* nothing is in flight, unless the set went with the session in it and the *)
(* session has not been written back since.                                *)
LiveSessionsAreListed ==
    Quiet => \A t \in Tokens : FastPath(t) => t \in sset[rtIndex[t]] \/ t \in lost

(* The refresh tokens as MySQL alone would keep them, had revokeAllUserTokens *)
(* the hashes of every session: a token of a lost set dies with its hash,   *)
(* which a touch that has found it will write once more.                   *)
AcceptedPcs == BackfillPcs \cup RevokePcs \cup {"user", "rv_row", "st_row"}

Stray == {t \in lost : \/ \E u \in Users : <<u, t>> \in hash
                       \/ \E p \in Procs : At(p, "tc_set") /\ req[p].tok = t}

Truth == INSTANCE RefreshTokens WITH
    dead <- (revoked \cup expired) \ Stray,
    accepted <- [p \in Procs |-> IF req[p].op = "refresh" /\ req[p].pc \in AcceptedPcs
                                 THEN req[p].tok ELSE None]

TruthSpec == Truth!Spec
=============================================================================
