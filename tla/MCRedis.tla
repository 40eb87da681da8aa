------------------------------- MODULE MCRedis -------------------------------
(* The lock key and the counter of failed sign-ins, side by side.  They are  *)
(* two keys of Redis that nothing relates: one moves while the other rests   *)
(* in its initial state.                                                   *)
EXTENDS RedisLock, Login

MCNext ==
    \/ Init /\ LockNext /\ UNCHANGED vars
    \/ LockInit /\ Next /\ UNCHANGED lockVars

MCInit == LockInit /\ Init

MCSpec ==
    /\ MCInit
    /\ [][MCNext]_<<lockVars, vars>>
    /\ LockFairness /\ LoginFairness

TypesOK == LockTypeOK /\ TypeOK
=============================================================================
