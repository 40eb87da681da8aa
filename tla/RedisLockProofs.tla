-------------------------- MODULE RedisLockProofs --------------------------
(***************************************************************************)
(* The safety of LockService for any set of callers.  OwnerHoldsKey is      *)
(* inductive together with the types: SET NX never overwrites a key, the    *)
(* release script deletes only its own token, and whatever else removes     *)
(* the key marks the call it belonged to as lapsed.                        *)
(***************************************************************************)
EXTENDS MCRedis, LoginProofs

(* A call that is still to take the key has none to outlive.                *)
NoneOverdue == \A c \in Callers : pc[c] \in {"acquire", "retry", "sleep"} => c \notin lapsed

LInv == LockTypeOK /\ OwnerHoldsKey /\ NoneOverdue

(* The initial state: no key, no call.                                     *)
LEMMA InitLock == LockInit => LInv
  BY LockAssumption DEF LockInit, LInv, LockTypeOK, OwnerHoldsKey, NoneOverdue, Holding, LockPcs

(* A step of a call that leaves the key alone: entering or leaving the      *)
(* acquisition loop, and the end of fn.                                    *)
LEMMA LoopStep ==
  ASSUME LInv, NEW c \in Callers,
         Call(c) \/ AcquireTaken(c) \/ AcquireUnavailable(c) \/ Refuse(c) \/ Sleep(c)
           \/ Wake(c) \/ FnEnds(c) \/ WaitOver(c)
  PROVE  LInv'
<1> USE DEF LInv, LockTypeOK, OwnerHoldsKey, NoneOverdue, Holding, LockPcs, LockGoto
<1>1. CASE Call(c)
  BY <1>1 DEF Call
<1>2. CASE AcquireTaken(c) \/ AcquireUnavailable(c)
  BY <1>2 DEF AcquireTaken, AcquireUnavailable
<1>3. CASE Refuse(c) \/ Sleep(c) \/ Wake(c)
  BY <1>3 DEF Refuse, Sleep, Wake
<1>4. CASE FnEnds(c)
  BY <1>4 DEF FnEnds
<1>5. CASE WaitOver(c)
  BY <1>5 DEF WaitOver
<1> QED BY <1>1, <1>2, <1>3, <1>4, <1>5

(* A SET that succeeds, or fails after it was executed: NX means that no    *)
(* call owned the key before.                                              *)
LEMMA AcquireStep ==
  ASSUME LInv, NEW c \in Callers, AcquireOK(c) \/ AcquireFails(c)
  PROVE  LInv'
<1> USE LockAssumption DEF LInv, LockTypeOK, OwnerHoldsKey, NoneOverdue, Holding, LockPcs, LockGoto
<1>1. CASE AcquireOK(c)
  BY <1>1 DEF AcquireOK
<1>2. CASE AcquireFails(c)
  BY <1>2 DEF AcquireFails
<1> QED BY <1>1, <1>2

(* A release, a failed release and a crash end the call; the key of         *)
(* another call stays.                                                     *)
LEMMA EndStep ==
  ASSUME LInv, NEW c \in Callers,
         Release(c) \/ ReleaseUnavailable(c) \/ ReleaseFails(c) \/ CallerDies(c)
  PROVE  LInv'
<1> USE LockAssumption DEF LInv, LockTypeOK, OwnerHoldsKey, NoneOverdue, Holding, LockPcs, LockGoto, Forget
<1>1. CASE Release(c)
  BY <1>1 DEF Release
<1>2. CASE ReleaseUnavailable(c)
  BY <1>2 DEF ReleaseUnavailable
<1>3. CASE ReleaseFails(c)
  BY <1>3 DEF ReleaseFails
<1>4. CASE CallerDies(c)
  BY <1>4 DEF CallerDies
<1> QED BY <1>1, <1>2, <1>3, <1>4

(* The key goes away by itself: its call has lapsed.                        *)
LEMMA AroundStep ==
  ASSUME LInv, LockElapse \/ Clear \/ LockDown \/ LockConnect
  PROVE  LInv'
<1> USE LockAssumption DEF LInv, LockTypeOK, OwnerHoldsKey, NoneOverdue, Holding, LockPcs
<1>1. CASE LockElapse \/ Clear
  BY <1>1 DEF LockElapse, Clear, LockGone
<1>2. CASE LockDown \/ LockConnect
  BY <1>2 DEF LockDown, LockConnect
<1> QED BY <1>1, <1>2

(* Every step of every call preserves the invariant.                        *)
LEMMA NextLock == LInv /\ [LockNext]_lockVars => LInv'
<1> SUFFICES ASSUME LInv, [LockNext]_lockVars PROVE LInv'
  OBVIOUS
<1>1. ASSUME NEW c \in Callers,
             Call(c) \/ Loop(c) \/ FnEnds(c) \/ Finally(c) \/ WaitOver(c)
               \/ AcquireFails(c) \/ ReleaseFails(c) \/ CallerDies(c)
      PROVE  LInv'
  BY <1>1, LoopStep, AcquireStep, EndStep DEF Loop, Finally
<1>2. CASE UNCHANGED lockVars
  BY <1>2 DEF lockVars, LInv, LockTypeOK, OwnerHoldsKey, NoneOverdue
<1> QED BY <1>1, <1>2, AroundStep DEF LockNext

(* The inductive invariant of the lock.                                    *)
THEOREM LockInvariance == LockSpec => []LInv
  BY InitLock, NextLock, PTL DEF LockSpec

(* A callback whose key has not lapsed runs under its own key, and no call  *)
(* that has ended owns it (release in lock.service.ts).                    *)
THEOREM OwnersHold == LockSpec => []OwnerHoldsKey
<1>1. LInv => OwnerHoldsKey
  BY DEF LInv
<1> QED BY <1>1, LockInvariance, PTL

(* Two callbacks of withLock run at once only when one has outlived its     *)
(* key, for any number of callers and any options.                         *)
THEOREM LockExcludes == LockSpec => []MutualExclusion
<1>1. LInv => MutualExclusion
  BY DEF LInv, OwnerHoldsKey, MutualExclusion, Holding
<1> QED BY <1>1, LockInvariance, PTL

(* No release, successful or failed, removes the key of another call.       *)
THEOREM ReleaseIsSafe == LockSpec => ReleaseTakesOwn
<1>1. ASSUME LInv, [LockNext]_lockVars
      PROVE  [\A c \in Callers :
                 pc[c] = "release" /\ pc'[c] = "returned" /\ key # c => key' = key]_lockVars
  <2> SUFFICES ASSUME NEW c \in Callers, pc[c] = "release", pc'[c] = "returned",
                      key # c, LockNext
               PROVE  key' = key
    BY <1>1 DEF lockVars
  <2> USE DEF LInv, LockTypeOK, LockGoto
  <2>1. ASSUME NEW d \in Callers,
               Release(d) \/ ReleaseUnavailable(d) \/ ReleaseFails(d)
        PROVE  key' = key
    BY <1>1, <2>1 DEF Release, ReleaseUnavailable, ReleaseFails, Forget
  <2>2. ASSUME NEW d \in Callers, Loop(d)
        PROVE  FALSE
    BY <1>1, <2>2 DEF Loop, AcquireOK, AcquireTaken, AcquireUnavailable, Refuse, Sleep, Wake
  <2>3. ASSUME NEW d \in Callers, Call(d) \/ FnEnds(d) \/ WaitOver(d)
        PROVE  FALSE
    BY <1>1, <2>3 DEF Call, FnEnds, WaitOver
  <2>4. ASSUME NEW d \in Callers, AcquireFails(d) \/ CallerDies(d)
        PROVE  FALSE
    BY <1>1, <2>4 DEF AcquireFails, CallerDies
  <2>5. ASSUME LockElapse \/ Clear \/ LockDown \/ LockConnect
        PROVE  FALSE
    BY <1>1, <2>5 DEF LockElapse, Clear, LockGone, LockDown, LockConnect
  <2> QED BY <2>1, <2>2, <2>3, <2>4, <2>5 DEF LockNext, Finally
<1> QED BY <1>1, LockInvariance, PTL DEF LockSpec, ReleaseTakesOwn

-----------------------------------------------------------------------------
(* The key as a lease.  Calls that do not hold it move unseen; a SET grants   *)
(* it, to a call or, its answer lost, to none; release, the loss of its      *)
(* answer and a crash end a call; the TTL and clearCache let it run out.     *)

Overdue == lapsed \cap Working

LEMMA UnseenStep ==
  ASSUME LInv, NEW c \in Callers,
         Call(c) \/ AcquireTaken(c) \/ AcquireUnavailable(c) \/ Refuse(c) \/ Sleep(c)
           \/ Wake(c) \/ FnEnds(c) \/ WaitOver(c)
  PROVE  key' = key /\ Working' = Working /\ Overdue' = Overdue
<1> USE DEF LInv, LockTypeOK, Working, Overdue, Holding, LockGoto
<1>1. CASE Call(c)
  BY <1>1 DEF Call
<1>2. CASE AcquireTaken(c) \/ AcquireUnavailable(c)
  BY <1>2 DEF AcquireTaken, AcquireUnavailable
<1>3. CASE Refuse(c) \/ Sleep(c) \/ Wake(c)
  BY <1>3 DEF Refuse, Sleep, Wake
<1>4. CASE FnEnds(c)
  BY <1>4 DEF FnEnds
<1>5. CASE WaitOver(c)
  BY <1>5 DEF WaitOver
<1> QED BY <1>1, <1>2, <1>3, <1>4, <1>5

LEMMA GrantStep ==
  ASSUME LInv, NEW c \in Callers
  PROVE  /\ AcquireOK(c) => Lease!Grant(c)
         /\ AcquireFails(c) => Lease!GrantUnheard \/ UNCHANGED <<key, Working, Overdue>>
<1> USE DEF LInv, LockTypeOK, NoneOverdue, Working, Overdue, Holding, LockGoto
<1>1. ASSUME AcquireOK(c) PROVE Lease!Grant(c)
  BY <1>1 DEF AcquireOK, Lease!Grant
<1>2. ASSUME AcquireFails(c) PROVE Lease!GrantUnheard \/ UNCHANGED <<key, Working, Overdue>>
  BY <1>2 DEF AcquireFails, Lease!GrantUnheard
<1> QED BY <1>1, <1>2

(* A call that has no callback and no release to run has no key either.      *)
LEMMA CallEndStep ==
  ASSUME LInv, NEW c \in Callers,
         Release(c) \/ ReleaseUnavailable(c) \/ ReleaseFails(c) \/ CallerDies(c)
  PROVE  Lease!End(c) \/ UNCHANGED <<key, Working, Overdue>>
<1> USE DEF LInv, LockTypeOK, OwnerHoldsKey, Working, Overdue, Holding, LockGoto, Forget, Lease!End
<1>1. CASE Release(c)
  BY <1>1 DEF Release
<1>2. CASE ReleaseUnavailable(c)
  BY <1>2 DEF ReleaseUnavailable
<1>3. CASE ReleaseFails(c)
  BY <1>3 DEF ReleaseFails
<1>4. CASE CallerDies(c)
  BY <1>4 DEF CallerDies
<1> QED BY <1>1, <1>2, <1>3, <1>4

LEMMA RunOutStep ==
  ASSUME LInv
  PROVE  /\ LockElapse \/ Clear => Lease!RunOut
         /\ LockDown \/ LockConnect => UNCHANGED <<key, Working, Overdue>>
<1> USE LockAssumption DEF LInv, LockTypeOK, Working, Overdue
<1>1. ASSUME LockElapse \/ Clear PROVE Lease!RunOut
  BY <1>1 DEF LockElapse, Clear, LockGone, Lease!RunOut
<1>2. ASSUME LockDown \/ LockConnect PROVE UNCHANGED <<key, Working, Overdue>>
  BY <1>2 DEF LockDown, LockConnect
<1> QED BY <1>1, <1>2

(* Whatever fails, the lock key implements the lease of Leases: nobody takes  *)
(* it from another call, a call gives back its own lease only, and a call    *)
(* that loses it while it works is overdue until it ends.                    *)
THEOREM LockImplementsLease == LockSpec => LeaseSpec
<1>1. LockInit => Lease!Init
  BY DEF LockInit, Lease!Init, Working, Holding
<1>2. ASSUME LInv, [LockNext]_lockVars PROVE [Lease!Next]_(Lease!vars)
  <2>1. ASSUME NEW c \in Callers,
               Call(c) \/ Loop(c) \/ FnEnds(c) \/ Finally(c) \/ WaitOver(c)
                 \/ AcquireFails(c) \/ ReleaseFails(c) \/ CallerDies(c)
        PROVE  Lease!Next \/ UNCHANGED <<key, Working, Overdue>>
    BY <1>2, <2>1, UnseenStep, GrantStep, CallEndStep DEF Loop, Finally, Lease!Next
  <2>2. ASSUME UNCHANGED lockVars PROVE UNCHANGED <<key, Working, Overdue>>
    BY <2>2 DEF lockVars, Working, Overdue
  <2>3. Lease!Next \/ UNCHANGED <<key, Working, Overdue>>
    BY <1>2, <2>1, <2>2, RunOutStep DEF LockNext, Lease!Next
  <2> QED BY <2>3 DEF Lease!vars, Overdue
<1> QED BY <1>1, <1>2, LockInvariance, PTL DEF LockSpec, LeaseSpec, Lease!Spec

-----------------------------------------------------------------------------
(* The lock next to the counter of failed sign-ins, as TLC runs them.       *)

(* Neither disturbs the other: a behaviour of the two side by side is one   *)
(* of the lock and one of the limiter, so that all that is proved of each   *)
(* holds of the run.                                                       *)
LEMMA SideBySide == MCSpec => LockSpec /\ Spec
<1>1. MCInit => LockInit /\ Init
  BY DEF MCInit
<1>2. [MCNext]_<<lockVars, vars>> => [LockNext]_lockVars /\ [Next]_vars
  BY DEF MCNext
<1> QED BY <1>1, <1>2, PTL DEF MCSpec, LockSpec, Spec

(* The types of both, as the run checks them.                              *)
THEOREM RedisTypes == MCSpec => []TypesOK
<1>1. LInv /\ TypeOK => TypesOK
  BY DEF LInv, TypesOK
<1> QED BY <1>1, SideBySide, LockInvariance, LoginTypes, PTL
=============================================================================
