----------------------------- MODULE RedisLock -----------------------------
(***************************************************************************)
(* LockService: one lock key of Redis and the withLock calls that compete  *)
(* for it.  The key is set with NX and EX, deleted by a script that        *)
(* compares the token, and goes away by itself when its TTL has elapsed;   *)
(* nothing stops a callback that is still running by then.                 *)
(***************************************************************************)
EXTENDS Naturals

CONSTANTS
    Callers,    \* concurrent withLock calls (of any server process)
    Patient,    \* those that pass waitTimeoutMs > 0
    Endless,    \* those that pass ttlSeconds = 0: set() then leaves EX out
    Nobody,     \* the key does not exist
    Lost,       \* a token no running call knows: the answer to its SET was lost,
                \* or its call is over and did not delete it
    LockFaults  \* what can go wrong

AllLockFaults == {"down", "reply", "crash", "clear"}

ASSUME LockAssumption ==
    /\ Patient \subseteq Callers /\ Endless \subseteq Callers
    /\ Nobody \notin Callers /\ Lost \notin Callers /\ Nobody # Lost
    /\ LockFaults \subseteq AllLockFaults

VARIABLES
    key,      \* whose token the lock key holds; randomUUID: a token is its call's
    keyTtl,   \* the key has a TTL
    lockUp,   \* RedisService._isAvailable
    pc,       \* where each withLock call is
    late,     \* calls that have waited waitTimeoutMs
    lapsed    \* calls in whose time the key they had set was taken away

lockVars == <<key, keyTtl, lockUp, pc, late, lapsed>>

LockPcs == {"idle", "acquire", "retry", "sleep", "fn", "release", "returned", "refused"}
Holding == {"fn", "release"}

LockInit ==
    /\ key = Nobody /\ keyTtl = FALSE
    /\ lockUp = TRUE
    /\ pc = [c \in Callers |-> "idle"]
    /\ late = {} /\ lapsed = {}

LockGoto(c, l) == pc' = [pc EXCEPT ![c] = l]

Call(c) ==
    /\ pc[c] \in {"idle", "returned", "refused"}
    /\ LockGoto(c, "acquire")
    /\ late' = late \ {c}
    /\ lapsed' = lapsed \ {c}
    /\ UNCHANGED <<key, keyTtl, lockUp>>

-----------------------------------------------------------------------------
(* acquire: SET key token NX EX ttl.  Any error looks like a refusal.          *)

(* Mutants of AcquireOK: no NX; no EX; the options in place of the token.   *)
AcquireNoNx(c) ==
    /\ pc[c] = "acquire" /\ lockUp
    /\ key' = c
    /\ keyTtl' = (c \notin Endless)
    /\ LockGoto(c, "fn")
    /\ UNCHANGED <<lockUp, late, lapsed>>

AcquireNoEx(c) ==
    /\ pc[c] = "acquire" /\ lockUp
    /\ key = Nobody
    /\ key' = c
    /\ keyTtl' = FALSE
    /\ LockGoto(c, "fn")
    /\ UNCHANGED <<lockUp, late, lapsed>>

AcquireSwapped(c) ==
    /\ pc[c] = "acquire" /\ lockUp
    /\ key = Nobody
    /\ key' = (c \notin Endless)
    /\ keyTtl' = (c \notin Endless)
    /\ LockGoto(c, "fn")
    /\ UNCHANGED <<lockUp, late, lapsed>>

AcquireOK(c) ==
    /\ pc[c] = "acquire" /\ lockUp
    /\ key = Nobody
    /\ key' = c
    /\ keyTtl' = (c \notin Endless)
    /\ LockGoto(c, "fn")
    /\ UNCHANGED <<lockUp, late, lapsed>>

AcquireTaken(c) ==
    /\ pc[c] = "acquire" /\ lockUp
    /\ key # Nobody
    /\ LockGoto(c, "retry")
    /\ UNCHANGED <<key, keyTtl, lockUp, late, lapsed>>

AcquireUnavailable(c) ==
    /\ pc[c] = "acquire" /\ ~lockUp
    /\ LockGoto(c, "retry")
    /\ UNCHANGED <<key, keyTtl, lockUp, late, lapsed>>

(* The command fails: it was executed or not, and the flag goes down.      *)
AcquireFails(c) ==
    /\ "reply" \in LockFaults
    /\ pc[c] = "acquire" /\ lockUp
    /\ \/ UNCHANGED <<key, keyTtl>>
       \/ key = Nobody /\ key' = Lost /\ keyTtl' = (c \notin Endless)
    /\ lockUp' = FALSE
    /\ LockGoto(c, "retry")
    /\ UNCHANGED <<late, lapsed>>

(* Mutant of Refuse: a call that waits never gives up.                         *)
RefuseImpatient(c) ==
    /\ pc[c] = "retry"
    /\ c \notin Patient
    /\ LockGoto(c, "refused")
    /\ UNCHANGED <<key, keyTtl, lockUp, late, lapsed>>

(* withLock after a null: no wait, waited long enough, or sleep.           *)
Refuse(c) ==
    /\ pc[c] = "retry"
    /\ c \notin Patient \/ c \in late
    /\ LockGoto(c, "refused")
    /\ UNCHANGED <<key, keyTtl, lockUp, late, lapsed>>

Sleep(c) ==
    /\ pc[c] = "retry"
    /\ c \in Patient /\ c \notin late
    /\ LockGoto(c, "sleep")
    /\ UNCHANGED <<key, keyTtl, lockUp, late, lapsed>>

Wake(c) ==
    /\ pc[c] = "sleep"
    /\ LockGoto(c, "acquire")
    /\ UNCHANGED <<key, keyTtl, lockUp, late, lapsed>>

(* Date.now() - startTime reaches waitTimeoutMs.                           *)
WaitOver(c) ==
    /\ c \in Patient \ late
    /\ pc[c] \in {"acquire", "retry", "sleep"}
    /\ late' = late \cup {c}
    /\ UNCHANGED <<key, keyTtl, lockUp, pc, lapsed>>

(* fn returns or throws: finally releases either way.                      *)
FnEnds(c) ==
    /\ pc[c] = "fn"
    /\ LockGoto(c, "release")
    /\ UNCHANGED <<key, keyTtl, lockUp, late, lapsed>>

(* Mutant of Release: DEL without the comparison of the token.             *)
ReleaseAny(c) ==
    /\ pc[c] = "release" /\ lockUp
    /\ key' = Nobody /\ keyTtl' = FALSE
    /\ LockGoto(c, "returned")
    /\ UNCHANGED <<lockUp, late, lapsed>>

(* The call is over, and with it the only copy of its token.               *)
Forget(c) == key' = (IF key = c THEN Lost ELSE key) /\ keyTtl' = keyTtl

(* release: get, compare and del in one script.                            *)
Release(c) ==
    /\ pc[c] = "release" /\ lockUp
    /\ IF key = c THEN key' = Nobody /\ keyTtl' = FALSE ELSE UNCHANGED <<key, keyTtl>>
    /\ LockGoto(c, "returned")
    /\ UNCHANGED <<lockUp, late, lapsed>>

(* Redis unavailable: release answers false, the key waits for its TTL.    *)
ReleaseUnavailable(c) ==
    /\ pc[c] = "release" /\ ~lockUp
    /\ Forget(c)
    /\ LockGoto(c, "returned")
    /\ UNCHANGED <<lockUp, late, lapsed>>

ReleaseFails(c) ==
    /\ "reply" \in LockFaults
    /\ pc[c] = "release" /\ lockUp
    /\ \/ Forget(c)
       \/ key = c /\ key' = Nobody /\ keyTtl' = FALSE
    /\ lockUp' = FALSE
    /\ LockGoto(c, "returned")
    /\ UNCHANGED <<late, lapsed>>

-----------------------------------------------------------------------------
(* Around the calls.                                                       *)

LockGone ==
    /\ key' = Nobody /\ keyTtl' = FALSE
    /\ lapsed' = IF key \in Callers THEN lapsed \cup {key} ELSE lapsed
    /\ UNCHANGED <<lockUp, pc, late>>

(* The TTL elapses, whatever the callback is doing.                        *)
LockElapse == key # Nobody /\ keyTtl /\ LockGone

(* CacheMonitorService.clearCache, or Redis losing its memory.             *)
Clear == "clear" \in LockFaults /\ key # Nobody /\ LockGone

(* The process of a call dies; a later call is a new one.                  *)
CallerDies(c) ==
    /\ "crash" \in LockFaults
    /\ pc[c] \notin {"idle", "returned", "refused"}
    /\ LockGoto(c, "idle")
    /\ Forget(c)
    /\ UNCHANGED <<lockUp, late, lapsed>>

LockDown ==
    /\ "down" \in LockFaults /\ lockUp
    /\ lockUp' = FALSE
    /\ UNCHANGED <<key, keyTtl, pc, late, lapsed>>

LockConnect ==
    /\ ~lockUp
    /\ lockUp' = TRUE
    /\ UNCHANGED <<key, keyTtl, pc, late, lapsed>>

Loop(c) == AcquireOK(c) \/ AcquireTaken(c) \/ AcquireUnavailable(c)
             \/ Refuse(c) \/ Sleep(c) \/ Wake(c)
Finally(c) == Release(c) \/ ReleaseUnavailable(c)

LockNext ==
    \/ \E c \in Callers :
          \/ Call(c) \/ Loop(c) \/ FnEnds(c) \/ Finally(c)
          \/ WaitOver(c)
          \/ AcquireFails(c) \/ ReleaseFails(c) \/ CallerDies(c)
    \/ LockElapse \/ Clear \/ LockDown \/ LockConnect

LockSpec == LockInit /\ [][LockNext]_lockVars

(* The event loop runs every continuation and timer, time passes (a TTL     *)
(* elapses, a wait ends) and callbacks end.  Callers may stop calling, and  *)
(* Redis may stay unavailable: after a failed command without a new        *)
(* connection the flag is never raised again.                              *)
LockFairness ==
    /\ \A c \in Callers :
         /\ WF_lockVars(Loop(c) \/ Finally(c))
         /\ WF_lockVars(FnEnds(c))
         /\ WF_lockVars(WaitOver(c))
    /\ WF_lockVars(LockElapse)

-----------------------------------------------------------------------------
LockTypeOK ==
    /\ key \in Callers \cup {Nobody, Lost}
    /\ keyTtl \in BOOLEAN /\ lockUp \in BOOLEAN
    /\ pc \in [Callers -> LockPcs]
    /\ late \subseteq Callers /\ lapsed \subseteq Callers

(* A callback runs under the key its own call has set, unless that key was  *)
(* taken from it by the TTL or by clearCache; and the key belongs to no     *)
(* call that has ended ("only the process that holds the token releases").  *)
OwnerHoldsKey ==
    \A c \in Callers :
        /\ pc[c] \in Holding /\ c \notin lapsed => key = c
        /\ key = c => pc[c] \in Holding

(* Two callbacks run at once only when one of them has outlived its key.   *)
MutualExclusion ==
    \A c, d \in Callers :
        c # d /\ pc[c] = "fn" /\ pc[d] = "fn" => c \in lapsed \/ d \in lapsed

(* Another call's key is never deleted by a release.                       *)
ReleaseTakesOwn ==
    [][\A c \in Callers :
          pc[c] = "release" /\ pc'[c] = "returned" /\ key # c => key' = key]_lockVars

(* The key is a lease: withLock grants it, ends by giving back what is its    *)
(* own, and what takes it from a running call makes that call overdue,      *)
(* whatever fails.                                                         *)
Working == {c \in Callers : pc[c] \in Holding}
Lease == INSTANCE Leases WITH holder <- key, working <- Working, overdue <- lapsed \cap Working
LeaseSpec == Lease!Spec

(* A key that nobody deletes goes away with its TTL ("prevents deadlock").  *)
KeyIsFreed == (key # Nobody) ~> (key = Nobody)

(* Every withLock call comes back to its caller, with fn's result or with a *)
(* LockAcquireError.                                                       *)
CallsReturn ==
    \A c \in Callers : (pc[c] = "acquire") ~> (pc[c] \in {"returned", "refused", "idle"})
=============================================================================
