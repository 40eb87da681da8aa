------------------------------- MODULE Login -------------------------------
(***************************************************************************)
(* AuthService.login for one account: the fixed-window counter of           *)
(* RateLimiterService in front of validateUser, the reset after a right     *)
(* password, the issue of tokens, and the row recordLoginLog leaves.  The   *)
(* counter is one Redis key, shared by every attempt on the account.       *)
(***************************************************************************)
EXTENDS Integers

CONSTANTS
    Attempts,  \* attempts in flight at the same time (bound of the model)
    Max,       \* maxAttempts, 5 in the code
    MaxUnlimited,  \* no attempt begins once so many have been let through
                   \* unlimited on one counter (bound of the model)
    Faults     \* what can go wrong

AllFaults == {"down", "command", "crash", "mysql"}

ASSUME LoginAssumption ==
    /\ Max \in Nat \ {0} /\ MaxUnlimited \in Nat \ {0}
    /\ Faults \subseteq AllFaults

VARIABLES
    count,    \* the counter auth:login:fail:{account}, 0: no key.  Every value
              \* above Max + 1 behaves as Max + 1 does: the model stops there.
    ttl,      \* the key has a TTL
    up,       \* RedisService._isAvailable
    req,      \* the attempts
    counted,  \* attempts whose INCR hit the counter that exists now
    allowed,  \* attempts let through on this counter: on the number it answered
              \* or, while it existed, because Redis was unavailable
    unlimited,  \* how many of them because Redis was unavailable
    orphaned  \* an attempt that was to set the counter's TTL has gone without

vars == <<count, ttl, up, req, counted, allowed, unlimited, orphaned>>

Cap == Max + 1

Pcs == {"idle", "incr", "expire", "ttl", "validate", "reset", "issue",
        "log_ok", "log_fail", "end"}

Attempt == [pc: Pcs,
            good: BOOLEAN,      \* the right password of an enabled user
            seen: 0..Cap,       \* what INCR answered, 0: nothing
            status: {0, 1},     \* loginStatus
            answer: {"none", "tokens", "error"},
            rows: 0..2,         \* rows written to login_logs
            result: {"none", "SUCCESS", "FAILURE"}]   \* the last row's result

Fresh == [pc |-> "idle", good |-> FALSE, seen |-> 0, status |-> 0,
          answer |-> "none", rows |-> 0, result |-> "none"]

At(a, l) == req[a].pc = l
Goto(a, l) == req' = [req EXCEPT ![a].pc = l]

Init ==
    /\ count = 0 /\ ttl = FALSE
    /\ up = TRUE
    /\ req = [a \in Attempts |-> Fresh]
    /\ counted = {} /\ allowed = 0 /\ unlimited = 0 /\ orphaned = FALSE

Begin(a, good) ==
    /\ At(a, "idle") \/ At(a, "end")
    /\ unlimited < MaxUnlimited
    /\ req' = [req EXCEPT ![a] = [Fresh EXCEPT !.pc = "incr", !.good = good]]
    /\ counted' = counted \ {a}
    /\ UNCHANGED <<count, ttl, up, allowed, unlimited, orphaned>>

-----------------------------------------------------------------------------
(* RateLimiterService.check                                                *)

(* Mutant of Incr: EXPIRE is left to the attempt that reaches the limit.    *)
IncrExpiresLate(a) ==
    /\ At(a, "incr") /\ up
    /\ count' = IF count = Cap THEN Cap ELSE count + 1
    /\ req' = [req EXCEPT ![a].seen = count',
                          ![a].pc = IF count' = Max THEN "expire" ELSE "ttl"]
    /\ counted' = counted \cup {a}
    /\ UNCHANGED <<ttl, up, allowed, unlimited, orphaned>>

Incr(a) ==
    /\ At(a, "incr") /\ up
    /\ count' = IF count = Cap THEN Cap ELSE count + 1
    /\ req' = [req EXCEPT ![a].seen = count',
                          ![a].pc = IF count' = 1 THEN "expire" ELSE "ttl"]
    /\ counted' = counted \cup {a}
    /\ UNCHANGED <<ttl, up, allowed, unlimited, orphaned>>

(* Mutant of Expire: the TTL is never set.                                  *)
ExpireForgotten(a) ==
    /\ At(a, "expire") /\ up
    /\ Goto(a, "ttl")
    /\ UNCHANGED <<count, ttl, up, counted, allowed, unlimited, orphaned>>

(* EXPIRE does nothing to a key that has gone away.                        *)
Expire(a) ==
    /\ At(a, "expire") /\ up
    /\ ttl' = (count > 0) /\ orphaned' = FALSE
    /\ Goto(a, "ttl")
    /\ UNCHANGED <<count, up, counted, allowed, unlimited>>

(* Mutant of Decide: one attempt too many.                                 *)
DecideOffByOne(a) ==
    /\ At(a, "ttl") /\ up
    /\ Goto(a, IF req[a].seen <= Max + 1 THEN "validate" ELSE "log_fail")
    /\ allowed' = IF a \in counted /\ req[a].seen <= Max + 1 THEN allowed + 1 ELSE allowed
    /\ UNCHANGED <<count, ttl, up, counted, unlimited, orphaned>>

(* TTL, then allowed: count <= maxAttempts; login throws when it is not.    *)
Decide(a) ==
    /\ At(a, "ttl") /\ up
    /\ Goto(a, IF req[a].seen <= Max THEN "validate" ELSE "log_fail")
    /\ allowed' = IF a \in counted /\ req[a].seen <= Max THEN allowed + 1 ELSE allowed
    /\ UNCHANGED <<count, ttl, up, counted, unlimited, orphaned>>

(* The attempt leaves the limiter; was it to set a TTL?                    *)
Leave(a) == orphaned' = (orphaned \/ (At(a, "expire") /\ count > 0 /\ ~ttl))

(* Redis known to be unavailable: allowed without a limit, whatever the      *)
(* counter says and INCR answered.                                         *)
InWindow == IF count > 0 THEN 1 ELSE 0

Unlimited(a) ==
    /\ req[a].pc \in {"incr", "expire", "ttl"} /\ ~up
    /\ Goto(a, "validate")
    /\ Leave(a)
    /\ allowed' = allowed + InWindow /\ unlimited' = unlimited + InWindow
    /\ UNCHANGED <<count, ttl, up, counted>>

-----------------------------------------------------------------------------
(* The rest of login.                                                      *)

Validate(a) ==
    /\ At(a, "validate")
    /\ Goto(a, IF req[a].good THEN "reset" ELSE "log_fail")
    /\ UNCHANGED <<count, ttl, up, counted, allowed, unlimited, orphaned>>

KeyGone == /\ count' = 0 /\ ttl' = FALSE
           /\ counted' = {} /\ allowed' = 0 /\ unlimited' = 0 /\ orphaned' = FALSE

Success(a) == req' = [req EXCEPT ![a].pc = "issue", ![a].status = 1]

(* reset: DEL, whoever else is being counted.                              *)
Reset(a) ==
    /\ At(a, "reset") /\ up
    /\ KeyGone
    /\ Success(a)
    /\ UNCHANGED up

ResetSkipped(a) ==
    /\ At(a, "reset") /\ ~up
    /\ Success(a)
    /\ UNCHANGED <<count, ttl, up, counted, allowed, unlimited, orphaned>>

(* Roles, permission cache, access token, storeRefreshToken: see Sessions.  *)
Issue(a) ==
    /\ At(a, "issue")
    /\ \/ Goto(a, "log_ok")
       \/ Faults \cap {"mysql", "command"} # {} /\ Goto(a, "log_fail")
    /\ UNCHANGED <<count, ttl, up, counted, allowed, unlimited, orphaned>>

(* recordLoginLog takes loginStatus for an HTTP status code.               *)
LogResult(status) == IF status >= 200 /\ status < 300 THEN "SUCCESS" ELSE "FAILURE"

Row(r) == [r EXCEPT !.rows = @ + 1, !.result = LogResult(r.status)]

(* A failed insert is swallowed.                                           *)
Recorded(r) == {Row(r)} \cup (IF "mysql" \in Faults THEN {r} ELSE {})

(* Mutant of LogOk: the row of a success is written by the catch block too. *)
LogOkTwice(a) ==
    /\ At(a, "log_ok")
    /\ \E r \in Recorded(req[a]) :
         req' = [req EXCEPT ![a] = [r EXCEPT !.pc = "log_fail", !.answer = "tokens"]]
    /\ UNCHANGED <<count, ttl, up, counted, allowed, unlimited, orphaned>>

LogOk(a) ==
    /\ At(a, "log_ok")
    /\ \E r \in Recorded(req[a]) :
         req' = [req EXCEPT ![a] = [r EXCEPT !.pc = "end", !.answer = "tokens"]]
    /\ UNCHANGED <<count, ttl, up, counted, allowed, unlimited, orphaned>>

LogFail(a) ==
    /\ At(a, "log_fail")
    /\ \E r \in Recorded(req[a]) :
         req' = [req EXCEPT ![a] = [r EXCEPT !.pc = "end", !.answer = "error"]]
    /\ UNCHANGED <<count, ttl, up, counted, allowed, unlimited, orphaned>>

-----------------------------------------------------------------------------
(* The window closes.                                                      *)
Elapse ==
    /\ ttl
    /\ KeyGone
    /\ UNCHANGED <<up, req>>

RedisDown ==
    /\ "down" \in Faults /\ up
    /\ up' = FALSE
    /\ UNCHANGED <<count, ttl, req, counted, allowed, unlimited, orphaned>>

RedisConnect ==
    /\ ~up
    /\ up' = TRUE
    /\ UNCHANGED <<count, ttl, req, counted, allowed, unlimited, orphaned>>

(* A command throws an error that is no RedisUnavailableError: check and    *)
(* reset rethrow it, and the attempt ends in login's catch block.          *)
CommandFails(a) ==
    /\ "command" \in Faults /\ up
    /\ req[a].pc \in {"incr", "expire", "ttl", "reset"}
    /\ up' = FALSE
    /\ Goto(a, "log_fail")
    /\ Leave(a)
    /\ UNCHANGED <<count, ttl, counted, allowed, unlimited>>

(* The process dies: nothing of the attempt is left but the counter.       *)
Crash(a) ==
    /\ "crash" \in Faults
    /\ req[a].pc \notin {"idle", "end"}
    /\ req' = [req EXCEPT ![a] = Fresh]
    /\ counted' = counted \ {a}
    /\ Leave(a)
    /\ UNCHANGED <<count, ttl, up, allowed, unlimited>>

Step(a) == \/ Incr(a) \/ Expire(a) \/ Decide(a) \/ Unlimited(a)
           \/ Validate(a) \/ Reset(a) \/ ResetSkipped(a) \/ Issue(a)
           \/ LogOk(a) \/ LogFail(a)

Next == \/ \E a \in Attempts :
              \/ \E good \in BOOLEAN : Begin(a, good)
              \/ Step(a) \/ CommandFails(a) \/ Crash(a)
        \/ Elapse \/ RedisDown \/ RedisConnect

Spec == Init /\ [][Next]_vars

(* Node runs the continuations, a TTL that was set elapses.                *)
LoginFairness == WF_vars(Elapse) /\ \A a \in Attempts : WF_vars(Step(a))

-----------------------------------------------------------------------------
TypeOK ==
    /\ count \in 0..Cap
    /\ ttl \in BOOLEAN /\ up \in BOOLEAN
    /\ req \in [Attempts -> Attempt]
    /\ counted \subseteq Attempts
    /\ allowed \in Nat /\ unlimited \in Nat
    /\ orphaned \in BOOLEAN

(* At most maxAttempts attempts per window are let through, and beyond them  *)
(* only those that found Redis unavailable, one each: however the attempts  *)
(* interleave with each other, a reset, an outage and the end of a window,  *)
(* none that Redis answered passes on a number another attempt has used.   *)
WindowAdmitsMax == allowed <= Max + unlimited

(* A counter without a TTL has an attempt in flight that will set one, if   *)
(* none was cut off between its INCR and its EXPIRE.                        *)
CounterHasExpiry ==
    count > 0 /\ ~ttl => orphaned \/ \E a \in Attempts : At(a, "expire")

(* "Retry in N minutes": an account over its limit is let in again, with     *)
(* the same exception.                                                     *)
LockedAccountReopens == (count > Max) ~> (count = 0 \/ orphaned)

(* An attempt that was answered left one row, whatever it ran into.        *)
OneRowPerAttempt == \A a \in Attempts : At(a, "end") => req[a].rows = 1

(* login_logs.result is SUCCESS for the attempts that got tokens, FAILURE   *)
(* for the others.                                                         *)
LogTellsTruth ==
    \A a \in Attempts :
        At(a, "end") /\ req[a].rows > 0 =>
            (req[a].result = "SUCCESS" <=> req[a].answer = "tokens")
=============================================================================
