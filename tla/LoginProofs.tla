---------------------------- MODULE LoginProofs ----------------------------
(***************************************************************************)
(* RateLimiterService leaves a counter behind without a TTL only when the   *)
(* attempt that made it 1 was cut off before its EXPIRE: as long as it was  *)
(* not, that attempt is still in flight.                                   *)
(***************************************************************************)
EXTENDS Login, FiniteSetTheorems, TLAPS

(* An attempt that has not been answered has no row yet.                    *)
RowsLate == \A a \in Attempts : ~At(a, "end") => req[a].rows = 0

LoginInv == TypeOK /\ RowsLate /\ CounterHasExpiry

-----------------------------------------------------------------------------
(* No key is a value of the counter.                                       *)
LEMMA ZeroCount == 0 \in 0..Cap
  BY LoginAssumption DEF Cap

(* A new attempt is an attempt.                                            *)
LEMMA FreshType == Fresh \in Attempt
  BY ZeroCount DEF Fresh, Attempt, Pcs

(* Moving an attempt on keeps it an attempt.                                *)
LEMMA PcType ==
  ASSUME NEW r \in Attempt, NEW l \in Pcs
  PROVE  [r EXCEPT !.pc = l] \in Attempt /\ [r EXCEPT !.pc = l].rows = r.rows
  BY DEF Attempt

(* The first row of an attempt.                                            *)
LEMMA RowType == ASSUME NEW r \in Attempt, r.rows = 0 PROVE Row(r) \in Attempt
<1>1. LogResult(r.status) \in {"none", "SUCCESS", "FAILURE"}
  BY DEF LogResult
<1>2. r.rows + 1 \in 0..2
  BY DEF Attempt
<1> HIDE DEF LogResult
<1> QED BY <1>1, <1>2 DEF Row, Attempt

(* Replacing one attempt keeps the types and the rows.                      *)
LEMMA ReplaceAttempt ==
  ASSUME TypeOK, RowsLate, NEW a \in Attempts, NEW r \in Attempt,
         r.pc = "end" \/ r.rows = 0,
         req' = [req EXCEPT ![a] = r]
  PROVE  req' \in [Attempts -> Attempt] /\ RowsLate'
  BY DEF TypeOK, RowsLate, At

(* The special case of Goto.                                               *)
LEMMA GotoAttempt ==
  ASSUME TypeOK, RowsLate, NEW a \in Attempts, ~At(a, "end"), NEW l \in Pcs, Goto(a, l)
  PROVE  req' \in [Attempts -> Attempt] /\ RowsLate'
<1>1. req[a] \in Attempt /\ req[a].rows = 0
  BY DEF TypeOK, RowsLate
<1>2. req' = [req EXCEPT ![a] = [req[a] EXCEPT !.pc = l]]
  BY DEF Goto
<1> QED BY <1>1, <1>2, PcType, ReplaceAttempt

(* A step that keeps the counter and takes no attempt out of "expire".      *)
LEMMA KeepsCounter ==
  ASSUME TypeOK, CounterHasExpiry, count' = count, ttl' = ttl, orphaned => orphaned',
         NEW a \in Attempts, ~At(a, "expire"),
         NEW r, req' = [req EXCEPT ![a] = r]
  PROVE  CounterHasExpiry'
  BY DEF CounterHasExpiry, At, TypeOK

-----------------------------------------------------------------------------
(* No key at the start.                                                    *)
LEMMA InitLogin == Init => LoginInv
<1> SUFFICES ASSUME Init PROVE LoginInv
  OBVIOUS
<1>1. TypeOK
  BY ZeroCount, FreshType DEF Init, TypeOK
<1>2. RowsLate
  BY DEF Init, RowsLate, Fresh
<1>3. CounterHasExpiry
  BY DEF Init, CounterHasExpiry
<1> QED BY <1>1, <1>2, <1>3 DEF Init, LoginInv

(* INCR: whoever makes the counter 1 goes on to EXPIRE.                     *)
LEMMA IncrStep == ASSUME LoginInv, NEW a \in Attempts, Incr(a) PROVE LoginInv'
<1> DEFINE n == IF count = Cap THEN Cap ELSE count + 1
           l == IF n = 1 THEN "expire" ELSE "ttl"
           r == [[req[a] EXCEPT !.seen = n] EXCEPT !.pc = l]
<1>1. n \in 0..Cap /\ n > 0
  BY LoginAssumption DEF LoginInv, TypeOK, Cap
<1>2. req[a] \in Attempt /\ req[a].rows = 0 /\ req[a].pc = "incr"
  BY DEF LoginInv, TypeOK, RowsLate, Incr, At
<1>3. l \in Pcs
  BY DEF Pcs
<1>4. r \in Attempt /\ r.rows = 0 /\ r.pc = l
  <2> HIDE DEF n, l
  <2> QED BY <1>1, <1>2, <1>3 DEF Attempt
<1>5. count' = n /\ req' = [req EXCEPT ![a] = r]
  BY <1>2 DEF Incr, Attempt
<1>6. TypeOK' /\ RowsLate'
  <2>1. req' \in [Attempts -> Attempt] /\ RowsLate'
    <3> HIDE DEF r, l, n
    <3> QED BY <1>4, <1>5, ReplaceAttempt DEF LoginInv
  <2>2. count' \in 0..Cap
    BY <1>1, <1>5
  <2> HIDE DEF r, l, n
  <2> QED BY <2>1, <2>2 DEF LoginInv, TypeOK, Incr
<1>7. CounterHasExpiry'
  <2>1. CASE n = 1
    <3>1. req'[a].pc = "expire"
      BY <1>4, <1>5, <2>1 DEF LoginInv, TypeOK
    <3> QED BY <3>1 DEF CounterHasExpiry, At
  <2>2. CASE n # 1
    <3>1. SUFFICES ASSUME ~ttl, ~orphaned PROVE \E b \in Attempts : req'[b].pc = "expire"
      BY DEF CounterHasExpiry, At, Incr
    <3>2. count > 0
      BY <2>2, LoginAssumption DEF LoginInv, TypeOK, Cap
    <3>3. PICK b \in Attempts : req[b].pc = "expire"
      BY <3>1, <3>2 DEF LoginInv, CounterHasExpiry, At
    <3>4. b # a
      BY <1>2, <3>3
    <3>5. req'[b] = req[b]
      BY <1>5, <3>4 DEF LoginInv, TypeOK
    <3> QED BY <3>3, <3>5
  <2> QED BY <2>1, <2>2
<1> QED BY <1>6, <1>7 DEF LoginInv

(* EXPIRE and reset: no key without a TTL is left.                          *)
LEMMA ExpireStep == ASSUME LoginInv, NEW a \in Attempts, Expire(a) \/ Reset(a) PROVE LoginInv'
<1>1. CASE Expire(a)
  <2>1. "ttl" \in Pcs /\ ~At(a, "end") /\ Goto(a, "ttl")
    BY <1>1 DEF Pcs, Expire, At
  <2>2. req' \in [Attempts -> Attempt] /\ RowsLate'
    BY <2>1, GotoAttempt DEF LoginInv
  <2>3. ttl' \in BOOLEAN /\ orphaned' \in BOOLEAN /\ (count' > 0 => ttl' = TRUE)
    <3>1. ttl' = (count > 0) /\ orphaned' = FALSE /\ count' = count
      BY <1>1 DEF Expire
    <3>2. orphaned' \in BOOLEAN
      BY <3>1
    <3>3. CASE count > 0
      BY <3>1, <3>2, <3>3
    <3>4. CASE ~(count > 0)
      <4>1. ~(count' > 0)
        BY <3>1, <3>4
      <4>2. ttl' \in BOOLEAN
        BY <3>1
      <4> QED BY <3>2, <4>1, <4>2
    <3> QED BY <3>3, <3>4
  <2>4. UNCHANGED <<count, up, counted, allowed, unlimited>>
    BY <1>1 DEF Expire
  <2>5. CounterHasExpiry'
    BY <2>3 DEF CounterHasExpiry
  <2> QED BY <2>2, <2>3, <2>4, <2>5 DEF LoginInv, TypeOK
<1>2. CASE Reset(a)
  <2>1. req[a] \in Attempt /\ req[a].rows = 0
    BY <1>2 DEF LoginInv, TypeOK, RowsLate, Reset, At
  <2> DEFINE r == [req[a] EXCEPT !.pc = "issue", !.status = 1]
  <2>2. r \in Attempt /\ r.rows = 0
    BY <2>1 DEF Attempt, Pcs
  <2>3. req' = [req EXCEPT ![a] = r]
    BY <1>2 DEF Reset, Success
  <2>4. req' \in [Attempts -> Attempt] /\ RowsLate'
    <3> HIDE DEF r
    <3> QED BY <2>2, <2>3, ReplaceAttempt DEF LoginInv
  <2>5. count' \in 0..Cap /\ ~(count' > 0)
    BY <1>2, ZeroCount DEF Reset, KeyGone
  <2>6. /\ allowed' \in Nat /\ unlimited' \in Nat /\ counted' \subseteq Attempts
        /\ ttl' \in BOOLEAN /\ orphaned' \in BOOLEAN
    BY <1>2 DEF Reset, KeyGone
  <2> QED BY <1>2, <2>4, <2>5, <2>6 DEF Reset, LoginInv, TypeOK, CounterHasExpiry
<1> QED BY <1>1, <1>2

(* The steps that only move an attempt on.                                  *)
LEMMA MoveStep ==
  ASSUME LoginInv, NEW a \in Attempts, Decide(a) \/ Validate(a) \/ Issue(a)
  PROVE  LoginInv'
<1>1. PICK l \in Pcs : Goto(a, l)
  BY DEF Decide, Validate, Issue, Pcs
<1>2. ~At(a, "end") /\ ~At(a, "expire")
  BY DEF Decide, Validate, Issue, At
<1>3. req' \in [Attempts -> Attempt] /\ RowsLate'
  BY <1>1, <1>2, GotoAttempt DEF LoginInv
<1>4. UNCHANGED <<count, ttl, up, counted, unlimited, orphaned>>
  BY DEF Decide, Validate, Issue
<1>5. allowed' \in Nat
  <2>1. allowed' = allowed \/ allowed' = allowed + 1
    BY DEF Decide, Validate, Issue
  <2>2. allowed \in Nat
    BY DEF LoginInv, TypeOK
  <2> QED BY <2>1, <2>2
<1>6. CounterHasExpiry'
  BY <1>1, <1>2, <1>4, KeepsCounter DEF Goto, LoginInv
<1> QED BY <1>3, <1>4, <1>5, <1>6 DEF LoginInv, TypeOK

(* The row that is written at the end.                                      *)
LEMMA LogStep ==
  ASSUME LoginInv, NEW a \in Attempts, LogOk(a) \/ LogFail(a)
  PROVE  LoginInv'
<1>1. PICK x \in Recorded(req[a]), ans \in {"tokens", "error"} :
         req' = [req EXCEPT ![a] = [x EXCEPT !.pc = "end", !.answer = ans]]
  BY DEF LogOk, LogFail
<1>2. req[a] \in Attempt /\ req[a].rows = 0
  BY DEF LoginInv, TypeOK, RowsLate, LogOk, LogFail, At
<1>3. x \in Attempt
  BY <1>2, RowType DEF Recorded
<1> DEFINE r == [x EXCEPT !.pc = "end", !.answer = ans]
<1>4. r \in Attempt /\ r.pc = "end"
  BY <1>3 DEF Attempt, Pcs
<1>5. req' = [req EXCEPT ![a] = r]
  BY <1>1
<1> HIDE DEF r
<1>6. req' \in [Attempts -> Attempt] /\ RowsLate'
  BY <1>4, <1>5, ReplaceAttempt DEF LoginInv
<1>7. UNCHANGED <<count, ttl, up, counted, allowed, unlimited, orphaned>> /\ ~At(a, "expire")
  BY DEF LogOk, LogFail, At
<1>8. CounterHasExpiry'
  BY <1>5, <1>7, KeepsCounter DEF LoginInv
<1> QED BY <1>6, <1>7, <1>8 DEF LoginInv, TypeOK

(* The arrival of an attempt.                                              *)
LEMMA BeginStep ==
  ASSUME LoginInv, NEW a \in Attempts, NEW good \in BOOLEAN, Begin(a, good)
  PROVE  LoginInv'
<1> DEFINE r == [Fresh EXCEPT !.pc = "incr", !.good = good]
<1>1. r \in Attempt /\ r.rows = 0
  BY FreshType DEF Attempt, Pcs, Fresh
<1>2. req' = [req EXCEPT ![a] = r]
  BY DEF Begin
<1> HIDE DEF r
<1>3. req' \in [Attempts -> Attempt] /\ RowsLate'
  BY <1>1, <1>2, ReplaceAttempt DEF LoginInv
<1>4. UNCHANGED <<count, ttl, up, allowed, unlimited, orphaned>> /\ counted' \subseteq counted
        /\ ~At(a, "expire")
  BY DEF Begin, At
<1>5. CounterHasExpiry'
  BY <1>2, <1>4, KeepsCounter DEF LoginInv
<1> QED BY <1>3, <1>4, <1>5 DEF LoginInv, TypeOK

(* The window closes.                                                      *)
LEMMA ElapseStep == ASSUME LoginInv, Elapse PROVE LoginInv'
<1>1. count' \in 0..Cap /\ ~(count' > 0)
  BY ZeroCount DEF Elapse, KeyGone
<1>2. /\ ttl' \in BOOLEAN /\ orphaned' \in BOOLEAN
      /\ counted' \subseteq Attempts /\ allowed' \in Nat /\ unlimited' \in Nat
  BY DEF Elapse, KeyGone
<1> QED BY <1>1, <1>2 DEF Elapse, LoginInv, TypeOK, RowsLate, At, CounterHasExpiry

(* Whoever is let through without a limit is counted among the unlimited.   *)
LEMMA OneThrough ==
  ASSUME TypeOK, NEW a \in Attempts, Unlimited(a) \/ CommandFails(a) \/ Crash(a)
  PROVE  \E n \in Nat : allowed' = allowed + n /\ unlimited' = unlimited + n
<1>1. CASE Unlimited(a)
  <2>1. InWindow \in Nat BY DEF InWindow
  <2> QED BY <1>1, <2>1 DEF Unlimited
<1>2. CASE CommandFails(a) \/ Crash(a)
  <2>1. allowed' = allowed + 0 /\ unlimited' = unlimited + 0
    BY <1>2 DEF CommandFails, Crash, TypeOK
  <2> QED BY <2>1
<1> QED BY <1>1, <1>2

(* An attempt that leaves the limiter without an answer, and so without     *)
(* having set a TTL.                                                       *)
LEMMA LeaveStep ==
  ASSUME LoginInv, NEW a \in Attempts, Unlimited(a) \/ CommandFails(a) \/ Crash(a)
  PROVE  LoginInv'
<1>1. req[a] \in Attempt /\ ~At(a, "end")
  BY DEF LoginInv, TypeOK, Unlimited, CommandFails, Crash, At
<1>2. req' \in [Attempts -> Attempt] /\ RowsLate'
  <2>1. CASE Unlimited(a)
    BY <1>1, <2>1, GotoAttempt DEF Unlimited, Pcs, LoginInv
  <2>2. CASE CommandFails(a)
    BY <1>1, <2>2, GotoAttempt DEF CommandFails, Pcs, LoginInv
  <2>3. CASE Crash(a)
    <3>1. Fresh \in Attempt /\ Fresh.rows = 0
      BY FreshType DEF Fresh
    <3> QED BY <2>3, <3>1, ReplaceAttempt DEF Crash, LoginInv
  <2> QED BY <2>1, <2>2, <2>3
<1>3. Leave(a) /\ UNCHANGED <<count, ttl>> /\ up' \in BOOLEAN
        /\ counted' \subseteq Attempts
  BY DEF LoginInv, TypeOK, Unlimited, CommandFails, Crash
<1>7. allowed' \in Nat /\ unlimited' \in Nat
  <2>1. PICK n \in Nat : allowed' = allowed + n /\ unlimited' = unlimited + n
    BY OneThrough DEF LoginInv
  <2> QED BY <2>1 DEF LoginInv, TypeOK
<1>4. \A b \in Attempts \ {a} : req'[b] = req[b]
  BY DEF LoginInv, TypeOK, Unlimited, CommandFails, Crash, Goto
<1>5. CounterHasExpiry'
  <2> SUFFICES ASSUME count > 0, ~ttl, ~orphaned'
               PROVE  \E b \in Attempts : req'[b].pc = "expire"
    BY <1>3 DEF CounterHasExpiry, At
  <2>1. ~orphaned /\ ~At(a, "expire")
    BY <1>3 DEF Leave
  <2>2. PICK b \in Attempts : At(b, "expire")
    BY <2>1 DEF LoginInv, CounterHasExpiry
  <2> QED BY <1>4, <2>1, <2>2 DEF At
<1>6. orphaned' \in BOOLEAN
  BY <1>3 DEF Leave
<1> QED BY <1>2, <1>3, <1>5, <1>6, <1>7 DEF LoginInv, TypeOK

(* The reset that is skipped while Redis is unavailable.                    *)
LEMMA ResetSkippedStep == ASSUME LoginInv, NEW a \in Attempts, ResetSkipped(a) PROVE LoginInv'
<1>1. req[a] \in Attempt /\ req[a].rows = 0 /\ ~At(a, "expire")
  BY DEF LoginInv, TypeOK, RowsLate, ResetSkipped, At
<1> DEFINE r == [req[a] EXCEPT !.pc = "issue", !.status = 1]
<1>2. r \in Attempt /\ r.rows = 0
  BY <1>1 DEF Attempt, Pcs
<1>3. req' = [req EXCEPT ![a] = r]
  BY DEF ResetSkipped, Success
<1> HIDE DEF r
<1>4. req' \in [Attempts -> Attempt] /\ RowsLate'
  BY <1>2, <1>3, ReplaceAttempt DEF LoginInv
<1>5. UNCHANGED <<count, ttl, up, counted, allowed, unlimited, orphaned>>
  BY DEF ResetSkipped
<1>6. CounterHasExpiry'
  BY <1>1, <1>3, <1>5, KeepsCounter DEF LoginInv
<1> QED BY <1>4, <1>5, <1>6 DEF LoginInv, TypeOK

(* Every step.                                                             *)
LEMMA NextLogin == ASSUME LoginInv, [Next]_vars PROVE LoginInv'
<1>1. ASSUME NEW a \in Attempts, Step(a)
      PROVE  LoginInv'
  BY <1>1, IncrStep, ExpireStep, MoveStep, LogStep, LeaveStep, ResetSkippedStep DEF Step
<1>2. CASE RedisDown \/ RedisConnect
  BY <1>2 DEF RedisDown, RedisConnect, LoginInv, TypeOK, RowsLate, At, CounterHasExpiry
<1>3. CASE UNCHANGED vars
  BY <1>3 DEF vars, LoginInv, TypeOK, RowsLate, At, CounterHasExpiry
<1> QED BY <1>1, <1>2, <1>3, LeaveStep, BeginStep, ElapseStep DEF Next

(* The types of the counter, of the attempts and of their log rows.         *)
THEOREM LoginTypes == Spec => []TypeOK
<1>1. LoginInv /\ [Next]_vars => LoginInv'
  BY NextLogin
<1>2. LoginInv => TypeOK
  BY DEF LoginInv
<1> QED BY InitLogin, <1>1, <1>2, PTL DEF Spec

(* A counter that exists has a TTL, or an attempt that is about to set one, *)
(* unless that attempt was cut off (check in rate-limiter.service.ts), for  *)
(* any number of attempts, any limit and any faults.                       *)
THEOREM CounterExpires == Spec => []CounterHasExpiry
<1>1. LoginInv /\ [Next]_vars => LoginInv'
  BY NextLogin
<1>2. LoginInv => CounterHasExpiry
  BY DEF LoginInv
<1> QED BY InitLogin, <1>1, <1>2, PTL DEF Spec
-----------------------------------------------------------------------------
(* The window.  Each value of the counter is answered to one attempt: those  *)
(* let through on one and those still to be let through are no more than it, *)
(* and none of the latter has been answered more than Max.                 *)
Admissible(a) == req[a].pc \in {"expire", "ttl"} /\ req[a].seen <= Max

Waiting == {a \in counted : Admissible(a)}

WInv ==
    /\ IsFiniteSet(counted)
    /\ allowed + Cardinality(Waiting) <= count + unlimited
    /\ allowed + Cardinality(Waiting) <= Max + unlimited

LEMMA InitWindow == ASSUME Init PROVE WInv
<1>1. Waiting = {} /\ counted = {} BY DEF Init, Waiting
<1>2. 0 + 0 <= 0 + 0 /\ 0 + 0 <= Max + 0 BY LoginAssumption
<1> QED BY <1>1, <1>2, FS_EmptySet DEF Init, WInv

LEMMA WaitingFinite ==
    ASSUME WInv PROVE IsFiniteSet(Waiting) /\ Cardinality(Waiting) \in Nat
<1>1. Waiting \subseteq counted BY DEF Waiting
<1> QED BY <1>1, FS_Subset, FS_CardinalityType DEF WInv

(* Attempts that stop waiting, uncounted or not, leave room; those that are  *)
(* let through without a limit take none.                                  *)
LEMMA FewerWait ==
    ASSUME TypeOK, WInv, counted' \subseteq counted, Waiting' \subseteq Waiting,
           count' = count,
           NEW k \in Nat, allowed' = allowed + k, unlimited' = unlimited + k
    PROVE WInv'
<1>1. PICK n : n = Cardinality(Waiting) OBVIOUS
<1>2. PICK m : m = Cardinality(Waiting') OBVIOUS
<1>3. n \in Nat /\ m \in Nat /\ m <= n
  BY <1>1, <1>2, WaitingFinite, FS_Subset, FS_CardinalityType
<1>4. IsFiniteSet(counted') BY FS_Subset DEF WInv
<1>5. allowed \in Nat /\ unlimited \in Nat /\ count \in Nat /\ Max \in Nat
  BY LoginAssumption DEF TypeOK, Cap
<1>6. allowed + n <= count + unlimited /\ allowed + n <= Max + unlimited BY <1>1 DEF WInv
<1>7. allowed' + m <= count' + unlimited' /\ allowed' + m <= Max + unlimited'
  BY <1>3, <1>5, <1>6
<1> QED BY <1>2, <1>4, <1>7 DEF WInv

(* The special case of a step that lets nobody through.                     *)
LEMMA SameThrough ==
    ASSUME TypeOK, UNCHANGED <<allowed, unlimited>>
    PROVE allowed' = allowed + 0 /\ unlimited' = unlimited + 0
BY DEF TypeOK

(* The key is gone: a new window.                                          *)
LEMMA NewWindow == ASSUME KeyGone PROVE WInv'
<1>1. Waiting' = {} BY DEF KeyGone, Waiting
<1>2. 0 + 0 <= 0 + 0 /\ 0 + 0 <= Max + 0 BY LoginAssumption
<1> QED BY <1>1, <1>2, FS_EmptySet DEF KeyGone, WInv

(* INCR: one more may wait if the counter has not passed Max.               *)
LEMMA IncrWindow == ASSUME LoginInv, WInv, NEW a \in Attempts, Incr(a) PROVE WInv'
<1>1. /\ req[a] \in Attempt /\ req[a].pc = "incr" /\ req \in [Attempts -> Attempt]
      /\ count \in 0..Cap /\ allowed \in Nat /\ unlimited \in Nat
      /\ counted \subseteq Attempts /\ Max \in Nat \ {0} /\ Cap = Max + 1
  BY LoginAssumption DEF LoginInv, TypeOK, Incr, At, Cap
<1>2. count' = (IF count = Cap THEN Cap ELSE count + 1) /\ counted' = counted \cup {a}
      /\ allowed' = allowed /\ unlimited' = unlimited
  BY DEF Incr
<1>3. req'[a].seen = count' /\ req'[a].pc \in {"expire", "ttl"}
      /\ \A b \in Attempts \ {a} : req'[b] = req[b]
  BY <1>1 DEF Incr, Attempt
<1>4. a \notin Waiting BY <1>1 DEF Waiting, Admissible
<1>5. IsFiniteSet(counted') BY <1>2, FS_AddElement DEF WInv
<1>6. PICK n : n = Cardinality(Waiting) OBVIOUS
<1>7. n \in Nat /\ allowed + n <= count + unlimited /\ allowed + n <= Max + unlimited
  BY <1>6, WaitingFinite DEF WInv
<1>8. CASE count' <= Max
  <2>1. Waiting' = Waiting \cup {a} BY <1>1, <1>2, <1>3, <1>8 DEF Waiting, Admissible
  <2>2. Cardinality(Waiting') = n + 1
    BY <1>4, <1>6, <2>1, WaitingFinite, FS_AddElement
  <2>3. count' = count + 1 BY <1>1, <1>2, <1>8
  <2> QED BY <1>1, <1>2, <1>5, <1>7, <1>8, <2>2, <2>3 DEF WInv
<1>9. CASE ~(count' <= Max)
  <2>1. Waiting' = Waiting BY <1>1, <1>2, <1>3, <1>4, <1>9 DEF Waiting, Admissible
  <2>2. count' \in Nat /\ count <= count' BY <1>1, <1>2
  <2> QED BY <1>1, <1>2, <1>5, <1>6, <1>7, <2>1, <2>2 DEF WInv
<1> QED BY <1>8, <1>9

(* Letting an attempt through takes it from those that wait.                *)
LEMMA DecideWindow == ASSUME LoginInv, WInv, NEW a \in Attempts, Decide(a) PROVE WInv'
<1>1. /\ req[a] \in Attempt /\ req[a].pc = "ttl" /\ req \in [Attempts -> Attempt]
      /\ count \in Nat /\ allowed \in Nat /\ unlimited \in Nat
      /\ counted \subseteq Attempts /\ Max \in Nat
  BY LoginAssumption DEF LoginInv, TypeOK, Decide, At, Cap
<1>2. req'[a].pc \notin {"expire", "ttl"} /\ \A b \in Attempts \ {a} : req'[b] = req[b]
  BY <1>1 DEF Decide, Goto, Attempt
<1>3. UNCHANGED <<count, counted, unlimited>> BY DEF Decide
<1>4. Waiting' = Waiting \ {a} BY <1>1, <1>2, <1>3 DEF Waiting, Admissible
<1>5. CASE a \in counted /\ req[a].seen <= Max
  <2>1. a \in Waiting BY <1>1, <1>5 DEF Waiting, Admissible
  <2>2. PICK n : n = Cardinality(Waiting) OBVIOUS
  <2>3. n \in Nat /\ allowed + n <= count + unlimited /\ allowed + n <= Max + unlimited
    BY <2>2, WaitingFinite DEF WInv
  <2>4. Cardinality(Waiting') = n - 1
    BY <1>4, <2>1, <2>2, WaitingFinite, FS_RemoveElement
  <2>5. allowed' = allowed + 1 BY <1>5 DEF Decide
  <2> QED BY <1>1, <1>3, <2>3, <2>4, <2>5 DEF WInv
<1>6. CASE ~(a \in counted /\ req[a].seen <= Max)
  <2>1. allowed' = allowed BY <1>6 DEF Decide
  <2> QED BY <1>3, <1>4, <2>1, SameThrough, FewerWait DEF LoginInv
<1> QED BY <1>5, <1>6

(* A step that changes one attempt, and lets none begin to wait.            *)
LEMMA OneMoves ==
    ASSUME LoginInv, WInv, NEW a \in Attempts, counted' \subseteq counted,
           count' = count,
           NEW k \in Nat, allowed' = allowed + k, unlimited' = unlimited + k,
           \A b \in Attempts \ {a} : req'[b] = req[b],
           Admissible(a)' => Admissible(a)
    PROVE WInv'
<1>1. Waiting' \subseteq Waiting BY DEF LoginInv, TypeOK, Waiting, Admissible
<1> QED BY <1>1, FewerWait DEF LoginInv

LEMMA StepWindow == ASSUME LoginInv, WInv, NEW a \in Attempts, Step(a) \/ CommandFails(a) \/ Crash(a)
                    PROVE WInv'
<1>1. req \in [Attempts -> Attempt] /\ req[a] \in Attempt BY DEF LoginInv, TypeOK
<1>2. CASE Incr(a) BY <1>2, IncrWindow
<1>3. CASE Decide(a) BY <1>3, DecideWindow
<1>4. CASE Reset(a) BY <1>4, NewWindow DEF Reset
<1>5. CASE Expire(a)
  <2>1. UNCHANGED <<count, counted, allowed, unlimited>> /\ Goto(a, "ttl") /\ At(a, "expire")
    BY <1>5 DEF Expire
  <2>2. \A b \in Attempts \ {a} : req'[b] = req[b] BY <1>1, <2>1 DEF Goto
  <2>3. req'[a].seen = req[a].seen BY <1>1, <2>1 DEF Goto, Attempt
  <2> QED BY <2>1, <2>2, <2>3, SameThrough, OneMoves DEF LoginInv, Admissible, At
<1>6. CASE Unlimited(a) \/ Validate(a) \/ Issue(a) \/ CommandFails(a)
  <2>1. UNCHANGED <<count, counted>>
    BY <1>6 DEF Unlimited, Validate, Issue, CommandFails
  <2>2. PICK l \in Pcs \ {"expire", "ttl"} : Goto(a, l)
    BY <1>6 DEF Unlimited, Validate, Issue, CommandFails, Pcs
  <2>3. req'[a].pc = l /\ \A b \in Attempts \ {a} : req'[b] = req[b]
    BY <1>1, <2>2 DEF Goto, Attempt
  <2>4. PICK n \in Nat : allowed' = allowed + n /\ unlimited' = unlimited + n
    <3>1. CASE Unlimited(a) \/ CommandFails(a) BY <3>1, OneThrough DEF LoginInv
    <3>2. CASE Validate(a) \/ Issue(a)
      BY <3>2, SameThrough DEF Validate, Issue, LoginInv
    <3> QED BY <1>6, <3>1, <3>2
  <2> QED BY <2>1, <2>2, <2>3, <2>4, OneMoves DEF Admissible
<1>7. CASE ResetSkipped(a)
  <2>1. req'[a].pc = "issue" /\ \A b \in Attempts \ {a} : req'[b] = req[b]
    BY <1>1, <1>7 DEF ResetSkipped, Success, Attempt
  <2>2. UNCHANGED <<count, counted, allowed, unlimited>> BY <1>7 DEF ResetSkipped
  <2> QED BY <2>1, <2>2, SameThrough, OneMoves DEF LoginInv, Admissible
<1>8. CASE LogOk(a) \/ LogFail(a)
  <2>1. PICK x \in Recorded(req[a]), ans \in {"tokens", "error"} :
          req' = [req EXCEPT ![a] = [x EXCEPT !.pc = "end", !.answer = ans]]
    BY <1>8 DEF LogOk, LogFail
  <2>2. req[a].rows = 0 BY <1>8 DEF LoginInv, RowsLate, LogOk, LogFail, At
  <2>3. x \in Attempt BY <1>1, <2>2, RowType DEF Recorded
  <2>4. req'[a].pc = "end" /\ \A b \in Attempts \ {a} : req'[b] = req[b]
    BY <1>1, <2>1, <2>3 DEF Attempt
  <2>5. UNCHANGED <<count, counted, allowed, unlimited>> BY <1>8 DEF LogOk, LogFail
  <2> QED BY <2>4, <2>5, SameThrough, OneMoves DEF LoginInv, Admissible
<1>9. CASE Crash(a)
  <2>1. req'[a].pc = "idle" /\ \A b \in Attempts \ {a} : req'[b] = req[b]
    BY <1>1, <1>9 DEF Crash, Fresh
  <2>2. UNCHANGED <<count, allowed, unlimited>> /\ counted' \subseteq counted BY <1>9 DEF Crash
  <2> QED BY <2>1, <2>2, SameThrough, OneMoves DEF LoginInv, Admissible
<1> QED BY <1>2, <1>3, <1>4, <1>5, <1>6, <1>7, <1>8, <1>9 DEF Step

LEMMA NextWindow == ASSUME LoginInv, WInv, [Next]_vars PROVE WInv'
<1>1. ASSUME NEW a \in Attempts, NEW good \in BOOLEAN, Begin(a, good) PROVE WInv'
  <2>1. req'[a].pc = "incr" /\ \A b \in Attempts \ {a} : req'[b] = req[b]
    BY <1>1 DEF Begin, LoginInv, TypeOK, Fresh
  <2>2. UNCHANGED <<count, allowed, unlimited>> /\ counted' \subseteq counted BY <1>1 DEF Begin
  <2> QED BY <2>1, <2>2, SameThrough, OneMoves DEF LoginInv, Admissible
<1>2. CASE Elapse BY <1>2, NewWindow DEF Elapse
<1>3. CASE RedisDown \/ RedisConnect \/ UNCHANGED vars
  <2>1. UNCHANGED <<count, allowed, unlimited, counted, req>> BY <1>3 DEF RedisDown, RedisConnect, vars
  <2>2. Waiting' = Waiting BY <2>1 DEF Waiting, Admissible
  <2> QED BY <2>1, <2>2, SameThrough, FewerWait DEF LoginInv
<1> QED BY <1>1, <1>2, <1>3, StepWindow DEF Next

(* However attempts, resets and the ends of windows interleave and whatever  *)
(* fails, check of rate-limiter.service.ts lets no more than maxAttempts     *)
(* through on one counter, besides those that found Redis unavailable.      *)
THEOREM WindowLimits == Spec => []WindowAdmitsMax
<1> DEFINE I == LoginInv /\ WInv
<1>1. Init => I BY InitLogin, InitWindow
<1>2. I /\ [Next]_vars => I' BY NextLogin, NextWindow
<1>3. I => WindowAdmitsMax
  <2> SUFFICES ASSUME LoginInv, WInv PROVE WindowAdmitsMax OBVIOUS
  <2>1. PICK n : n = Cardinality(Waiting) OBVIOUS
  <2>2. n \in Nat /\ allowed + n <= Max + unlimited BY <2>1, WaitingFinite DEF WInv
  <2>3. allowed \in Nat /\ unlimited \in Nat /\ Max \in Nat BY LoginAssumption DEF LoginInv, TypeOK
  <2> QED BY <2>2, <2>3 DEF WindowAdmitsMax
<1> HIDE DEF I
<1> QED BY <1>1, <1>2, <1>3, PTL DEF Spec

-----------------------------------------------------------------------------
(* As long as MySQL takes the rows, an attempt that was answered left one.   *)
LEMMA RowStep ==
    ASSUME "mysql" \notin Faults, LoginInv, OneRowPerAttempt, [Next]_vars
    PROVE OneRowPerAttempt'
<1>1. req \in [Attempts -> Attempt] BY DEF LoginInv, TypeOK
<1>2. ASSUME NEW a \in Attempts, LogOk(a) \/ LogFail(a) PROVE OneRowPerAttempt'
  <2>1. req[a] \in Attempt /\ req[a].rows = 0
    BY <1>1, <1>2 DEF LoginInv, RowsLate, LogOk, LogFail, At
  <2>2. PICK ans \in {"tokens", "error"} :
          req' = [req EXCEPT ![a] = [Row(req[a]) EXCEPT !.pc = "end", !.answer = ans]]
    BY <1>2 DEF LogOk, LogFail, Recorded
  <2>3. Row(req[a]).rows = 1 BY <2>1 DEF Row, Attempt
  <2>4. Row(req[a]) \in Attempt BY <2>1, RowType
  <2>5. req'[a].rows = 1 BY <1>1, <2>2, <2>3, <2>4 DEF Attempt
  <2>6. \A b \in Attempts \ {a} : req'[b] = req[b] BY <1>1, <2>2
  <2> QED BY <2>5, <2>6 DEF OneRowPerAttempt, At
<1>3. ASSUME NEW a \in Attempts, req'[a].pc # "end",
             \A b \in Attempts \ {a} : req'[b] = req[b]
      PROVE OneRowPerAttempt'
  BY <1>3 DEF OneRowPerAttempt, At
<1>4. ASSUME NEW a \in Attempts, NEW l \in Pcs \ {"end"}, Goto(a, l) PROVE OneRowPerAttempt'
  <2>1. req[a] \in Attempt BY <1>1
  <2>2. req'[a].pc = l /\ \A b \in Attempts \ {a} : req'[b] = req[b]
    BY <1>1, <1>4, <2>1 DEF Goto, Attempt
  <2> QED BY <1>3, <2>2
<1>5. ASSUME NEW a \in Attempts, Step(a) \/ CommandFails(a) PROVE OneRowPerAttempt'
  <2>1. req[a] \in Attempt BY <1>1
  <2>2. CASE Incr(a)
    <3>1. req'[a].pc \in {"expire", "ttl"} /\ \A b \in Attempts \ {a} : req'[b] = req[b]
      BY <1>1, <2>1, <2>2 DEF Incr, Attempt
    <3> QED BY <1>3, <3>1
  <2>3. CASE Reset(a) \/ ResetSkipped(a)
    <3>1. req'[a].pc = "issue" /\ \A b \in Attempts \ {a} : req'[b] = req[b]
      BY <1>1, <2>1, <2>3 DEF Reset, ResetSkipped, Success, Attempt
    <3> QED BY <1>3, <3>1
  <2>4. CASE Expire(a) \/ Decide(a) \/ Unlimited(a) \/ Validate(a) \/ Issue(a) \/ CommandFails(a)
    <3>1. PICK l \in Pcs \ {"end"} : Goto(a, l)
      BY <2>4 DEF Expire, Decide, Unlimited, Validate, Issue, CommandFails, Pcs
    <3> QED BY <1>4, <3>1
  <2> QED BY <1>2, <1>5, <2>2, <2>3, <2>4 DEF Step
<1>6. ASSUME NEW a \in Attempts, NEW good \in BOOLEAN, Begin(a, good) PROVE OneRowPerAttempt'
  <2>1. req'[a].pc = "incr" /\ \A b \in Attempts \ {a} : req'[b] = req[b]
    BY <1>1, <1>6 DEF Begin, Fresh
  <2> QED BY <1>3, <2>1
<1>7. ASSUME NEW a \in Attempts, Crash(a) PROVE OneRowPerAttempt'
  <2>1. req'[a].pc = "idle" /\ \A b \in Attempts \ {a} : req'[b] = req[b]
    BY <1>1, <1>7 DEF Crash, Fresh
  <2> QED BY <1>3, <2>1
<1>8. CASE Elapse \/ RedisDown \/ RedisConnect \/ UNCHANGED vars
  BY <1>8 DEF Elapse, RedisDown, RedisConnect, vars, OneRowPerAttempt, At
<1> QED BY <1>5, <1>6, <1>7, <1>8 DEF Next

(* However an attempt ends and whatever runs beside it, login writes its row *)
(* of login_logs once: in the try block or in the catch block, unless the   *)
(* insert itself fails.                                                    *)
THEOREM RowWrittenOnce == ASSUME "mysql" \notin Faults PROVE Spec => []OneRowPerAttempt
<1> DEFINE I == LoginInv /\ OneRowPerAttempt
<1>1. Init => I
  <2>1. Init => OneRowPerAttempt BY DEF Init, OneRowPerAttempt, At, Fresh
  <2> QED BY <2>1, InitLogin
<1>2. I /\ [Next]_vars => I' BY NextLogin, RowStep
<1>3. I => OneRowPerAttempt OBVIOUS
<1> HIDE DEF I
<1> QED BY <1>1, <1>2, <1>3, PTL DEF Spec
=============================================================================
