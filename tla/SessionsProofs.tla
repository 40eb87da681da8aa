--------------------------- MODULE SessionsProofs ---------------------------
(***************************************************************************)
(* Proofs about Sessions, for any number of users, tokens and requests.     *)
(* The first part holds under every combination of operations and faults;  *)
(* the second, with the refinement of RefreshTokens, takes one request at a *)
(* time, lets any key be evicted and any token expire, and keeps the history *)
(* of the session sets that went before their members.                     *)
(***************************************************************************)
EXTENDS SessionsHistory, TLAPS

-----------------------------------------------------------------------------
(* The inductive invariant.  What Redis holds can only be tied to MySQL if  *)
(* what a request carries from one command to the next is tied to it too.  *)

(* What a request r in flight knows at each of its commands.               *)
Sound(r) ==
    /\ r.pc \in StorePcs => r.user \in Users /\ r.new \in Tokens /\ owner[r.new] = r.user
    /\ r.pc = "st_row" => r.user \in Users /\ r.new \in Tokens /\ owner[r.new] = None
    /\ r.pc \in LookupPcs \cup BackfillPcs \cup {"vf_row", "user", "rv_row"} => r.op = "refresh"
    /\ r.op = "refresh" => r.tok \in Tokens
    /\ r.op = "refresh" /\ r.pc \notin StorePcs => r.new \in Tokens /\ owner[r.new] = None
    /\ r.op = "refresh" /\ r.pc \in BackfillPcs \cup RevokePcs \cup {"user", "rv_row", "st_row"}
         => r.user \in Users /\ owner[r.tok] = r.user
    /\ r.pc \in RevokePcs \cup {"tc_exists", "tc_set", "ls_rem"}
         => r.user \in Users /\ r.tok \in Tokens
    /\ r.pc \in {"lo_get", "tc_get"} => r.tok \in Tokens
    /\ r.pc \in RevokeAllPcs \cup ListPcs \cup {"ra_rows"} => r.user \in Users
    /\ r.pc \in {"lo_get", "tc_get", "tc_exists", "tc_set"} \cup RevokeAllPcs
                  \cup ListPcs \cup {"ra_rows", "idle"} => r.op # "refresh"
    /\ r.pc = "tc_set" => owner[r.tok] = r.user

RequestsSound == \A p \in Procs : Sound(req[p])

(* No two requests carry the same generated token.                         *)
NewTokensDistinct ==
    \A p, q \in Procs : p # q /\ req[p].new # None => req[p].new # req[q].new

IInv == /\ TypeOK
        /\ RedisFollowsMySQL
        /\ GivenTokensHaveRows
        /\ RequestsSound
        /\ NewTokensDistinct

-----------------------------------------------------------------------------
(* How a step changes the record of its own request.                       *)

LEMMA GotoFacts ==
    ASSUME TypeOK, NEW p \in Procs, NEW c \in Pcs, Goto(p, c)
    PROVE  /\ req' \in [Procs -> Request]
           /\ req'[p] = [req[p] EXCEPT !.pc = c]
           /\ \A q \in Procs : q # p => req'[q] = req[q]
  BY DEF TypeOK, Goto, Request

LEMMA IdleType == Idle \in Request
  BY DEF Idle, Request, Pcs

LEMMA FinishFacts ==
    ASSUME TypeOK, NEW p \in Procs, Finish(p)
    PROVE  /\ req' \in [Procs -> Request]
           /\ req'[p] = Idle
           /\ \A q \in Procs : q # p => req'[q] = req[q]
  BY IdleType DEF TypeOK, Finish

LEMMA BeginFacts ==
    ASSUME TypeOK, NEW p \in Procs, NEW r \in Request, Begin(p, r)
    PROVE  /\ req[p] = Idle
           /\ req' \in [Procs -> Request]
           /\ req'[p] = r
           /\ \A q \in Procs : q # p => req'[q] = req[q]
           /\ UNCHANGED <<mysql, redis, up, given, out>>
  BY DEF TypeOK, Begin

(* A step that leaves the rows alone concerns only the request that takes   *)
(* it, as long as it brings in no new token.                               *)
LEMMA OwnRequest ==
    ASSUME IInv, NEW p \in Procs,
           owner' = owner,
           \A q \in Procs : q # p => req'[q] = req[q],
           Sound(req[p])',
           req'[p].new \in {req[p].new, None}
    PROVE  RequestsSound' /\ NewTokensDistinct'
  <1>1. ASSUME NEW q \in Procs, q # p
        PROVE  Sound(req[q])'
    BY <1>1 DEF IInv, RequestsSound, Sound
  <1>2. RequestsSound'
    BY <1>1 DEF RequestsSound
  <1>3. NewTokensDistinct'
    BY DEF IInv, NewTokensDistinct
  <1> QED BY <1>2, <1>3

(* The end of a request.                                                   *)
LEMMA IdleSound == Sound(Idle) /\ Sound(Idle)'
  BY DEF Sound, Idle, StorePcs, LookupPcs, BackfillPcs, RevokePcs, RevokeAllPcs, ListPcs

LEMMA FinishRequest ==
    ASSUME IInv, NEW p \in Procs, owner' = owner, Finish(p)
    PROVE  req' \in [Procs -> Request] /\ RequestsSound' /\ NewTokensDistinct'
  <1>1. /\ req' \in [Procs -> Request]
        /\ req'[p] = Idle
        /\ \A q \in Procs : q # p => req'[q] = req[q]
    BY FinishFacts DEF IInv
  <1>2. Sound(req[p])'
    BY <1>1, IdleSound DEF Sound
  <1>3. req'[p].new = None
    BY <1>1 DEF Idle
  <1> QED BY <1>1, <1>2, <1>3, OwnRequest

(* A request that goes on to another command with what it already knows.   *)
LEMMA GotoRequest ==
    ASSUME IInv, NEW p \in Procs, owner' = owner, NEW c \in Pcs, Goto(p, c),
           Sound([req[p] EXCEPT !.pc = c])
    PROVE  req' \in [Procs -> Request] /\ RequestsSound' /\ NewTokensDistinct'
  <1>1. /\ req' \in [Procs -> Request]
        /\ req'[p] = [req[p] EXCEPT !.pc = c]
        /\ \A q \in Procs : q # p => req'[q] = req[q]
    BY GotoFacts DEF IInv
  <1>2. Sound(req[p])'
    BY <1>1 DEF Sound
  <1>3. req'[p].new = req[p].new
    BY <1>1 DEF IInv, TypeOK, Request
  <1> QED BY <1>1, <1>2, <1>3, OwnRequest

-----------------------------------------------------------------------------
(* Initially.                                                              *)

LEMMA InitInv == Init => IInv
  <1> SUFFICES ASSUME Init PROVE IInv
    OBVIOUS
  <1>1. TypeOK
    BY IdleType DEF Init, TypeOK
  <1>2. RedisFollowsMySQL /\ GivenTokensHaveRows
    BY DEF Init, RedisFollowsMySQL, GivenTokensHaveRows
  <1>3. RequestsSound
    BY IdleSound DEF Init, RequestsSound
  <1>4. NewTokensDistinct
    BY DEF Init, NewTokensDistinct, Idle
  <1> QED BY <1>1, <1>2, <1>3, <1>4 DEF IInv

-----------------------------------------------------------------------------
(* Arrivals.                                                               *)

LEMMA ArriveInv == ASSUME IInv, NEW p \in Procs, Arrive(p) PROVE IInv'
  <1>1. ASSUME NEW r \in Request, Begin(p, r), Sound(r),
               r.new # None => Fresh(r.new)
        PROVE  IInv'
    <2>1. /\ req[p] = Idle
          /\ req' \in [Procs -> Request]
          /\ req'[p] = r
          /\ \A q \in Procs : q # p => req'[q] = req[q]
          /\ UNCHANGED <<mysql, redis, up, given, out>>
      BY <1>1, BeginFacts DEF IInv
    <2>2. TypeOK'
      BY <2>1 DEF IInv, TypeOK, mysql, redis
    <2>3. RedisFollowsMySQL' /\ GivenTokensHaveRows'
      BY <2>1 DEF IInv, RedisFollowsMySQL, GivenTokensHaveRows, mysql, redis
    <2>4. RequestsSound'
      <3>1. Sound(r)'
        BY <1>1, <2>1 DEF Sound, mysql
      <3>2. ASSUME NEW q \in Procs, q # p
            PROVE  Sound(req[q])'
        BY <3>2, <2>1 DEF IInv, RequestsSound, Sound, mysql
      <3> QED BY <3>1, <3>2, <2>1 DEF RequestsSound, Sound
    <2>5. NewTokensDistinct'
      BY <1>1, <2>1 DEF IInv, NewTokensDistinct, Fresh
    <2> QED BY <2>2, <2>3, <2>4, <2>5 DEF IInv
  <1> USE DEF Idle, Request, Pcs, RedisPcs, AllOps, Sound, StorePcs, LookupPcs, BackfillPcs,
              RevokePcs, RevokeAllPcs, ListPcs, TouchPcs
  <1>2. ASSUME NEW u \in Users, NEW n \in Tokens, Login(p, u, n)
        PROVE  IInv'
    <2> DEFINE r == [Idle EXCEPT !.op = "login", !.pc = "st_row", !.user = u, !.new = n]
    <2>1. r \in Request /\ Sound(r)
      BY <1>2 DEF Login, Fresh
    <2> QED BY <2>1, <1>1, <1>2 DEF Login
  <1>3. ASSUME NEW t \in Tokens, NEW n \in Tokens, Refresh(p, t, n)
        PROVE  IInv'
    <2> DEFINE dead == ~Usable(t) \/ t \in out
               r == [Idle EXCEPT !.op = "refresh", !.pc = "vf_index", !.tok = t,
                                 !.new = n, !.late = dead]
    <2>1. Fresh(n) /\ Begin(p, r)
      BY <1>3 DEF Refresh
    <2>2. dead \in BOOLEAN
      OBVIOUS
    <2> HIDE DEF dead
    <2>3. r \in Request
      BY <2>2
    <2>4. Sound(r)
      BY <2>1 DEF Fresh
    <2> QED BY <2>1, <2>3, <2>4, <1>1
  <1>4. ASSUME NEW t \in Tokens, Logout(p, t) PROVE IInv'
    <2> DEFINE r == [Idle EXCEPT !.op = "logout", !.pc = "lo_get", !.tok = t]
    <2>1. r \in Request /\ Sound(r) /\ r.new = None
      OBVIOUS
    <2> QED BY <2>1, <1>1, <1>4 DEF Logout
  <1>5. ASSUME NEW u \in Users, NEW t \in Tokens, RevokeSession(p, u, t) PROVE IInv'
    <2> DEFINE r == [Idle EXCEPT !.op = "revoke", !.pc = "rv_jti", !.user = u, !.tok = t]
    <2>1. r \in Request /\ Sound(r) /\ r.new = None
      OBVIOUS
    <2> QED BY <2>1, <1>1, <1>5 DEF RevokeSession
  <1>6. ASSUME NEW u \in Users, LogoutAll(p, u) PROVE IInv'
    <2> DEFINE r == [Idle EXCEPT !.op = "logoutAll", !.pc = "ra_members", !.user = u]
    <2>1. r \in Request /\ Sound(r) /\ r.new = None
      OBVIOUS
    <2> QED BY <2>1, <1>1, <1>6 DEF LogoutAll
  <1>7. ASSUME NEW u \in Users, ListSessions(p, u) PROVE IInv'
    <2> DEFINE r == [Idle EXCEPT !.op = "list", !.pc = "ls_members", !.user = u]
    <2>1. r \in Request /\ Sound(r) /\ r.new = None
      OBVIOUS
    <2> QED BY <2>1, <1>1, <1>7 DEF ListSessions
  <1>8. ASSUME NEW t \in Tokens, Touch(p, t) PROVE IInv'
    <2> DEFINE r == [Idle EXCEPT !.op = "touch", !.pc = "tc_get", !.tok = t]
    <2>1. r \in Request /\ Sound(r) /\ r.new = None
      OBVIOUS
    <2> QED BY <2>1, <1>1, <1>8 DEF Touch
  <1> QED BY <1>2, <1>3, <1>4, <1>5, <1>6, <1>7, <1>8 DEF Arrive

-----------------------------------------------------------------------------
(* Steps that write no new entry to Redis: whatever they delete there, what *)
(* remains still follows the rows.                                         *)

LEMMA ShrinkStep ==
    ASSUME IInv,
           owner' = owner,
           revoked' \in SUBSET Tokens, expired' \in SUBSET Tokens, enabled' \in SUBSET Users,
           hash' \subseteq hash, jtiField' \subseteq jtiField,
           rtIndex' \in [Tokens -> Users \cup {None}],
           \A t \in Tokens : rtIndex'[t] \in {rtIndex[t], None},
           atJti' \in [Tokens -> Users \cup {None}],
           \A t \in Tokens : atJti'[t] \in {atJti[t], None},
           sset' \in [Users -> SUBSET Tokens],
           \A u \in Users : sset'[u] \subseteq sset[u],
           up' \in BOOLEAN,
           given' \in SUBSET Tokens, \A t \in given' : owner[t] # None,
           out' \in SUBSET Tokens,
           req' \in [Procs -> Request], RequestsSound', NewTokensDistinct'
    PROVE  IInv'
  <1>1. TypeOK'
    BY DEF IInv, TypeOK
  <1>2. RedisFollowsMySQL'
    BY DEF IInv, RedisFollowsMySQL
  <1>3. GivenTokensHaveRows'
    BY DEF IInv, GivenTokensHaveRows
  <1> QED BY <1>1, <1>2, <1>3 DEF IInv

(* The case of a step that touches neither store.                          *)
LEMMA QuietStep ==
    ASSUME IInv, UNCHANGED <<mysql, redis, given>>, up' \in BOOLEAN, out' \in SUBSET Tokens,
           req' \in [Procs -> Request], RequestsSound', NewTokensDistinct'
    PROVE  IInv'
  BY ShrinkStep DEF IInv, TypeOK, GivenTokensHaveRows, mysql, redis

-----------------------------------------------------------------------------
(* storeRefreshToken.                                                      *)

LEMMA StoreRowInv == ASSUME IInv, NEW p \in Procs, StoreRow(p) PROVE IInv'
  <1> DEFINE n == req[p].new
             u == req[p].user
  <1>1. /\ Sound(req[p]) /\ req[p] \in Request
        /\ n \in Tokens /\ u \in Users /\ owner[n] = None
        /\ owner' = [owner EXCEPT ![n] = u]
        /\ owner' \in [Tokens -> Users \cup {None}]
    BY DEF IInv, TypeOK, RequestsSound, Sound, StoreRow, At
  <1>2. /\ req' \in [Procs -> Request]
        /\ req'[p] = [req[p] EXCEPT !.pc = "st_hash"]
        /\ \A q \in Procs : q # p => req'[q] = req[q]
    BY GotoFacts DEF IInv, StoreRow, Pcs, RedisPcs, StorePcs
  <1>3. \A t \in Tokens : t # n => owner'[t] = owner[t]
    BY <1>1 DEF IInv, TypeOK
  <1>4. TypeOK'
    BY <1>1, <1>2 DEF IInv, TypeOK, StoreRow, redis
  <1>5. u # None
    BY <1>1, ConstantsAssumption
  <1>6. \A t \in Tokens : owner[t] # None => owner'[t] = owner[t]
    BY <1>1, <1>3
  <1>7. RedisFollowsMySQL'
    BY <1>6, ConstantsAssumption DEF IInv, RedisFollowsMySQL, StoreRow, redis, TypeOK, Keys
  <1>8. GivenTokensHaveRows'
    BY <1>6 DEF IInv, TypeOK, GivenTokensHaveRows, StoreRow
  <1>9. ASSUME NEW q \in Procs, q # p
        PROVE  Sound(req[q])'
    <2>1. Sound(req[q]) /\ req[q] \in Request /\ req'[q] = req[q] /\ req[q].new # n
      BY <1>1, <1>2, <1>9, ConstantsAssumption DEF IInv, TypeOK, RequestsSound, NewTokensDistinct
    <2> QED BY <2>1, <1>3, <1>6, ConstantsAssumption DEF Sound
  <1>10. Sound(req[p])'
    <2>1. /\ req'[p].pc = "st_hash" /\ req'[p].op = req[p].op
          /\ req'[p].user = u /\ req'[p].new = n /\ req'[p].tok = req[p].tok
      BY <1>1, <1>2 DEF Request
    <2>2. owner'[n] = u
      BY <1>1 DEF IInv, TypeOK
    <2> QED BY <1>1, <2>1, <2>2
            DEF Sound, StorePcs, LookupPcs, BackfillPcs, RevokePcs, RevokeAllPcs, ListPcs, TouchPcs
  <1>11. NewTokensDistinct'
    BY <1>1, <1>2 DEF IInv, NewTokensDistinct, Request
  <1> QED BY <1>2, <1>4, <1>7, <1>8, <1>9, <1>10, <1>11 DEF IInv, RequestsSound

(* What the commands of the store know, and that moving on keeps it.       *)
LEMMA StoreKnows ==
    ASSUME IInv, NEW p \in Procs, req[p].pc \in StorePcs
    PROVE  /\ req[p].new \in Tokens /\ req[p].user \in Users
           /\ owner[req[p].new] = req[p].user
           /\ owner[req[p].new] # None
           /\ \A c \in StorePcs : Sound([req[p] EXCEPT !.pc = c])
  <1>1. Sound(req[p]) /\ req[p] \in Request
    BY DEF IInv, TypeOK, RequestsSound
  <1>2. req[p].new \in Tokens /\ req[p].user \in Users /\ owner[req[p].new] = req[p].user
    BY <1>1 DEF Sound
  <1>3. ASSUME NEW c \in StorePcs
        PROVE  Sound([req[p] EXCEPT !.pc = c])
    BY <1>1 DEF Request, Sound, StorePcs, LookupPcs, BackfillPcs, RevokePcs, RevokeAllPcs, ListPcs, TouchPcs
  <1> QED BY <1>2, <1>3, ConstantsAssumption

LEMMA StoreStepInv == ASSUME IInv, NEW p \in Procs, StoreStep(p) PROVE IInv'
  <1> USE DEF At
  <1>1. CASE StoreRow(p)
    BY <1>1, StoreRowInv
  <1>2. CASE StoreHash(p)
    <2>1. /\ req[p].new \in Tokens /\ req[p].user \in Users
          /\ owner[req[p].new] = req[p].user
          /\ Sound([req[p] EXCEPT !.pc = "st_index"])
      BY <1>2, StoreKnows DEF StoreHash, StorePcs
    <2>2. req' \in [Procs -> Request] /\ RequestsSound' /\ NewTokensDistinct'
      BY <1>2, <2>1, GotoRequest DEF StoreHash, mysql, Pcs, RedisPcs, StorePcs
    <2>3. TypeOK'
      BY <1>2, <2>1, <2>2 DEF IInv, TypeOK, StoreHash, mysql, Keys, NewKey
    <2>4. RedisFollowsMySQL' /\ GivenTokensHaveRows'
      BY <1>2, <2>1 DEF IInv, RedisFollowsMySQL, GivenTokensHaveRows, StoreHash, mysql, NewKey
    <2> QED BY <2>2, <2>3, <2>4 DEF IInv
  <1>3. CASE StoreIndex(p)
    <2>1. /\ req[p].new \in Tokens /\ req[p].user \in Users
          /\ owner[req[p].new] = req[p].user
          /\ Sound([req[p] EXCEPT !.pc = "st_jti"])
      BY <1>3, StoreKnows DEF StoreIndex, StorePcs
    <2>2. req' \in [Procs -> Request] /\ RequestsSound' /\ NewTokensDistinct'
      BY <1>3, <2>1, GotoRequest DEF StoreIndex, mysql, Pcs, RedisPcs, StorePcs
    <2>3. TypeOK'
      BY <1>3, <2>1, <2>2 DEF IInv, TypeOK, StoreIndex, mysql
    <2>4. RedisFollowsMySQL' /\ GivenTokensHaveRows'
      BY <1>3, <2>1 DEF IInv, TypeOK, RedisFollowsMySQL, GivenTokensHaveRows, StoreIndex, mysql
    <2> QED BY <2>2, <2>3, <2>4 DEF IInv
  <1>4. CASE StoreJti(p)
    <2>1. /\ req[p].new \in Tokens /\ req[p].user \in Users
          /\ owner[req[p].new] = req[p].user
          /\ Sound([req[p] EXCEPT !.pc = "st_set"])
      BY <1>4, StoreKnows DEF StoreJti, StorePcs
    <2>2. req' \in [Procs -> Request] /\ RequestsSound' /\ NewTokensDistinct'
      BY <1>4, <2>1, GotoRequest DEF StoreJti, mysql, Pcs, RedisPcs, StorePcs
    <2>3. TypeOK'
      BY <1>4, <2>1, <2>2 DEF IInv, TypeOK, StoreJti, mysql
    <2>4. RedisFollowsMySQL' /\ GivenTokensHaveRows'
      BY <1>4, <2>1 DEF IInv, TypeOK, RedisFollowsMySQL, GivenTokensHaveRows, StoreJti, mysql
    <2> QED BY <2>2, <2>3, <2>4 DEF IInv
  <1>5. CASE StoreSet(p)
    <2>1. /\ req[p].new \in Tokens /\ req[p].user \in Users
          /\ owner[req[p].new] = req[p].user /\ owner[req[p].new] # None
      BY <1>5, StoreKnows DEF StoreSet, StorePcs
    <2>2. req' \in [Procs -> Request] /\ RequestsSound' /\ NewTokensDistinct'
      BY <1>5, FinishRequest DEF StoreSet, mysql
    <2>3. TypeOK'
      BY <1>5, <2>1, <2>2 DEF IInv, TypeOK, StoreSet, mysql
    <2>4. RedisFollowsMySQL' /\ GivenTokensHaveRows'
      BY <1>5, <2>1 DEF IInv, TypeOK, RedisFollowsMySQL, GivenTokensHaveRows, StoreSet, mysql
    <2> QED BY <2>2, <2>3, <2>4 DEF IInv
  <1>6. CASE StoreSkipped(p)
    <2>1. req[p].new \in Tokens /\ owner[req[p].new] # None
      BY <1>6, StoreKnows DEF StoreSkipped
    <2>2. req' \in [Procs -> Request] /\ RequestsSound' /\ NewTokensDistinct'
      BY <1>6, FinishRequest DEF StoreSkipped, mysql
    <2>3. TypeOK' /\ RedisFollowsMySQL' /\ GivenTokensHaveRows'
      BY <1>6, <2>1, <2>2
         DEF IInv, TypeOK, RedisFollowsMySQL, GivenTokensHaveRows, StoreSkipped, mysql, redis
    <2> QED BY <2>2, <2>3 DEF IInv
  <1> QED BY <1>1, <1>2, <1>3, <1>4, <1>5, <1>6 DEF StoreStep

-----------------------------------------------------------------------------
(* Requests that only move on: a new record for the request is typed and    *)
(* sound, it brings no new token, and no store is touched.                 *)

LEMMA MoveOn ==
    ASSUME IInv, NEW p \in Procs, NEW r \in Request,
           req' = [req EXCEPT ![p] = r],
           Sound(r), r.new \in {req[p].new, None},
           UNCHANGED <<mysql, redis, given>>, up' \in BOOLEAN, out' \in SUBSET Tokens
    PROVE  IInv'
  <1>1. /\ req' \in [Procs -> Request] /\ req'[p] = r
        /\ \A q \in Procs : q # p => req'[q] = req[q]
    BY DEF IInv, TypeOK
  <1>2. owner' = owner
    BY DEF mysql
  <1>3. Sound(req[p])'
    BY <1>1, <1>2 DEF Sound
  <1>4. RequestsSound' /\ NewTokensDistinct'
    BY <1>1, <1>2, <1>3, OwnRequest
  <1> QED BY <1>1, <1>4, QuietStep

LEMMA QuietFinish ==
    ASSUME IInv, NEW p \in Procs, Finish(p),
           UNCHANGED <<mysql, redis, given>>, up' \in BOOLEAN, out' \in SUBSET Tokens
    PROVE  IInv'
  <1>1. Idle.new = None
    BY DEF Idle
  <1> QED BY <1>1, MoveOn, IdleType, IdleSound DEF Finish

LEMMA QuietGoto ==
    ASSUME IInv, NEW p \in Procs, NEW c \in Pcs, Goto(p, c), Sound([req[p] EXCEPT !.pc = c]),
           UNCHANGED <<mysql, redis, given>>, up' \in BOOLEAN, out' \in SUBSET Tokens
    PROVE  IInv'
  <1>1. owner' = owner
    BY DEF mysql
  <1> QED BY <1>1, GotoRequest, QuietStep

-----------------------------------------------------------------------------
(* verifyRefreshToken and the check of the user.                           *)

(* After the lookup a refresh knows the owner of its token, and may skip to *)
(* any later command of the backfill, to the check and to the revocation.  *)
LEMMA RefreshKnows ==
    ASSUME IInv, NEW p \in Procs, req[p].op = "refresh",
           req[p].pc \in BackfillPcs \cup RevokePcs \cup {"user", "rv_row"}
    PROVE  /\ req[p].tok \in Tokens /\ req[p].user \in Users /\ owner[req[p].tok] = req[p].user
           /\ \A c \in BackfillPcs \cup RevokePcs \cup {"user", "rv_row", "st_row"} :
                Sound([req[p] EXCEPT !.pc = c])
  <1>1. Sound(req[p]) /\ req[p] \in Request
    BY DEF IInv, TypeOK, RequestsSound
  <1>2. req[p].tok \in Tokens /\ req[p].user \in Users /\ owner[req[p].tok] = req[p].user
    BY <1>1 DEF Sound
  <1>3. ASSUME NEW c \in BackfillPcs \cup RevokePcs \cup {"user", "rv_row", "st_row"}
        PROVE  Sound([req[p] EXCEPT !.pc = c])
    BY <1>1 DEF Request, Sound, StorePcs, LookupPcs, BackfillPcs, RevokePcs, RevokeAllPcs, ListPcs, TouchPcs
  <1> QED BY <1>2, <1>3

(* Before it, it knows its token, which is enough for the query.           *)
LEMMA LookupKnows ==
    ASSUME IInv, NEW p \in Procs, req[p].pc \in LookupPcs \cup {"vf_row"}
    PROVE  /\ req[p] \in Request /\ req[p].op = "refresh" /\ req[p].tok \in Tokens
           /\ \A u \in Users \cup {None}, c \in LookupPcs \cup {"vf_row"} :
                Sound([req[p] EXCEPT !.user = u, !.pc = c])
           /\ \A u \in Users, c \in BackfillPcs \cup {"user"} :
                owner[req[p].tok] = u => Sound([req[p] EXCEPT !.user = u, !.pc = c])
  <1>1. Sound(req[p]) /\ req[p] \in Request
    BY DEF IInv, TypeOK, RequestsSound
  <1>2. req[p].op = "refresh" /\ req[p].tok \in Tokens
    BY <1>1 DEF Sound
  <1>3. ASSUME NEW u \in Users \cup {None}, NEW c \in LookupPcs \cup {"vf_row"}
        PROVE  Sound([req[p] EXCEPT !.user = u, !.pc = c])
    BY <1>1 DEF Request, Sound, StorePcs, LookupPcs, BackfillPcs, RevokePcs, RevokeAllPcs, ListPcs, TouchPcs
  <1>4. ASSUME NEW u \in Users, NEW c \in BackfillPcs \cup {"user"}, owner[req[p].tok] = u
        PROVE  Sound([req[p] EXCEPT !.user = u, !.pc = c])
    BY <1>1, <1>4 DEF Request, Sound, StorePcs, LookupPcs, BackfillPcs, RevokePcs, RevokeAllPcs, ListPcs, TouchPcs
  <1> QED BY <1>1, <1>2, <1>3, <1>4

LEMMA LookupInv ==
    ASSUME IInv, NEW p \in Procs,
           LookupIndex(p) \/ LookupHash(p) \/ LookupUnavailable(p) \/ LookupRow(p)
    PROVE  IInv'
  <1> USE DEF At
  <1>0. req[p].pc \in LookupPcs \cup {"vf_row"}
    BY DEF LookupIndex, LookupHash, LookupUnavailable, LookupRow, LookupPcs
  <1>1. CASE LookupIndex(p)
    <2> DEFINE u == rtIndex[req[p].tok]
               c == IF u # None THEN "vf_hash" ELSE "vf_row"
               r == [req[p] EXCEPT !.user = u, !.pc = c]
    <2>1. u \in Users \cup {None} /\ c \in LookupPcs \cup {"vf_row"}
      BY <1>0, LookupKnows DEF IInv, TypeOK, LookupPcs
    <2>2. req' = [req EXCEPT ![p] = r] /\ UNCHANGED <<mysql, redis, given, up, out>>
      BY <1>1, <1>0, LookupKnows DEF LookupIndex, IInv, TypeOK, Request
    <2> HIDE DEF u, c
    <2>3. r \in Request /\ r.new = req[p].new
      BY <1>0, <2>1, LookupKnows DEF Request, Pcs, RedisPcs, LookupPcs
    <2>4. Sound(r)
      BY <1>0, <2>1, LookupKnows
    <2> HIDE DEF r
    <2> QED BY <2>2, <2>3, <2>4, MoveOn DEF IInv, TypeOK
  <1>2. CASE LookupHash(p)
    <2>1. CASE Key(p) \in hash
      <3>1. req[p].user \in Users /\ owner[req[p].tok] = req[p].user
        BY <2>1 DEF IInv, TypeOK, RedisFollowsMySQL, Key, Keys
      <3>2. Sound([req[p] EXCEPT !.user = req[p].user, !.pc = "user"])
        BY <1>0, <3>1, LookupKnows
      <3>3. [req[p] EXCEPT !.user = req[p].user, !.pc = "user"] = [req[p] EXCEPT !.pc = "user"]
        BY <1>0, LookupKnows DEF Request
      <3> QED BY <1>2, <2>1, <3>2, <3>3, QuietGoto DEF LookupHash, Pcs, IInv, TypeOK
    <2>2. CASE Key(p) \notin hash
      <3>1. req[p].user \in Users \cup {None}
        BY <1>0, LookupKnows DEF Request
      <3>2. Sound([req[p] EXCEPT !.user = req[p].user, !.pc = "vf_row"])
        BY <1>0, <3>1, LookupKnows
      <3>3. [req[p] EXCEPT !.user = req[p].user, !.pc = "vf_row"]
              = [req[p] EXCEPT !.pc = "vf_row"]
        BY <1>0, LookupKnows DEF Request
      <3> QED BY <1>2, <2>2, <3>2, <3>3, QuietGoto DEF LookupHash, Pcs, IInv, TypeOK
    <2> QED BY <2>1, <2>2
  <1>3. CASE LookupUnavailable(p)
    <2>1. req[p].user \in Users \cup {None}
      BY <1>0, LookupKnows DEF Request
    <2>2. Sound([req[p] EXCEPT !.user = req[p].user, !.pc = "vf_row"])
      BY <1>0, <2>1, LookupKnows
    <2>3. [req[p] EXCEPT !.user = req[p].user, !.pc = "vf_row"]
            = [req[p] EXCEPT !.pc = "vf_row"]
      BY <1>0, LookupKnows DEF Request
    <2> QED BY <1>3, <2>2, <2>3, QuietGoto DEF LookupUnavailable, Pcs, IInv, TypeOK
  <1>4. CASE LookupRow(p)
    <2>1. CASE Usable(req[p].tok) /\ req' = [req EXCEPT ![p].user = owner[req[p].tok],
                                                        ![p].pc = "bf_hash"]
      <3> DEFINE u == owner[req[p].tok]
                 r == [req[p] EXCEPT !.user = u, !.pc = "bf_hash"]
      <3>1. u \in Users
        BY <2>1, <1>0, LookupKnows DEF Usable, IInv, TypeOK
      <3>2. r \in Request /\ Sound(r) /\ r.new = req[p].new
        BY <1>0, <3>1, LookupKnows DEF Request, Pcs, RedisPcs, StorePcs, LookupPcs, BackfillPcs, RevokePcs, RevokeAllPcs, ListPcs, TouchPcs
      <3>3. req' = [req EXCEPT ![p] = r] /\ UNCHANGED <<mysql, redis, given, up, out>>
        BY <1>4, <2>1, <1>0, LookupKnows DEF LookupRow, IInv, TypeOK, Request
      <3> HIDE DEF r
      <3> QED BY <3>2, <3>3, MoveOn DEF IInv, TypeOK
    <2>2. CASE Finish(p)
      BY <1>4, <2>2, QuietFinish DEF LookupRow, IInv, TypeOK
    <2> QED BY <1>4, <2>1, <2>2 DEF LookupRow
  <1> QED BY <1>1, <1>2, <1>3, <1>4

(* The backfill writes for the user whose row it read.                     *)
LEMMA BackfillInv ==
    ASSUME IInv, NEW p \in Procs,
           BackfillHash(p) \/ BackfillIndex(p) \/ BackfillSet(p) \/ BackfillSkipped(p)
    PROVE  IInv'
  <1> USE DEF At
  <1>1. req[p].pc \in BackfillPcs
    BY DEF BackfillHash, BackfillIndex, BackfillSet, BackfillSkipped, BackfillPcs
  <1>2. req[p].op = "refresh"
    BY <1>1 DEF IInv, RequestsSound, Sound
  <1>3. /\ req[p].tok \in Tokens /\ req[p].user \in Users /\ owner[req[p].tok] = req[p].user
        /\ Sound([req[p] EXCEPT !.pc = "bf_index"])
        /\ Sound([req[p] EXCEPT !.pc = "bf_set"])
        /\ Sound([req[p] EXCEPT !.pc = "user"])
    BY <1>1, <1>2, RefreshKnows DEF BackfillPcs
  <1>4. CASE BackfillHash(p)
    <2>1. req' \in [Procs -> Request] /\ RequestsSound' /\ NewTokensDistinct'
      BY <1>3, <1>4, GotoRequest DEF BackfillHash, mysql, Pcs, RedisPcs, BackfillPcs
    <2>2. TypeOK'
      BY <1>3, <1>4, <2>1 DEF IInv, TypeOK, BackfillHash, mysql, Keys, Key
    <2>3. RedisFollowsMySQL' /\ GivenTokensHaveRows'
      BY <1>3, <1>4 DEF IInv, RedisFollowsMySQL, GivenTokensHaveRows, BackfillHash, mysql, Key
    <2> QED BY <2>1, <2>2, <2>3 DEF IInv
  <1>5. CASE BackfillIndex(p)
    <2>1. req' \in [Procs -> Request] /\ RequestsSound' /\ NewTokensDistinct'
      BY <1>3, <1>5, GotoRequest DEF BackfillIndex, mysql, Pcs, RedisPcs, BackfillPcs
    <2>2. TypeOK'
      BY <1>3, <1>5, <2>1 DEF IInv, TypeOK, BackfillIndex, mysql
    <2>3. RedisFollowsMySQL' /\ GivenTokensHaveRows'
      BY <1>3, <1>5 DEF IInv, TypeOK, RedisFollowsMySQL, GivenTokensHaveRows, BackfillIndex, mysql
    <2> QED BY <2>1, <2>2, <2>3 DEF IInv
  <1>6. CASE BackfillSet(p)
    <2>1. req' \in [Procs -> Request] /\ RequestsSound' /\ NewTokensDistinct'
      BY <1>3, <1>6, GotoRequest DEF BackfillSet, mysql, Pcs
    <2>2. TypeOK'
      BY <1>3, <1>6, <2>1 DEF IInv, TypeOK, BackfillSet, mysql
    <2>3. RedisFollowsMySQL' /\ GivenTokensHaveRows'
      BY <1>3, <1>6 DEF IInv, TypeOK, RedisFollowsMySQL, GivenTokensHaveRows, BackfillSet, mysql
    <2> QED BY <2>1, <2>2, <2>3 DEF IInv
  <1>7. CASE BackfillSkipped(p)
    BY <1>3, <1>7, QuietGoto DEF BackfillSkipped, Pcs, IInv, TypeOK
  <1> QED BY <1>4, <1>5, <1>6, <1>7

LEMMA CheckUserInv == ASSUME IInv, NEW p \in Procs, CheckUser(p) PROVE IInv'
  <1>1. req[p].pc = "user" /\ req[p].op = "refresh"
    BY DEF CheckUser, At, IInv, RequestsSound, Sound
  <1>2. Sound([req[p] EXCEPT !.pc = "rv_jti"])
    BY <1>1, RefreshKnows DEF RevokePcs
  <1>3. CASE Goto(p, "rv_jti")
    BY <1>2, <1>3, QuietGoto DEF CheckUser, Pcs, RedisPcs, RevokePcs, IInv, TypeOK
  <1>4. CASE Finish(p)
    BY <1>4, QuietFinish DEF CheckUser, IInv, TypeOK
  <1> QED BY <1>3, <1>4 DEF CheckUser

LEMMA VerifyStepInv == ASSUME IInv, NEW p \in Procs, VerifyStep(p) PROVE IInv'
  BY LookupInv, BackfillInv, CheckUserInv DEF VerifyStep

-----------------------------------------------------------------------------
(* Revocations only delete.                                                *)

LEMMA RevokeKnows ==
    ASSUME IInv, NEW p \in Procs, req[p].pc \in RevokePcs \cup {"lo_get"}
    PROVE  /\ req[p] \in Request /\ req[p].tok \in Tokens
           /\ req[p].pc \in RevokePcs => req[p].user \in Users
           /\ \A c \in RevokePcs : req[p].pc \in RevokePcs => Sound([req[p] EXCEPT !.pc = c])
           /\ req[p].op = "refresh" => Sound([req[p] EXCEPT !.pc = "rv_row"])
           /\ \A u \in Users : req[p].pc = "lo_get" =>
                Sound([req[p] EXCEPT !.user = u, !.pc = "rv_jti"])
  <1>1. Sound(req[p]) /\ req[p] \in Request
    BY DEF IInv, TypeOK, RequestsSound
  <1>2. req[p].tok \in Tokens
    BY <1>1 DEF Sound
  <1>3. req[p].pc \in RevokePcs => req[p].user \in Users
    BY <1>1 DEF Sound
  <1>4. ASSUME NEW c \in RevokePcs, req[p].pc \in RevokePcs
        PROVE  Sound([req[p] EXCEPT !.pc = c])
    BY <1>1, <1>4 DEF Request, Sound, StorePcs, LookupPcs, BackfillPcs, RevokePcs, RevokeAllPcs, ListPcs, TouchPcs
  <1>5. req[p].op = "refresh" => Sound([req[p] EXCEPT !.pc = "rv_row"])
    BY <1>1 DEF Request, Sound, StorePcs, LookupPcs, BackfillPcs, RevokePcs, RevokeAllPcs, ListPcs, TouchPcs
  <1>6. ASSUME NEW u \in Users, req[p].pc = "lo_get"
        PROVE  Sound([req[p] EXCEPT !.user = u, !.pc = "rv_jti"])
    BY <1>1, <1>6 DEF Request, Sound, StorePcs, LookupPcs, BackfillPcs, RevokePcs, RevokeAllPcs, ListPcs, TouchPcs
  <1> QED BY <1>1, <1>2, <1>3, <1>4, <1>5, <1>6

(* The return of revokeRefreshTokenByHash.                                 *)
LEMMA RevokeReturnsRequest ==
    ASSUME IInv, NEW p \in Procs, req[p].pc \in RevokePcs \cup {"lo_get"},
           RevokeReturns(p), owner' = owner
    PROVE  /\ req' \in [Procs -> Request] /\ RequestsSound' /\ NewTokensDistinct'
           /\ out' \in SUBSET Tokens
  <1>1. CASE req[p].op = "refresh"
    BY <1>1, RevokeKnows, GotoRequest DEF RevokeReturns, Pcs, IInv, TypeOK
  <1>2. CASE req[p].op # "refresh"
    <2>1. Finish(p) /\ out' = out \cup {req[p].tok}
      BY <1>2 DEF RevokeReturns
    <2>2. out' \in SUBSET Tokens
      BY <2>1, RevokeKnows DEF IInv, TypeOK
    <2> QED BY <2>1, <2>2, FinishRequest
  <1> QED BY <1>1, <1>2

LEMMA RevokeByHashInv ==
    ASSUME IInv, NEW p \in Procs,
           RevokeJti(p) \/ RevokeHash(p) \/ RevokeIndex(p) \/ RevokeSet(p) \/ RevokeSkipped(p)
    PROVE  IInv'
  <1> USE DEF At
  <1>1. req[p].pc \in RevokePcs
    BY DEF RevokeJti, RevokeHash, RevokeIndex, RevokeSet, RevokeSkipped, RevokePcs
  <1>2. /\ req[p].tok \in Tokens /\ req[p].user \in Users
        /\ Sound([req[p] EXCEPT !.pc = "rv_hash"])
        /\ Sound([req[p] EXCEPT !.pc = "rv_index"])
        /\ Sound([req[p] EXCEPT !.pc = "rv_set"])
    BY <1>1, RevokeKnows DEF RevokePcs
  <1>3. CASE RevokeJti(p)
    <2>1. req' \in [Procs -> Request] /\ RequestsSound' /\ NewTokensDistinct'
      BY <1>2, <1>3, GotoRequest DEF RevokeJti, mysql, Pcs, RedisPcs, RevokePcs
    <2> QED BY <1>2, <1>3, <2>1, ShrinkStep
            DEF RevokeJti, mysql, IInv, TypeOK, GivenTokensHaveRows
  <1>4. CASE RevokeHash(p)
    <2>1. req' \in [Procs -> Request] /\ RequestsSound' /\ NewTokensDistinct'
      BY <1>2, <1>4, GotoRequest DEF RevokeHash, mysql, Pcs, RedisPcs, RevokePcs
    <2> QED BY <1>4, <2>1, ShrinkStep DEF RevokeHash, mysql, IInv, TypeOK, GivenTokensHaveRows
  <1>5. CASE RevokeIndex(p)
    <2>1. req' \in [Procs -> Request] /\ RequestsSound' /\ NewTokensDistinct'
      BY <1>2, <1>5, GotoRequest DEF RevokeIndex, mysql, Pcs, RedisPcs, RevokePcs
    <2> QED BY <1>2, <1>5, <2>1, ShrinkStep
            DEF RevokeIndex, mysql, IInv, TypeOK, GivenTokensHaveRows
  <1>6. CASE RevokeSet(p)
    <2>1. /\ req' \in [Procs -> Request] /\ RequestsSound' /\ NewTokensDistinct'
          /\ out' \in SUBSET Tokens
      BY <1>1, <1>6, RevokeReturnsRequest DEF RevokeSet, mysql
    <2> QED BY <1>2, <1>6, <2>1, ShrinkStep
            DEF RevokeSet, mysql, IInv, TypeOK, GivenTokensHaveRows
  <1>7. CASE RevokeSkipped(p)
    <2>1. /\ req' \in [Procs -> Request] /\ RequestsSound' /\ NewTokensDistinct'
          /\ out' \in SUBSET Tokens
      BY <1>1, <1>7, RevokeReturnsRequest DEF RevokeSkipped, mysql
    <2> QED BY <1>7, <2>1, QuietStep DEF RevokeSkipped, IInv, TypeOK
  <1> QED BY <1>3, <1>4, <1>5, <1>6, <1>7

LEMMA RevokeRowInv == ASSUME IInv, NEW p \in Procs, RevokeRow(p) PROVE IInv'
  <1>1. req[p].pc = "rv_row" /\ req[p].op = "refresh"
    BY DEF RevokeRow, At, IInv, RequestsSound, Sound
  <1>2. req[p].tok \in Tokens /\ Sound([req[p] EXCEPT !.pc = "st_row"])
    BY <1>1, RefreshKnows
  <1>3. req' \in [Procs -> Request] /\ RequestsSound' /\ NewTokensDistinct'
    BY <1>2, GotoRequest DEF RevokeRow, Pcs
  <1> QED BY <1>2, <1>3, ShrinkStep DEF RevokeRow, redis, IInv, TypeOK, GivenTokensHaveRows

LEMMA LogoutInv ==
    ASSUME IInv, NEW p \in Procs, LogoutLookup(p) \/ LogoutSkipped(p)
    PROVE  IInv'
  <1>1. req[p].pc = "lo_get"
    BY DEF LogoutLookup, LogoutSkipped, At
  <1>2. CASE RevokeReturns(p) /\ UNCHANGED <<mysql, redis, up, given>>
    <2>1. /\ req' \in [Procs -> Request] /\ RequestsSound' /\ NewTokensDistinct'
          /\ out' \in SUBSET Tokens
      BY <1>1, <1>2, RevokeReturnsRequest DEF mysql
    <2> QED BY <1>2, <2>1, QuietStep DEF IInv, TypeOK
  <1>3. CASE /\ atJti[req[p].tok] # None
             /\ req' = [req EXCEPT ![p].user = atJti[req[p].tok], ![p].pc = "rv_jti"]
             /\ UNCHANGED <<mysql, redis, up, given, out>>
    <2> DEFINE u == atJti[req[p].tok]
               r == [req[p] EXCEPT !.user = u, !.pc = "rv_jti"]
    <2>1. u \in Users
      BY <1>1, <1>3, RevokeKnows DEF IInv, TypeOK
    <2>2. r \in Request /\ Sound(r) /\ r.new = req[p].new
      BY <1>1, <2>1, RevokeKnows DEF Request, Pcs, RedisPcs, RevokePcs
    <2>3. req' = [req EXCEPT ![p] = r]
      BY <1>1, <1>3, RevokeKnows DEF IInv, TypeOK, Request
    <2> HIDE DEF r
    <2> QED BY <1>3, <2>2, <2>3, MoveOn DEF IInv, TypeOK
  <1> QED BY <1>2, <1>3 DEF LogoutLookup, LogoutSkipped

LEMMA RevokeStepInv == ASSUME IInv, NEW p \in Procs, RevokeStep(p) PROVE IInv'
  BY RevokeByHashInv, RevokeRowInv, LogoutInv DEF RevokeStep

-----------------------------------------------------------------------------
(* revokeAllUserTokens, getUserSessions: requests about a user.            *)

LEMMA UserKnows ==
    ASSUME IInv, NEW p \in Procs, req[p].pc \in RevokeAllPcs \cup ListPcs \cup {"ra_rows"}
    PROVE  /\ req[p] \in Request /\ req[p].user \in Users
           /\ req[p].pc = "ls_rem" => req[p].tok \in Tokens
           /\ \A c \in {"ra_del", "ls_get", "ra_rows"}, S \in SUBSET Tokens :
                Sound([req[p] EXCEPT !.todo = S, !.pc = c])
           /\ \A t \in Tokens, S \in SUBSET Tokens, c \in {"ls_get", "ls_rem"} :
                Sound([req[p] EXCEPT !.todo = S, !.tok = t, !.pc = c])
           /\ \A c \in {"ra_rows", "ls_get"} : Sound([req[p] EXCEPT !.pc = c])
           /\ \A S \in SUBSET Tokens : req[p].pc = "ra_del" => Sound([req[p] EXCEPT !.todo = S])
  <1>1. Sound(req[p]) /\ req[p] \in Request
    BY DEF IInv, TypeOK, RequestsSound
  <1>2. req[p].user \in Users /\ (req[p].pc = "ls_rem" => req[p].tok \in Tokens)
    BY <1>1 DEF Sound
  <1>3. ASSUME NEW c \in {"ra_del", "ls_get", "ra_rows"}, NEW S \in SUBSET Tokens
        PROVE  Sound([req[p] EXCEPT !.todo = S, !.pc = c])
    BY <1>1 DEF Request, Sound, StorePcs, LookupPcs, BackfillPcs, RevokePcs, RevokeAllPcs, ListPcs, TouchPcs
  <1>4. ASSUME NEW t \in Tokens, NEW S \in SUBSET Tokens, NEW c \in {"ls_get", "ls_rem"}
        PROVE  Sound([req[p] EXCEPT !.todo = S, !.tok = t, !.pc = c])
    BY <1>1 DEF Request, Sound, StorePcs, LookupPcs, BackfillPcs, RevokePcs, RevokeAllPcs, ListPcs, TouchPcs
  <1>5. ASSUME NEW c \in {"ra_rows", "ls_get"}
        PROVE  Sound([req[p] EXCEPT !.pc = c])
    BY <1>1 DEF Request, Sound, StorePcs, LookupPcs, BackfillPcs, RevokePcs, RevokeAllPcs, ListPcs, TouchPcs
  <1>6. ASSUME NEW S \in SUBSET Tokens, req[p].pc = "ra_del"
        PROVE  Sound([req[p] EXCEPT !.todo = S])
    BY <1>1, <1>6 DEF Request, Sound, StorePcs, LookupPcs, BackfillPcs, RevokePcs, RevokeAllPcs, ListPcs, TouchPcs
  <1> QED BY <1>1, <1>2, <1>3, <1>4, <1>5, <1>6

(* The start of both: what sMembers returned is kept in the request.       *)
LEMMA MembersInv ==
    ASSUME IInv, NEW p \in Procs, RevokeAllMembers(p) \/ ListMembers(p)
    PROVE  IInv'
  <1>1. req[p].pc \in RevokeAllPcs \cup ListPcs
    BY DEF RevokeAllMembers, ListMembers, At, RevokeAllPcs, ListPcs
  <1>2. PICK c \in {"ra_del", "ls_get"} :
          /\ req' = [req EXCEPT ![p].todo = sset[req[p].user], ![p].pc = c]
          /\ UNCHANGED <<mysql, redis, up, given, out>>
    BY DEF RevokeAllMembers, ListMembers
  <1> DEFINE S == sset[req[p].user]
             r == [req[p] EXCEPT !.todo = S, !.pc = c]
  <1>3. S \in SUBSET Tokens
    BY <1>1, UserKnows DEF IInv, TypeOK
  <1>4. req' = [req EXCEPT ![p] = r]
    BY <1>1, <1>2, UserKnows DEF IInv, TypeOK, Request
  <1> HIDE DEF S
  <1>5. r \in Request /\ Sound(r) /\ r.new = req[p].new
    BY <1>1, <1>3, UserKnows DEF Request, Pcs, RedisPcs, RevokeAllPcs, ListPcs
  <1> HIDE DEF r
  <1> QED BY <1>2, <1>4, <1>5, MoveOn DEF IInv, TypeOK

LEMMA RevokeAllHashInv == ASSUME IInv, NEW p \in Procs, RevokeAllHash(p) PROVE IInv'
  <1>1. req[p].pc = "ra_del"
    BY DEF RevokeAllHash, At
  <1>2. PICK t \in req[p].todo :
          /\ hash' = hash \ {<<req[p].user, t>>}
          /\ jtiField' = jtiField \ {<<req[p].user, t>>}
          /\ req' = [req EXCEPT ![p].todo = @ \ {t}]
    BY DEF RevokeAllHash
  <1> DEFINE S == req[p].todo \ {t}
             r == [req[p] EXCEPT !.todo = S]
  <1>3. S \in SUBSET Tokens
    BY <1>1, UserKnows DEF Request, RevokeAllPcs
  <1>4. req' = [req EXCEPT ![p] = r]
    BY <1>1, <1>2, UserKnows DEF IInv, TypeOK, Request
  <1> HIDE DEF S
  <1>5. r \in Request /\ Sound(r) /\ r.new = req[p].new
    BY <1>1, <1>3, UserKnows DEF Request, RevokeAllPcs
  <1> HIDE DEF r
  <1>6. /\ req' \in [Procs -> Request] /\ req'[p] = r
        /\ \A q \in Procs : q # p => req'[q] = req[q]
    BY <1>4, <1>5 DEF IInv, TypeOK
  <1>7. owner' = owner
    BY DEF RevokeAllHash, mysql
  <1>8. Sound(req[p])'
    BY <1>5, <1>6, <1>7 DEF Sound
  <1>9. RequestsSound' /\ NewTokensDistinct'
    BY <1>5, <1>6, <1>7, <1>8, OwnRequest
  <1> QED BY <1>2, <1>6, <1>9, ShrinkStep
          DEF RevokeAllHash, mysql, IInv, TypeOK, GivenTokensHaveRows

LEMMA RevokeAllStepInv == ASSUME IInv, NEW p \in Procs, RevokeAllStep(p) PROVE IInv'
  <1> USE DEF At
  <1>1. CASE RevokeAllMembers(p)
    BY <1>1, MembersInv
  <1>2. CASE RevokeAllHash(p)
    BY <1>2, RevokeAllHashInv
  <1>3. CASE RevokeAllSet(p)
    <2>1. req[p].user \in Users /\ Sound([req[p] EXCEPT !.pc = "ra_rows"])
      BY <1>3, UserKnows DEF RevokeAllSet, RevokeAllPcs
    <2>2. req' \in [Procs -> Request] /\ RequestsSound' /\ NewTokensDistinct'
      BY <1>3, <2>1, GotoRequest DEF RevokeAllSet, mysql, Pcs
    <2> QED BY <1>3, <2>1, <2>2, ShrinkStep
            DEF RevokeAllSet, mysql, IInv, TypeOK, GivenTokensHaveRows
  <1>4. CASE RevokeAllSkipped(p)
    <2>1. Sound([req[p] EXCEPT !.pc = "ra_rows"])
      BY <1>4, UserKnows DEF RevokeAllSkipped
    <2> QED BY <1>4, <2>1, QuietGoto DEF RevokeAllSkipped, Pcs, IInv, TypeOK
  <1>5. CASE RevokeAllRows(p)
    <2>1. req' \in [Procs -> Request] /\ RequestsSound' /\ NewTokensDistinct'
      BY <1>5, FinishRequest DEF RevokeAllRows
    <2> QED BY <1>5, <2>1, ShrinkStep
            DEF RevokeAllRows, redis, IInv, TypeOK, GivenTokensHaveRows
  <1> QED BY <1>1, <1>2, <1>3, <1>4, <1>5 DEF RevokeAllStep

LEMMA ListStepInv == ASSUME IInv, NEW p \in Procs, ListStep(p) PROVE IInv'
  <1> USE DEF At
  <1>1. CASE ListMembers(p)
    BY <1>1, MembersInv
  <1>2. CASE ListGet(p)
    <2>1. req[p].pc \in ListPcs /\ UNCHANGED <<mysql, redis, up, given, out>>
      BY <1>2 DEF ListGet, ListPcs
    <2>2. ASSUME NEW t \in req[p].todo,
                 req' = [req EXCEPT ![p].todo = @ \ {t}, ![p].tok = t,
                                    ![p].pc = IF <<req[p].user, t>> \in hash
                                              THEN "ls_get" ELSE "ls_rem"]
          PROVE  IInv'
      <3> DEFINE S == req[p].todo \ {t}
                 c == IF <<req[p].user, t>> \in hash THEN "ls_get" ELSE "ls_rem"
                 r == [req[p] EXCEPT !.todo = S, !.tok = t, !.pc = c]
      <3>1. S \in SUBSET Tokens /\ t \in Tokens /\ c \in {"ls_get", "ls_rem"}
        BY <2>1, <2>2, UserKnows DEF Request
      <3>2. req' = [req EXCEPT ![p] = r]
        BY <2>1, <2>2, UserKnows DEF IInv, TypeOK, Request
      <3> HIDE DEF S, c
      <3>3. r \in Request /\ r.new = req[p].new
        BY <2>1, <3>1, UserKnows DEF Request, Pcs, RedisPcs, ListPcs
      <3>4. Sound(r)
        BY <2>1, <3>1, UserKnows
      <3> HIDE DEF r
      <3> QED BY <2>1, <3>2, <3>3, <3>4, MoveOn DEF IInv, TypeOK
    <2>3. CASE Finish(p)
      BY <2>1, <2>3, QuietFinish DEF IInv, TypeOK
    <2> QED BY <1>2, <2>2, <2>3 DEF ListGet
  <1>3. CASE ListRemove(p)
    <2>1. req[p].user \in Users /\ Sound([req[p] EXCEPT !.pc = "ls_get"])
      BY <1>3, UserKnows DEF ListRemove, ListPcs
    <2>2. req' \in [Procs -> Request] /\ RequestsSound' /\ NewTokensDistinct'
      BY <1>3, <2>1, GotoRequest DEF ListRemove, mysql, Pcs, RedisPcs, ListPcs
    <2> QED BY <1>3, <2>1, <2>2, ShrinkStep
            DEF ListRemove, mysql, IInv, TypeOK, GivenTokensHaveRows
  <1>4. CASE ListSkipped(p)
    BY <1>4, QuietFinish DEF ListSkipped, IInv, TypeOK
  <1> QED BY <1>1, <1>2, <1>3, <1>4 DEF ListStep

-----------------------------------------------------------------------------
(* touchSessionByJti writes a key only under the user its mapping names.   *)

LEMMA TouchKnows ==
    ASSUME IInv, NEW p \in Procs, req[p].pc \in TouchPcs
    PROVE  /\ req[p] \in Request /\ req[p].tok \in Tokens
           /\ \A u \in Users : Sound([req[p] EXCEPT !.user = u, !.pc = "tc_exists"])
           /\ req[p].pc # "tc_get" => req[p].user \in Users
           /\ owner[req[p].tok] = req[p].user /\ req[p].user \in Users
                => Sound([req[p] EXCEPT !.pc = "tc_set"])
  <1>1. Sound(req[p]) /\ req[p] \in Request
    BY DEF IInv, TypeOK, RequestsSound
  <1>2. req[p].tok \in Tokens /\ (req[p].pc # "tc_get" => req[p].user \in Users)
    BY <1>1 DEF Sound, TouchPcs
  <1>3. ASSUME NEW u \in Users
        PROVE  Sound([req[p] EXCEPT !.user = u, !.pc = "tc_exists"])
    BY <1>1 DEF Request, Sound, StorePcs, LookupPcs, BackfillPcs, RevokePcs, RevokeAllPcs, ListPcs, TouchPcs
  <1>4. ASSUME owner[req[p].tok] = req[p].user, req[p].user \in Users
        PROVE  Sound([req[p] EXCEPT !.pc = "tc_set"])
    BY <1>1, <1>4 DEF Request, Sound, StorePcs, LookupPcs, BackfillPcs, RevokePcs, RevokeAllPcs, ListPcs, TouchPcs
  <1> QED BY <1>1, <1>2, <1>3, <1>4

LEMMA TouchStepInv == ASSUME IInv, NEW p \in Procs, TouchStep(p) PROVE IInv'
  <1> USE DEF At
  <1>1. CASE TouchLookup(p)
    <2>1. req[p].pc \in TouchPcs /\ UNCHANGED <<mysql, redis, up, given, out>>
      BY <1>1 DEF TouchLookup, TouchPcs
    <2> DEFINE u == atJti[req[p].tok]
               r == [req[p] EXCEPT !.user = u, !.pc = "tc_exists"]
    <2>2. CASE u # None /\ req' = [req EXCEPT ![p].user = u, ![p].pc = "tc_exists"]
      <3>1. u \in Users
        BY <2>1, <2>2, TouchKnows DEF IInv, TypeOK
      <3>2. r \in Request /\ Sound(r) /\ r.new = req[p].new
        BY <2>1, <3>1, TouchKnows DEF Request, Pcs, RedisPcs, TouchPcs
      <3>3. req' = [req EXCEPT ![p] = r]
        BY <2>1, <2>2, TouchKnows DEF IInv, TypeOK, Request
      <3> HIDE DEF r
      <3> QED BY <2>1, <3>2, <3>3, MoveOn DEF IInv, TypeOK
    <2>3. CASE Finish(p)
      BY <2>1, <2>3, QuietFinish DEF IInv, TypeOK
    <2> QED BY <1>1, <2>2, <2>3 DEF TouchLookup
  <1>2. CASE TouchExists(p)
    <2>1. CASE Key(p) \in hash /\ Goto(p, "tc_set")
      <3>1. owner[req[p].tok] = req[p].user /\ req[p].user \in Users
        BY <2>1 DEF IInv, TypeOK, RedisFollowsMySQL, Key, Keys
      <3>2. Sound([req[p] EXCEPT !.pc = "tc_set"])
        BY <1>2, <3>1, TouchKnows DEF TouchExists, TouchPcs
      <3> QED BY <1>2, <2>1, <3>2, QuietGoto
              DEF TouchExists, Pcs, RedisPcs, TouchPcs, IInv, TypeOK
    <2>2. CASE Finish(p)
      BY <1>2, <2>2, QuietFinish DEF TouchExists, IInv, TypeOK
    <2> QED BY <1>2, <2>1, <2>2 DEF TouchExists
  <1>3. CASE TouchSet(p)
    <2>1. req[p].tok \in Tokens /\ req[p].user \in Users /\ owner[req[p].tok] = req[p].user
      BY <1>3 DEF TouchSet, IInv, RequestsSound, Sound
    <2>2. req' \in [Procs -> Request] /\ RequestsSound' /\ NewTokensDistinct'
      BY <1>3, FinishRequest DEF TouchSet, mysql
    <2>3. TypeOK'
      BY <1>3, <2>1, <2>2 DEF IInv, TypeOK, TouchSet, mysql, Keys, Key
    <2>4. RedisFollowsMySQL' /\ GivenTokensHaveRows'
      BY <1>3, <2>1 DEF IInv, RedisFollowsMySQL, GivenTokensHaveRows, TouchSet, mysql, Key
    <2> QED BY <2>2, <2>3, <2>4 DEF IInv
  <1>4. CASE TouchSkipped(p)
    BY <1>4, QuietFinish DEF TouchSkipped, IInv, TypeOK
  <1> QED BY <1>1, <1>2, <1>3, <1>4 DEF TouchStep

-----------------------------------------------------------------------------
(* What goes wrong around the requests only deletes, or ends a request.    *)

LEMMA CommandFailsInv == ASSUME IInv, NEW p \in Procs, CommandFails(p) PROVE IInv'
  <1>1. UNCHANGED <<mysql, redis, given>> /\ up' \in BOOLEAN /\ owner' = owner
    BY DEF CommandFails, mysql
  <1>2. CASE Finish(p) /\ UNCHANGED out
    BY <1>1, <1>2, QuietFinish DEF IInv, TypeOK
  <1>3. CASE req[p].pc \in RevokePcs \cup {"lo_get"} /\ RevokeReturns(p)
    BY <1>1, <1>3, RevokeReturnsRequest, QuietStep
  <1>4. CASE req[p].pc \in RevokeAllPcs /\ Goto(p, "ra_rows") /\ UNCHANGED out
    <2>1. Sound([req[p] EXCEPT !.pc = "ra_rows"])
      BY <1>4, UserKnows
    <2> QED BY <1>1, <1>4, <2>1, QuietGoto DEF Pcs, IInv, TypeOK
  <1> QED BY <1>2, <1>3, <1>4 DEF CommandFails

(* A step that changes no request leaves what the requests know alone.     *)
LEMMA NoRequest ==
    ASSUME IInv, owner' = owner, req' = req
    PROVE  req' \in [Procs -> Request] /\ RequestsSound' /\ NewTokensDistinct'
  BY DEF IInv, TypeOK, RequestsSound, Sound, NewTokensDistinct

LEMMA EvictInv ==
    ASSUME IInv,
           \/ \E k \in Keys : EvictHash(k)
           \/ \E t \in Tokens : EvictIndex(t) \/ EvictJti(t) \/ Expire(t)
           \/ \E u \in Users : EvictSet(u)
    PROVE  IInv'
  <1> USE NoRequest, ShrinkStep DEF mysql, IInv, TypeOK, GivenTokensHaveRows
  <1>1. ASSUME NEW k \in Keys, EvictHash(k) PROVE IInv'
    BY <1>1 DEF EvictHash
  <1>2. ASSUME NEW t \in Tokens, EvictIndex(t) PROVE IInv'
    BY <1>2 DEF EvictIndex
  <1>3. ASSUME NEW t \in Tokens, EvictJti(t) PROVE IInv'
    BY <1>3 DEF EvictJti
  <1>4. ASSUME NEW t \in Tokens, Expire(t) PROVE IInv'
    BY <1>4 DEF Expire
  <1>5. ASSUME NEW u \in Users, EvictSet(u) PROVE IInv'
    BY <1>5 DEF EvictSet
  <1> QED BY <1>1, <1>2, <1>3, <1>4, <1>5

LEMMA FaultInv == ASSUME IInv, Fault PROVE IInv'
  <1>1. CASE RedisDown \/ RedisConnect
    BY <1>1, NoRequest, QuietStep DEF RedisDown, RedisConnect, mysql, IInv, TypeOK
  <1>2. ASSUME NEW p \in Procs, Crash(p) PROVE IInv'
    BY <1>2, QuietFinish DEF Crash, IInv, TypeOK
  <1> QED BY <1>1, <1>2, CommandFailsInv, EvictInv DEF Fault

LEMMA NextInv == IInv /\ [Next]_vars => IInv'
  <1> SUFFICES ASSUME IInv, [Next]_vars PROVE IInv'
    OBVIOUS
  <1>1. ASSUME NEW p \in Procs, Step(p) PROVE IInv'
    BY <1>1, StoreStepInv, VerifyStepInv, RevokeStepInv, RevokeAllStepInv,
       ListStepInv, TouchStepInv DEF Step
  <1>2. ASSUME NEW u \in Users, SetStatus(u) PROVE IInv'
    BY <1>2, NoRequest, ShrinkStep DEF SetStatus, redis, IInv, TypeOK, GivenTokensHaveRows
  <1>3. CASE UNCHANGED vars
    BY <1>3, NoRequest, QuietStep DEF vars, mysql, redis, IInv, TypeOK
  <1> QED BY <1>1, <1>2, <1>3, ArriveInv, FaultInv DEF Next

-----------------------------------------------------------------------------
(* The theorems.                                                           *)

(* The inductive invariant holds of every behaviour.                       *)
THEOREM Invariance == Spec => []IInv
  BY InitInv, NextInv, PTL DEF Spec

(* Every variable, and every request in flight, keeps its type.            *)
THEOREM TypeCorrect == Spec => []TypeOK
  <1>1. IInv => TypeOK
    BY DEF IInv
  <1> QED BY <1>1, Invariance, PTL

(* Redis never names a token without a row, nor a user that is not the      *)
(* row's, whatever requests interleave, fail half-way or find Redis gone.  *)
THEOREM RedisFollows == Spec => []RedisFollowsMySQL
  <1>1. IInv => RedisFollowsMySQL
    BY DEF IInv
  <1> QED BY <1>1, Invariance, PTL

(* storeRefreshToken's order, MySQL first, pays: a client never holds a     *)
(* token that has no row.                                                  *)
THEOREM GivenVerifiable == Spec => []GivenTokensHaveRows
  <1>1. IInv => GivenTokensHaveRows
    BY DEF IInv
  <1> QED BY <1>1, Invariance, PTL

(* A refresh mints for the owner of the token it was shown, on the fast     *)
(* path as on the fallback.                                                *)
THEOREM MintsForTheOwner == Spec => []MintsForOwner
  <1>1. IInv => MintsForOwner
    BY DEF IInv, RequestsSound, Sound, MintsForOwner
  <1> QED BY <1>1, Invariance, PTL

(* No step takes a revocation back or moves a row to another user.         *)
THEOREM RevocationFinal == Spec => RevocationIsFinal
  <1>1. ASSUME IInv, [Next]_vars
        PROVE  [revoked \subseteq revoked'
                  /\ \A t \in Tokens : owner[t] # None => owner'[t] = owner[t]]_mysql
    <2>1. ASSUME NEW p \in Procs, StoreRow(p)
          PROVE  revoked \subseteq revoked'
                  /\ \A t \in Tokens : owner[t] # None => owner'[t] = owner[t]
      <3>1. req[p].new \in Tokens /\ owner[req[p].new] = None
        BY <1>1, <2>1 DEF StoreRow, At, IInv, RequestsSound, Sound
      <3> QED BY <1>1, <2>1, <3>1 DEF StoreRow, IInv, TypeOK
    <2>2. ASSUME NEW p \in Procs, Step(p), ~StoreRow(p)
          PROVE  revoked \subseteq revoked' /\ owner' = owner
      BY <2>2 DEF Step, StoreStep, StoreHash, StoreIndex, StoreJti, StoreSet, StoreSkipped,
                  VerifyStep, LookupIndex, LookupHash, LookupUnavailable, LookupRow,
                  BackfillHash, BackfillIndex, BackfillSet, BackfillSkipped, CheckUser,
                  RevokeStep, RevokeJti, RevokeHash, RevokeIndex, RevokeSet, RevokeSkipped,
                  RevokeRow, LogoutLookup, LogoutSkipped, RevokeAllStep, RevokeAllMembers,
                  RevokeAllHash, RevokeAllSet, RevokeAllSkipped, RevokeAllRows, ListStep,
                  ListMembers, ListGet, ListRemove, ListSkipped, TouchStep, TouchLookup,
                  TouchExists, TouchSet, TouchSkipped, mysql
    <2>3. ASSUME NEW p \in Procs, Arrive(p)
          PROVE  revoked \subseteq revoked' /\ owner' = owner
      BY <2>3 DEF Arrive, Login, Refresh, Logout, RevokeSession, LogoutAll, ListSessions,
                  Touch, Begin, mysql
    <2>4. ASSUME Fault
          PROVE  revoked \subseteq revoked' /\ owner' = owner
      BY <2>4 DEF Fault, RedisDown, RedisConnect, CommandFails, Crash, EvictHash,
                  EvictIndex, EvictJti, Expire, EvictSet, mysql
    <2>5. ASSUME NEW u \in Users, SetStatus(u)
          PROVE  revoked \subseteq revoked' /\ owner' = owner
      BY <2>5 DEF SetStatus
    <2>6. CASE UNCHANGED vars
      BY <2>6 DEF vars
    <2> QED BY <1>1, <2>1, <2>2, <2>3, <2>4, <2>5, <2>6 DEF Next
  <1> QED BY <1>1, Invariance, PTL DEF Spec, RevocationIsFinal
-----------------------------------------------------------------------------
(* One request at a time, with keys evicted and tokens expiring: the whole   *)
(* implements RefreshTokens.  Redis accepts a dead token only if its session *)
(* set went, since what revokeAllUserTokens has to delete is listed there:  *)
(* of every hash, unless the set went or the request in flight is about to  *)
(* list it.                                                                *)

Serial == /\ \A p, q \in Procs : p = q
          /\ Faults \subseteq {"evict", "evictSet", "expire"}

Dead == revoked \cup expired

(* The hash whose entry of the session set the request is still to write.   *)
Unlisted(r) ==
    CASE r.pc \in {"st_index", "st_jti", "st_set"} -> {<<r.user, r.new>>}
      [] r.pc \in {"bf_index", "bf_set"} -> {<<r.user, r.tok>>}
      [] OTHER -> {}

(* What the request in flight knows of the tokens it handles.               *)
Knows(r) ==
    /\ r.pc \in StorePcs => r.new \notin Dead \cup given
    /\ r.pc \in BackfillPcs => r.tok \notin Dead
    /\ r.op = "refresh" /\ r.pc = "st_row" => r.tok \in Dead /\ <<r.user, r.tok>> \notin hash
    /\ r.pc \in {"rv_index", "rv_set", "rv_row", "ls_rem"} => <<r.user, r.tok>> \notin hash
    /\ r.pc = "tc_set" => r.tok \in lost \/ r.tok \in sset[r.user] \ Dead
    /\ r.pc = "ra_del" => \A t \in Tokens : <<r.user, t>> \in hash => t \in r.todo \cup lost
    /\ r.pc = "ra_rows" => \A t \in Tokens : <<r.user, t>> \in hash => t \in lost

DeadHaveRows == \A t \in Dead : owner[t] # None
HashLives == \A k \in hash : k[2] \notin Dead \/ k[2] \in lost
LostUnlisted == lost \cap Listed = {}

(* A hash revokeAllUserTokens can find, or whose loss is on record.         *)
Held(k) == k[2] \in sset[k[1]] \/ k[2] \in lost
HashListed == \A k \in hash : Held(k) \/ \E p \in Procs : k \in Unlisted(req[p])

(* What a step of a request does to the record.                            *)
Tracked == lost' = lost \ Listed'

SerialInv ==
    /\ up
    /\ DeadHaveRows /\ HashLives /\ HashListed /\ LostUnlisted
    /\ \A p \in Procs : Knows(req[p])

LEMMA IdleKnows == Knows(Idle) /\ Knows(Idle)' /\ Unlisted(Idle) = {}
  BY DEF Knows, Unlisted, Idle, StorePcs, BackfillPcs

LEMMA SerialStart == HInit => SerialInv
  <1> SUFFICES ASSUME HInit PROVE SerialInv
    OBVIOUS
  <1> QED BY IdleKnows
          DEF HInit, Init, SerialInv, DeadHaveRows, HashLives, HashListed, LostUnlisted, Dead

(* With one request, the invariant is about that one.                      *)
LEMMA OneRequest ==
    ASSUME Serial, SerialInv, NEW p \in Procs
    PROVE  /\ up /\ DeadHaveRows /\ HashLives /\ LostUnlisted /\ Knows(req[p])
           /\ \A k \in hash : Held(k) \/ k \in Unlisted(req[p])
  BY DEF Serial, SerialInv, HashListed

LEMMA OneRequestNext ==
    ASSUME Serial, Tracked, NEW p \in Procs, up', DeadHaveRows', HashLives', Knows(req[p])',
           \A k \in hash' : Held(k)' \/ k \in Unlisted(req[p])'
    PROVE  SerialInv'
  <1>1. \A q \in Procs : q = p
    BY DEF Serial
  <1>2. \A q \in Procs : Knows(req[q])'
    BY <1>1
  <1>3. HashListed'
    BY DEF HashListed
  <1>4. LostUnlisted'
    BY DEF Tracked, LostUnlisted
  <1> QED BY <1>2, <1>3, <1>4 DEF SerialInv

(* The record stays as it is when no entry is added to a list, and loses at  *)
(* most the entry that is.                                                 *)
LEMMA LostStays ==
    ASSUME SerialInv, Tracked, \A u \in Users : sset'[u] \subseteq sset[u]
    PROVE  lost' = lost
  BY DEF SerialInv, LostUnlisted, Tracked, Listed

LEMMA LostButOne ==
    ASSUME IInv, SerialInv, Tracked, NEW u \in Users, NEW t,
           sset' = [sset EXCEPT ![u] = @ \cup {t}]
    PROVE  lost' = lost \ {t}
  <1>1. Listed' = Listed \cup {t}
    BY DEF Listed, IInv, TypeOK
  <1> QED BY <1>1 DEF SerialInv, LostUnlisted, Tracked

(* A step that changes neither the rows, nor the hashes, nor the lists.      *)
LEMMA QuietSerial ==
    ASSUME Serial, SerialInv, Tracked, NEW p \in Procs,
           UNCHANGED <<owner, revoked, expired, hash, sset, given, up>>,
           Unlisted(req[p]) \subseteq Unlisted(req[p])', Knows(req[p])'
    PROVE  SerialInv'
  <1>1. /\ up /\ DeadHaveRows /\ HashLives
        /\ \A k \in hash : Held(k) \/ k \in Unlisted(req[p])
    BY OneRequest
  <1>2. lost' = lost
    BY LostStays
  <1>3. up' /\ DeadHaveRows' /\ HashLives'
    BY <1>1, <1>2 DEF DeadHaveRows, HashLives, Dead
  <1>4. \A k \in hash' : Held(k)' \/ k \in Unlisted(req[p])'
    BY <1>1, <1>2 DEF Held
  <1> QED BY <1>3, <1>4, OneRequestNext

(* The pcs at which a request handles no entry of Redis.                    *)
FreePcs == {"idle", "vf_index", "vf_hash", "vf_row", "lo_get", "rv_jti", "rv_hash",
            "ra_members", "ls_members", "ls_get", "tc_get", "tc_exists"}

LEMMA FreeKnows ==
    ASSUME NEW r, r.pc \in FreePcs
    PROVE  Knows(r) /\ Unlisted(r) = {}
  BY DEF FreePcs, Knows, Unlisted, StorePcs, BackfillPcs

(* The record of a request that goes on.                                   *)
LEMMA Fields ==
    ASSUME IInv, NEW p \in Procs, NEW c \in Pcs, Goto(p, c)
    PROVE  /\ req'[p].pc = c /\ req'[p].op = req[p].op /\ req'[p].user = req[p].user
           /\ req'[p].tok = req[p].tok /\ req'[p].new = req[p].new
           /\ req'[p].todo = req[p].todo
  BY DEF IInv, TypeOK, Goto, Request

(* Moving to such a pc, or ending, is quiet.                               *)
LEMMA FreeSerial ==
    ASSUME Serial, SerialInv, Tracked, NEW p \in Procs,
           UNCHANGED <<owner, revoked, expired, hash, sset, given, up>>,
           Unlisted(req[p]) = {}, req'[p].pc \in FreePcs
    PROVE  SerialInv'
  <1>1. PICK r : r = req'[p]
    OBVIOUS
  <1>2. Knows(r)'
    BY <1>1 DEF FreePcs, Knows, StorePcs, BackfillPcs
  <1>3. Knows(req[p])'
    BY <1>1, <1>2 DEF Knows
  <1> QED BY <1>3, QuietSerial

LEMMA FinishSerial ==
    ASSUME Serial, IInv, SerialInv, Tracked, NEW p \in Procs, Finish(p), Unlisted(req[p]) = {},
           UNCHANGED <<owner, revoked, expired, hash, sset, given, up>>
    PROVE  SerialInv'
  <1>1. req'[p].pc \in FreePcs
    BY FinishFacts DEF IInv, Idle, FreePcs
  <1> QED BY <1>1, FreeSerial

LEMMA ArriveSerial ==
    ASSUME Serial, IInv, SerialInv, Tracked, NEW p \in Procs, Arrive(p) PROVE SerialInv'
  <1>1. ASSUME NEW r, Begin(p, r), r.pc \in FreePcs \/ (r.pc = "st_row" /\ r.op = "login")
        PROVE  SerialInv'
    <2>1. req[p] = Idle /\ req'[p] = r /\ UNCHANGED <<mysql, redis, up, given, out>>
      BY <1>1 DEF Begin, IInv, TypeOK
    <2>2. Unlisted(req[p]) = {}
      BY <2>1, IdleKnows
    <2>3. UNCHANGED <<owner, revoked, expired, hash, sset, given, up>>
      BY <2>1 DEF mysql, redis
    <2>4. CASE r.pc \in FreePcs
      BY <2>1, <2>2, <2>3, <2>4, FreeSerial
    <2>5. CASE r.pc = "st_row" /\ r.op = "login"
      <3>1. Knows(req[p])'
        BY <2>1, <2>5 DEF Knows, StorePcs, BackfillPcs
      <3> QED BY <2>2, <2>3, <3>1, QuietSerial
    <2> QED BY <1>1, <2>4, <2>5
  <1> USE DEF Idle, FreePcs
  <1>2. ASSUME NEW u \in Users, NEW n \in Tokens, Login(p, u, n) PROVE SerialInv'
    BY <1>1, <1>2 DEF Login
  <1>3. ASSUME NEW t \in Tokens, NEW n \in Tokens, Refresh(p, t, n) PROVE SerialInv'
    <2> DEFINE dead == ~Usable(t) \/ t \in out
               r == [Idle EXCEPT !.op = "refresh", !.pc = "vf_index", !.tok = t,
                                 !.new = n, !.late = dead]
    <2>1. Begin(p, r)
      BY <1>3 DEF Refresh
    <2> HIDE DEF dead
    <2>2. r.pc = "vf_index"
      OBVIOUS
    <2> HIDE DEF r
    <2> QED BY <1>1, <2>1, <2>2
  <1>4. ASSUME NEW t \in Tokens, Logout(p, t) \/ Touch(p, t) PROVE SerialInv'
    BY <1>1, <1>4 DEF Logout, Touch
  <1>5. ASSUME NEW u \in Users, NEW t \in Tokens, RevokeSession(p, u, t) PROVE SerialInv'
    BY <1>1, <1>5 DEF RevokeSession
  <1>6. ASSUME NEW u \in Users, LogoutAll(p, u) \/ ListSessions(p, u) PROVE SerialInv'
    BY <1>1, <1>6 DEF LogoutAll, ListSessions
  <1> QED BY <1>2, <1>3, <1>4, <1>5, <1>6 DEF Arrive

(* storeRefreshToken: a new token is not dead, and is listed last.           *)
LEMMA StoreSerial ==
    ASSUME Serial, IInv, IInv', SerialInv, Tracked, NEW p \in Procs, StoreStep(p)
    PROVE  SerialInv'
  <1> DEFINE k0 == NewKey(p)
  <1>1. /\ up /\ DeadHaveRows /\ HashLives /\ LostUnlisted /\ Knows(req[p])
        /\ \A k \in hash : Held(k) \/ k \in Unlisted(req[p])
    BY OneRequest
  <1>2. CASE StoreRow(p)
    <2>1. req[p].new \in Tokens /\ owner[req[p].new] = None /\ req[p].user \in Users
      BY <1>2 DEF IInv, RequestsSound, Sound, StoreRow, At
    <2>2. req[p].new \notin Dead \cup given
      BY <1>1, <2>1 DEF DeadHaveRows, IInv, GivenTokensHaveRows
    <2>3. req'[p].pc = "st_hash" /\ req'[p].new = req[p].new /\ UNCHANGED <<Dead, given, hash, sset, up>>
      BY <1>2, Fields DEF StoreRow, Pcs, RedisPcs, StorePcs, Dead, redis
    <2>4. Knows(req[p])'
      BY <2>2, <2>3 DEF Knows, StorePcs, BackfillPcs
    <2>5. \A t \in Tokens : owner[t] # None => owner'[t] # None
      BY <1>2, <2>1, ConstantsAssumption DEF StoreRow, IInv, TypeOK
    <2>6. Dead \subseteq Tokens
      BY DEF IInv, TypeOK, Dead
    <2>7. lost' = lost
      BY <2>3, LostStays
    <2>8. DeadHaveRows' /\ HashLives'
      BY <1>1, <2>3, <2>5, <2>6, <2>7 DEF DeadHaveRows, HashLives
    <2>9. Unlisted(req[p]) = {}
      BY <1>2 DEF StoreRow, At, Unlisted
    <2> QED BY <1>1, <2>3, <2>4, <2>7, <2>8, <2>9, OneRequestNext DEF Held
  <1>3. CASE StoreHash(p)
    <2>1. /\ req'[p].pc = "st_index" /\ req'[p].new = req[p].new /\ req'[p].user = req[p].user
          /\ UNCHANGED <<owner, Dead, given, sset, up>>
      BY <1>3, Fields DEF StoreHash, Pcs, RedisPcs, StorePcs, Dead, mysql
    <2>2. hash' = hash \cup {<<req[p].user, req[p].new>>}
      BY <1>3 DEF StoreHash, NewKey
    <2>3. req[p].new \notin Dead \cup given
      BY <1>1, <1>3 DEF StoreHash, At, Knows, StorePcs
    <2>4. Knows(req[p])'
      BY <2>1, <2>3 DEF Knows, StorePcs, BackfillPcs
    <2>5. Unlisted(req[p]) = {} /\ Unlisted(req[p])' = {<<req[p].user, req[p].new>>}
      BY <1>3, <2>1 DEF StoreHash, At, Unlisted
    <2>6. lost' = lost
      BY <2>1, LostStays
    <2>7. DeadHaveRows' /\ HashLives'
      BY <1>1, <2>1, <2>2, <2>3, <2>6 DEF DeadHaveRows, HashLives
    <2> QED BY <1>1, <2>1, <2>2, <2>4, <2>5, <2>6, <2>7, OneRequestNext DEF Held
  <1>4. CASE StoreIndex(p) \/ StoreJti(p)
    <2>1. /\ req'[p].pc \in {"st_jti", "st_set"} /\ req[p].pc \in {"st_index", "st_jti"}
          /\ req'[p].new = req[p].new /\ req'[p].user = req[p].user
          /\ UNCHANGED <<owner, revoked, expired, hash, sset, given, up>>
      BY <1>4, Fields DEF StoreIndex, StoreJti, At, Pcs, RedisPcs, StorePcs, mysql
    <2>2. Knows(req[p])'
      BY <1>1, <2>1 DEF Knows, StorePcs, BackfillPcs, Dead
    <2>3. Unlisted(req[p]) \subseteq Unlisted(req[p])'
      BY <2>1 DEF Unlisted
    <2> QED BY <2>1, <2>2, <2>3, QuietSerial
  <1>5. CASE StoreSet(p)
    <2>1. req[p].user \in Users /\ req[p].pc = "st_set"
      BY <1>5, StoreKnows DEF StoreSet, At, StorePcs
    <2>2. sset' = [sset EXCEPT ![req[p].user] = @ \cup {req[p].new}] /\ Finish(p)
          /\ UNCHANGED <<owner, Dead, hash, up>>
      BY <1>5 DEF StoreSet, mysql, Dead
    <2>3. req'[p] = Idle
      BY <2>2, FinishFacts DEF IInv
    <2>4. Knows(req[p])'
      BY <2>3, IdleKnows DEF Knows
    <2>5. \A u \in Users : sset[u] \subseteq sset'[u]
      BY <2>1, <2>2 DEF IInv, TypeOK
    <2>6. req[p].new \in sset'[req[p].user]
      BY <2>1, <2>2 DEF IInv, TypeOK
    <2>7. Unlisted(req[p]) = {<<req[p].user, req[p].new>>}
      BY <2>1 DEF Unlisted
    <2>8. lost' = lost \ {req[p].new} /\ req[p].new \notin Dead
      BY <1>1, <2>1, <2>2, LostButOne DEF Knows, StorePcs
    <2>9. \A k \in hash' : Held(k)'
      <3>1. \A k \in hash : k = <<k[1], k[2]>> /\ k[1] \in Users /\ k[2] \in Tokens
        BY DEF IInv, TypeOK, Keys
      <3>2. \A k \in hash : k[2] = req[p].new => k[1] = req[p].user
        <4>1. owner[req[p].new] = req[p].user
          BY <2>1 DEF IInv, RequestsSound, Sound, StorePcs
        <4> QED BY <3>1, <4>1 DEF IInv, RedisFollowsMySQL
      <3> QED BY <1>1, <2>2, <2>5, <2>6, <2>7, <2>8, <3>1, <3>2 DEF Held
    <2>10. DeadHaveRows' /\ HashLives'
      BY <1>1, <2>2, <2>8 DEF DeadHaveRows, HashLives
    <2> QED BY <1>1, <2>2, <2>4, <2>9, <2>10, OneRequestNext
  <1>6. CASE StoreSkipped(p)
    BY <1>1, <1>6 DEF StoreSkipped
  <1> QED BY <1>2, <1>3, <1>4, <1>5, <1>6 DEF StoreStep

(* verifyRefreshToken: what Redis holds, and what MySQL accepts, is alive.   *)
LEMMA VerifySerial ==
    ASSUME Serial, IInv, IInv', SerialInv, Tracked, NEW p \in Procs, VerifyStep(p)
    PROVE  SerialInv'
  <1>1. /\ up /\ DeadHaveRows /\ HashLives /\ LostUnlisted /\ Knows(req[p])
        /\ \A k \in hash : Held(k) \/ k \in Unlisted(req[p])
    BY OneRequest
  <1> USE DEF Pcs, RedisPcs, LookupPcs, BackfillPcs, RevokePcs, At
  <1>2. CASE LookupIndex(p)
    <2>1. req'[p].pc \in FreePcs
      BY <1>2 DEF LookupIndex, IInv, TypeOK, FreePcs
    <2>2. Unlisted(req[p]) = {}
      BY <1>2 DEF LookupIndex, Unlisted
    <2> QED BY <1>2, <2>1, <2>2, FreeSerial DEF LookupIndex, mysql, redis
  <1>3. CASE LookupHash(p)
    <2>1. Unlisted(req[p]) = {} /\ UNCHANGED <<owner, revoked, expired, hash, sset, given, up>>
      BY <1>3 DEF LookupHash, Unlisted, mysql, redis
    <2>2. CASE Key(p) \in hash
      <3>1. req'[p].pc = "user" /\ req'[p].tok = req[p].tok /\ req'[p].op = req[p].op
        BY <1>3, <2>2, Fields DEF LookupHash
      <3>2. Knows(req[p])'
        BY <3>1 DEF Knows, StorePcs
      <3> QED BY <2>1, <3>2, QuietSerial
    <2>3. CASE Key(p) \notin hash
      <3>1. req'[p].pc = "vf_row"
        BY <1>3, <2>3, Fields DEF LookupHash
      <3> QED BY <2>1, <3>1, FreeSerial DEF FreePcs
    <2> QED BY <2>2, <2>3
  <1>4. CASE LookupRow(p)
    <2>1. Unlisted(req[p]) = {} /\ UNCHANGED <<owner, revoked, expired, hash, sset, given, up>>
      BY <1>4 DEF LookupRow, Unlisted, mysql, redis
    <2>2. CASE Usable(req[p].tok)
      <3>1. req'[p].pc = "bf_hash" /\ req'[p].tok = req[p].tok
        BY <1>4, <2>2 DEF LookupRow, IInv, TypeOK, Request
      <3>2. Knows(req[p])'
        BY <2>1, <2>2, <3>1 DEF Knows, StorePcs, Dead, Usable
      <3> QED BY <2>1, <3>2, QuietSerial
    <2>3. CASE ~Usable(req[p].tok)
      BY <1>4, <2>1, <2>3, FinishSerial DEF LookupRow
    <2> QED BY <2>2, <2>3
  <1>5. CASE BackfillHash(p)
    <2>1. /\ req'[p].pc = "bf_index" /\ req'[p].tok = req[p].tok /\ req'[p].user = req[p].user
          /\ UNCHANGED <<owner, Dead, given, sset, up>>
      BY <1>5, Fields DEF BackfillHash, Dead, mysql
    <2>2. hash' = hash \cup {<<req[p].user, req[p].tok>>} /\ req[p].tok \notin Dead
      BY <1>1, <1>5 DEF BackfillHash, Key, Knows
    <2>3. Knows(req[p])'
      BY <2>1, <2>2 DEF Knows, StorePcs
    <2>4. Unlisted(req[p]) = {} /\ Unlisted(req[p])' = {<<req[p].user, req[p].tok>>}
      BY <1>5, <2>1 DEF BackfillHash, Unlisted
    <2>5. lost' = lost
      BY <2>1, LostStays
    <2>6. DeadHaveRows' /\ HashLives'
      BY <1>1, <2>1, <2>2, <2>5 DEF DeadHaveRows, HashLives
    <2> QED BY <1>1, <2>1, <2>2, <2>3, <2>4, <2>5, <2>6, OneRequestNext DEF Held
  <1>6. CASE BackfillIndex(p)
    <2>1. /\ req'[p].pc = "bf_set" /\ req[p].pc = "bf_index"
          /\ req'[p].tok = req[p].tok /\ req'[p].user = req[p].user
          /\ UNCHANGED <<owner, revoked, expired, hash, sset, given, up>>
      BY <1>6, Fields DEF BackfillIndex, mysql
    <2>2. Knows(req[p])'
      BY <1>1, <2>1 DEF Knows, StorePcs, Dead
    <2>3. Unlisted(req[p]) \subseteq Unlisted(req[p])'
      BY <2>1 DEF Unlisted
    <2> QED BY <2>1, <2>2, <2>3, QuietSerial
  <1>7. CASE BackfillSet(p)
    <2>1. /\ req'[p].pc = "user" /\ req[p].pc = "bf_set" /\ req'[p].tok = req[p].tok
          /\ sset' = [sset EXCEPT ![req[p].user] = @ \cup {req[p].tok}]
          /\ UNCHANGED <<owner, Dead, given, hash, up>>
      BY <1>7, Fields DEF BackfillSet, mysql, Dead
    <2>2. req[p].user \in Users /\ req[p].tok \notin Dead
      BY <1>1, <2>1 DEF IInv, RequestsSound, Sound, Knows
    <2>3. Knows(req[p])'
      BY <2>1, <2>2 DEF Knows, StorePcs
    <2>4. \A u \in Users : sset[u] \subseteq sset'[u]
      BY <2>1, <2>2 DEF IInv, TypeOK
    <2>5. req[p].tok \in sset'[req[p].user]
      BY <2>1, <2>2 DEF IInv, TypeOK
    <2>6. Unlisted(req[p]) = {<<req[p].user, req[p].tok>>}
      BY <2>1 DEF Unlisted
    <2>7. lost' = lost \ {req[p].tok}
      BY <2>1, <2>2, LostButOne
    <2>8. \A k \in hash' : Held(k)'
      <3>1. \A k \in hash : k = <<k[1], k[2]>> /\ k[1] \in Users /\ k[2] \in Tokens
        BY DEF IInv, TypeOK, Keys
      <3>2. \A k \in hash : k[2] = req[p].tok => k[1] = req[p].user
        <4>1. owner[req[p].tok] = req[p].user
          BY <2>1 DEF IInv, RequestsSound, Sound
        <4> QED BY <3>1, <4>1 DEF IInv, RedisFollowsMySQL
      <3> QED BY <1>1, <2>1, <2>4, <2>5, <2>6, <2>7, <3>1, <3>2 DEF Held
    <2>9. DeadHaveRows' /\ HashLives'
      BY <1>1, <2>1, <2>2, <2>7 DEF DeadHaveRows, HashLives
    <2> QED BY <1>1, <2>1, <2>3, <2>8, <2>9, OneRequestNext
  <1>8. CASE CheckUser(p)
    <2>1. Unlisted(req[p]) = {} /\ UNCHANGED <<owner, revoked, expired, hash, sset, given, up>>
      BY <1>8 DEF CheckUser, Unlisted, mysql, redis
    <2>2. CASE Goto(p, "rv_jti")
      BY <2>1, <2>2, Fields, FreeSerial DEF FreePcs
    <2>3. CASE Finish(p)
      BY <2>1, <2>3, FinishSerial
    <2> QED BY <1>8, <2>2, <2>3 DEF CheckUser
  <1>9. CASE LookupUnavailable(p) \/ BackfillSkipped(p)
    BY <1>1, <1>9 DEF LookupUnavailable, BackfillSkipped
  <1> QED BY <1>2, <1>3, <1>4, <1>5, <1>6, <1>7, <1>8, <1>9 DEF VerifyStep

(* A step that deletes hashes, or entries of a list that have no hash.       *)
LEMMA ShrinkSerial ==
    ASSUME Serial, SerialInv, Tracked, NEW p \in Procs,
           UNCHANGED <<owner, revoked, expired, up>>, hash' \subseteq hash,
           \A u \in Users : sset'[u] \subseteq sset[u],
           \A k \in hash' : k[2] \in sset[k[1]] => Held(k)',
           Unlisted(req[p]) \subseteq Unlisted(req[p])', Knows(req[p])'
    PROVE  SerialInv'
  <1>1. /\ up /\ DeadHaveRows /\ HashLives
        /\ \A k \in hash : Held(k) \/ k \in Unlisted(req[p])
    BY OneRequest
  <1>2. lost' = lost
    BY LostStays
  <1>3. up' /\ DeadHaveRows' /\ HashLives'
    BY <1>1, <1>2 DEF DeadHaveRows, HashLives, Dead
  <1>4. \A k \in hash' : Held(k)' \/ k \in Unlisted(req[p])'
    BY <1>1, <1>2 DEF Held
  <1> QED BY <1>3, <1>4, OneRequestNext

LEMMA FreeNext ==
    ASSUME NEW p, req'[p].pc \in FreePcs
    PROVE  Knows(req[p])' /\ Unlisted(req[p])' = {}
  BY DEF FreePcs, Knows, Unlisted, StorePcs, BackfillPcs

LEMMA FinishNext ==
    ASSUME IInv, NEW p \in Procs, Finish(p)
    PROVE  req'[p].pc \in FreePcs
  BY FinishFacts DEF IInv, Idle, FreePcs

(* An entry whose hash is gone leaves the others where they are.            *)
LEMMA ListedStays ==
    ASSUME IInv, NEW u, NEW t, <<u, t>> \notin hash,
           sset' = [sset EXCEPT ![u] = @ \ {t}]
    PROVE  /\ \A v \in Users : sset'[v] \subseteq sset[v]
           /\ \A k \in hash : k[2] \in sset[k[1]] => Held(k)'
  <1> SUFFICES ASSUME NEW k \in hash, k[2] \in sset[k[1]] PROVE k[2] \in sset'[k[1]]
    BY DEF Held, IInv, TypeOK
  <1>1. k = <<k[1], k[2]>> /\ k[1] \in Users
    BY DEF IInv, TypeOK, Keys
  <1>2. CASE k[1] = u
    <2>1. k[2] # t
      BY <1>1, <1>2
    <2> QED BY <1>1, <1>2, <2>1 DEF IInv, TypeOK
  <1>3. CASE k[1] # u
    BY <1>1, <1>3 DEF IInv, TypeOK
  <1> QED BY <1>2, <1>3

(* A revocation deletes the hash first, so the row is marked, and the entry  *)
(* of the list goes, when Redis no longer accepts the token.                *)
LEMMA RevokeSerial ==
    ASSUME Serial, IInv, IInv', SerialInv, Tracked, NEW p \in Procs, RevokeStep(p)
    PROVE  SerialInv'
  <1>1. /\ up /\ DeadHaveRows /\ HashLives /\ LostUnlisted /\ Knows(req[p])
        /\ \A k \in hash : Held(k) \/ k \in Unlisted(req[p])
    BY OneRequest
  <1> USE DEF Pcs, RedisPcs, LookupPcs, RevokePcs, At
  <1>2. CASE RevokeJti(p)
    <2>1. req'[p].pc \in FreePcs
      BY <1>2, Fields DEF RevokeJti, FreePcs
    <2>2. Unlisted(req[p]) = {}
      BY <1>2 DEF RevokeJti, Unlisted
    <2> QED BY <1>2, <2>1, <2>2, FreeSerial DEF RevokeJti, mysql
  <1>3. CASE RevokeHash(p)
    <2>1. /\ req'[p].pc = "rv_index" /\ req'[p].tok = req[p].tok /\ req'[p].user = req[p].user
          /\ UNCHANGED <<owner, revoked, expired, sset, up>> /\ hash' = hash \ {Key(p)}
      BY <1>3, Fields DEF RevokeHash, mysql
    <2>2. Knows(req[p])'
      BY <2>1 DEF Knows, StorePcs, BackfillPcs, Key
    <2>3. Unlisted(req[p]) = {}
      BY <1>3 DEF RevokeHash, Unlisted
    <2> QED BY <2>1, <2>2, <2>3, ShrinkSerial DEF Held
  <1>4. CASE RevokeIndex(p)
    <2>1. /\ req'[p].pc = "rv_set" /\ req[p].pc = "rv_index"
          /\ req'[p].tok = req[p].tok /\ req'[p].user = req[p].user
          /\ UNCHANGED <<owner, revoked, expired, hash, sset, given, up>>
      BY <1>4, Fields DEF RevokeIndex, mysql
    <2>2. Knows(req[p])'
      BY <1>1, <2>1 DEF Knows, StorePcs, BackfillPcs
    <2>3. Unlisted(req[p]) = {}
      BY <2>1 DEF Unlisted
    <2> QED BY <2>1, <2>2, <2>3, QuietSerial
  <1>5. CASE RevokeSet(p)
    <2>1. /\ sset' = [sset EXCEPT ![req[p].user] = @ \ {req[p].tok}]
          /\ UNCHANGED <<owner, revoked, expired, hash, given, up>>
          /\ <<req[p].user, req[p].tok>> \notin hash
          /\ Unlisted(req[p]) = {}
      BY <1>1, <1>5 DEF RevokeSet, mysql, Knows, Unlisted
    <2>2. /\ \A u \in Users : sset'[u] \subseteq sset[u]
          /\ \A k \in hash' : k[2] \in sset[k[1]] => Held(k)'
      BY <2>1, ListedStays
    <2>3. Knows(req[p])'
      <3>1. CASE Goto(p, "rv_row")
        <4>1. req'[p].pc = "rv_row" /\ req'[p].tok = req[p].tok /\ req'[p].user = req[p].user
          BY <3>1, Fields
        <4> QED BY <2>1, <4>1 DEF Knows, StorePcs, BackfillPcs
      <3>2. CASE Finish(p)
        BY <3>2, FinishNext, FreeNext
      <3> QED BY <1>5, <3>1, <3>2 DEF RevokeSet, RevokeReturns
    <2> QED BY <2>1, <2>2, <2>3, ShrinkSerial
  <1>6. CASE RevokeRow(p)
    <2>1. /\ req[p].tok \in Tokens /\ req[p].user \in Users /\ owner[req[p].tok] = req[p].user
          /\ req[p].op = "refresh"
      BY <1>6 DEF RevokeRow, IInv, RequestsSound, Sound
    <2>2. /\ req'[p].pc = "st_row" /\ req'[p].tok = req[p].tok /\ req'[p].op = req[p].op
          /\ req'[p].user = req[p].user
          /\ UNCHANGED <<owner, expired, hash, sset, given, up>>
          /\ revoked' = revoked \cup {req[p].tok}
          /\ <<req[p].user, req[p].tok>> \notin hash /\ Unlisted(req[p]) = {}
      BY <1>1, <1>6, Fields DEF RevokeRow, redis, Knows, Unlisted
    <2>3. Dead' = Dead \cup {req[p].tok}
      BY <2>2 DEF Dead
    <2>4. Knows(req[p])'
      BY <2>2, <2>3 DEF Knows, StorePcs, BackfillPcs
    <2>5. ASSUME NEW k \in hash PROVE k[2] # req[p].tok
      <3>1. k = <<owner[k[2]], k[2]>>
        BY DEF IInv, TypeOK, Keys, RedisFollowsMySQL
      <3>2. k[2] = req[p].tok => k = <<req[p].user, req[p].tok>>
        BY <2>1, <3>1
      <3> QED BY <2>2, <3>2
    <2>6. lost' = lost
      BY <2>2, LostStays
    <2>7. DeadHaveRows' /\ HashLives'
      BY <1>1, <2>1, <2>2, <2>3, <2>5, <2>6, ConstantsAssumption DEF DeadHaveRows, HashLives
    <2> QED BY <1>1, <2>2, <2>4, <2>6, <2>7, OneRequestNext DEF Held
  <1>7. CASE LogoutLookup(p)
    <2>1. Unlisted(req[p]) = {} /\ UNCHANGED <<owner, revoked, expired, hash, sset, given, up>>
      BY <1>7 DEF LogoutLookup, Unlisted, mysql, redis
    <2>2. req[p].op # "refresh"
      BY <1>7 DEF LogoutLookup, IInv, RequestsSound, Sound
    <2>3. req'[p].pc \in FreePcs
      <3>1. CASE req' = [req EXCEPT ![p].user = atJti[req[p].tok], ![p].pc = "rv_jti"]
        BY <3>1 DEF IInv, TypeOK, FreePcs
      <3>2. CASE Finish(p)
        BY <3>2, FinishNext
      <3> QED BY <1>7, <2>2, <3>1, <3>2 DEF LogoutLookup, RevokeReturns
    <2> QED BY <2>1, <2>3, FreeSerial
  <1>8. CASE RevokeSkipped(p) \/ LogoutSkipped(p)
    BY <1>1, <1>8 DEF RevokeSkipped, LogoutSkipped
  <1> QED BY <1>2, <1>3, <1>4, <1>5, <1>6, <1>7, <1>8 DEF RevokeStep

(* revokeAllUserTokens deletes every hash of the user that is listed before *)
(* it marks the rows; the others are on record as lost.                    *)
LEMMA RevokeAllSerial ==
    ASSUME Serial, IInv, IInv', SerialInv, Tracked, NEW p \in Procs, RevokeAllStep(p)
    PROVE  SerialInv'
  <1>1. /\ up /\ DeadHaveRows /\ HashLives /\ LostUnlisted /\ Knows(req[p])
        /\ \A k \in hash : Held(k) \/ k \in Unlisted(req[p])
    BY OneRequest
  <1> USE DEF Pcs, RedisPcs, RevokeAllPcs, At
  <1>2. CASE RevokeAllMembers(p)
    <2>1. /\ Unlisted(req[p]) = {} /\ UNCHANGED <<owner, revoked, expired, hash, sset, given, up>>
          /\ req'[p].pc = "ra_del" /\ req'[p].user = req[p].user
          /\ req'[p].todo = sset[req[p].user]
      BY <1>2 DEF RevokeAllMembers, Unlisted, mysql, redis, IInv, TypeOK, Request
    <2>2. \A t \in Tokens : <<req[p].user, t>> \in hash => t \in sset[req[p].user] \cup lost
      BY <1>1, <2>1 DEF Held
    <2>3. Knows(req[p])'
      BY <2>1, <2>2, LostStays DEF Knows, StorePcs, BackfillPcs
    <2> QED BY <2>1, <2>3, QuietSerial
  <1>3. CASE RevokeAllHash(p)
    <2>1. PICK t \in req[p].todo :
             /\ hash' = hash \ {<<req[p].user, t>>}
             /\ req' = [req EXCEPT ![p].todo = @ \ {t}]
      BY <1>3 DEF RevokeAllHash
    <2>2. /\ Unlisted(req[p]) = {} /\ UNCHANGED <<owner, revoked, expired, sset, up>>
          /\ req[p].pc = "ra_del" /\ req'[p].pc = "ra_del" /\ req'[p].user = req[p].user
          /\ req'[p].todo = req[p].todo \ {t}
      BY <1>3, <2>1 DEF RevokeAllHash, Unlisted, mysql, IInv, TypeOK, Request
    <2>3. \A s \in Tokens : <<req[p].user, s>> \in hash' => s \in (req[p].todo \ {t}) \cup lost
      BY <1>1, <2>1, <2>2 DEF Knows
    <2>4. Knows(req[p])'
      BY <2>2, <2>3, LostStays DEF Knows, StorePcs, BackfillPcs
    <2> QED BY <2>1, <2>2, <2>4, ShrinkSerial DEF Held
  <1>4. CASE RevokeAllSet(p)
    <2>1. /\ Unlisted(req[p]) = {} /\ UNCHANGED <<owner, revoked, expired, hash, up>>
          /\ req[p].pc = "ra_del" /\ req'[p].pc = "ra_rows" /\ req'[p].user = req[p].user
          /\ req[p].todo = {} /\ sset' = [sset EXCEPT ![req[p].user] = {}]
      BY <1>4, Fields DEF RevokeAllSet, Unlisted, mysql
    <2>2. \A t \in Tokens : <<req[p].user, t>> \in hash => t \in lost
      BY <1>1, <2>1 DEF Knows
    <2>3. (\A u \in Users : sset'[u] \subseteq sset[u]) /\ lost' = lost
      BY <2>1, LostStays DEF IInv, TypeOK
    <2>4. Knows(req[p])'
      BY <2>1, <2>2, <2>3 DEF Knows, StorePcs, BackfillPcs
    <2>5. \A k \in hash' : k[2] \in sset[k[1]] => Held(k)'
      <3>1. \A k \in hash : k = <<k[1], k[2]>> /\ k[1] \in Users /\ k[2] \in Tokens
        BY DEF IInv, TypeOK, Keys
      <3>2. \A k \in hash : k[1] = req[p].user => k[2] \in lost
        BY <2>2, <3>1
      <3> QED BY <2>1, <2>3, <3>1, <3>2 DEF IInv, TypeOK, Held
    <2> QED BY <2>1, <2>3, <2>4, <2>5, ShrinkSerial
  <1>5. CASE RevokeAllRows(p)
    <2>1. /\ Unlisted(req[p]) = {} /\ UNCHANGED <<owner, expired, hash, sset, given, up>>
          /\ revoked' = revoked \cup {t \in Tokens : owner[t] = req[p].user}
          /\ Finish(p) /\ req[p].user \in Users
      BY <1>5, UserKnows DEF RevokeAllRows, Unlisted, redis
    <2>2. Dead' = Dead \cup {t \in Tokens : owner[t] = req[p].user}
      BY <2>1 DEF Dead
    <2>3. \A k \in hash : owner[k[2]] = k[1] /\ (k[1] = req[p].user => k[2] \in lost)
      <3>1. \A k \in hash : k = <<k[1], k[2]>> /\ k[2] \in Tokens
        BY DEF IInv, TypeOK, Keys
      <3>2. \A t \in Tokens : <<req[p].user, t>> \in hash => t \in lost
        BY <1>1, <1>5 DEF Knows, RevokeAllRows
      <3> QED BY <3>1, <3>2 DEF IInv, RedisFollowsMySQL
    <2>4. lost' = lost
      BY <2>1, LostStays
    <2>5. DeadHaveRows' /\ HashLives'
      BY <1>1, <2>1, <2>2, <2>3, <2>4, ConstantsAssumption DEF DeadHaveRows, HashLives
    <2>6. Knows(req[p])'
      BY <2>1, FinishNext, FreeNext
    <2> QED BY <1>1, <2>1, <2>4, <2>5, <2>6, OneRequestNext DEF Held
  <1>6. CASE RevokeAllSkipped(p)
    BY <1>1, <1>6 DEF RevokeAllSkipped
  <1> QED BY <1>2, <1>3, <1>4, <1>5, <1>6 DEF RevokeAllStep

(* A listing removes entries whose hash it found gone, a touch writes a hash *)
(* it found, whose token is listed and alive, or lost.                      *)
LEMMA ListSerial ==
    ASSUME Serial, IInv, IInv', SerialInv, Tracked, NEW p \in Procs, ListStep(p)
    PROVE  SerialInv'
  <1>1. up /\ Knows(req[p])
    BY OneRequest
  <1> USE DEF Pcs, RedisPcs, ListPcs, At
  <1>2. CASE ListMembers(p)
    <2>1. Unlisted(req[p]) = {} /\ req'[p].pc \in FreePcs
      BY <1>2 DEF ListMembers, Unlisted, IInv, TypeOK, FreePcs
    <2> QED BY <1>2, <2>1, FreeSerial DEF ListMembers, mysql, redis
  <1>3. CASE ListGet(p)
    <2>1. Unlisted(req[p]) = {} /\ UNCHANGED <<owner, revoked, expired, hash, sset, given, up>>
      BY <1>3 DEF ListGet, Unlisted, mysql, redis
    <2>2. ASSUME NEW t \in req[p].todo,
                 req' = [req EXCEPT ![p].todo = @ \ {t}, ![p].tok = t,
                                    ![p].pc = IF <<req[p].user, t>> \in hash
                                              THEN "ls_get" ELSE "ls_rem"]
          PROVE  SerialInv'
      <3>1. /\ req'[p].user = req[p].user /\ req'[p].tok = t
            /\ req'[p].pc = IF <<req[p].user, t>> \in hash THEN "ls_get" ELSE "ls_rem"
        BY <2>2 DEF IInv, TypeOK, Request
      <3>2. CASE <<req[p].user, t>> \in hash
        BY <2>1, <3>1, <3>2, FreeSerial DEF FreePcs
      <3>3. CASE <<req[p].user, t>> \notin hash
        <4>1. Knows(req[p])'
          BY <2>1, <3>1, <3>3 DEF Knows, StorePcs, BackfillPcs
        <4> QED BY <2>1, <4>1, QuietSerial
      <3> QED BY <3>2, <3>3
    <2>3. CASE Finish(p)
      BY <2>1, <2>3, FinishSerial
    <2> QED BY <1>3, <2>2, <2>3 DEF ListGet
  <1>4. CASE ListRemove(p)
    <2>1. /\ sset' = [sset EXCEPT ![req[p].user] = @ \ {req[p].tok}]
          /\ UNCHANGED <<owner, revoked, expired, hash, up>> /\ req'[p].pc \in FreePcs
          /\ <<req[p].user, req[p].tok>> \notin hash /\ Unlisted(req[p]) = {}
      BY <1>1, <1>4, Fields DEF ListRemove, mysql, Knows, Unlisted, FreePcs
    <2>2. /\ \A u \in Users : sset'[u] \subseteq sset[u]
          /\ \A k \in hash' : k[2] \in sset[k[1]] => Held(k)'
      BY <2>1, ListedStays
    <2>3. Knows(req[p])'
      BY <2>1, FreeNext
    <2> QED BY <2>1, <2>2, <2>3, ShrinkSerial
  <1>5. CASE ListSkipped(p)
    BY <1>1, <1>5 DEF ListSkipped
  <1> QED BY <1>2, <1>3, <1>4, <1>5 DEF ListStep

LEMMA TouchSerial ==
    ASSUME Serial, IInv, IInv', SerialInv, Tracked, NEW p \in Procs, TouchStep(p)
    PROVE  SerialInv'
  <1>1. /\ up /\ DeadHaveRows /\ HashLives /\ LostUnlisted /\ Knows(req[p])
        /\ \A k \in hash : Held(k) \/ k \in Unlisted(req[p])
    BY OneRequest
  <1> USE DEF Pcs, RedisPcs, TouchPcs, At
  <1>2. CASE TouchLookup(p)
    <2>1. Unlisted(req[p]) = {} /\ UNCHANGED <<owner, revoked, expired, hash, sset, given, up>>
      BY <1>2 DEF TouchLookup, Unlisted, mysql, redis
    <2>2. req'[p].pc \in FreePcs
      <3>1. CASE req' = [req EXCEPT ![p].user = atJti[req[p].tok], ![p].pc = "tc_exists"]
        BY <3>1 DEF IInv, TypeOK, FreePcs
      <3>2. CASE Finish(p)
        BY <3>2, FinishNext
      <3> QED BY <1>2, <3>1, <3>2 DEF TouchLookup
    <2> QED BY <2>1, <2>2, FreeSerial
  <1>3. CASE TouchExists(p)
    <2>1. Unlisted(req[p]) = {} /\ UNCHANGED <<owner, revoked, expired, hash, sset, given, up>>
      BY <1>3 DEF TouchExists, Unlisted, mysql, redis
    <2>2. CASE Key(p) \in hash /\ Goto(p, "tc_set")
      <3>1. req'[p].pc = "tc_set" /\ req'[p].tok = req[p].tok /\ req'[p].user = req[p].user
        BY <2>2, Fields
      <3>2. req[p].tok \in lost \/ req[p].tok \in sset[req[p].user] \ Dead
        BY <1>1, <2>1, <2>2 DEF Key, HashLives, Held
      <3>3. Knows(req[p])'
        BY <2>1, <3>1, <3>2, LostStays DEF Knows, StorePcs, BackfillPcs, Dead
      <3> QED BY <2>1, <3>3, QuietSerial
    <2>3. CASE Finish(p)
      BY <2>1, <2>3, FinishSerial
    <2> QED BY <1>3, <2>2, <2>3 DEF TouchExists
  <1>4. CASE TouchSet(p)
    <2>1. /\ hash' = hash \cup {<<req[p].user, req[p].tok>>} /\ Finish(p)
          /\ UNCHANGED <<owner, Dead, sset, up>> /\ Unlisted(req[p]) = {}
          /\ req[p].tok \in lost \/ req[p].tok \in sset[req[p].user] \ Dead
      BY <1>1, <1>4 DEF TouchSet, Key, mysql, Dead, Unlisted, Knows
    <2>2. lost' = lost
      BY <2>1, LostStays
    <2>3. DeadHaveRows' /\ HashLives'
      BY <1>1, <2>1, <2>2 DEF DeadHaveRows, HashLives
    <2>4. Knows(req[p])'
      BY <2>1, FinishNext, FreeNext
    <2> QED BY <1>1, <2>1, <2>2, <2>3, <2>4, OneRequestNext DEF Held
  <1>5. CASE TouchSkipped(p)
    BY <1>1, <1>5 DEF TouchSkipped
  <1> QED BY <1>2, <1>3, <1>4, <1>5 DEF TouchStep

(* A step that changes no request and makes no hash: evictions and the rest. *)
(* Entries that leave a list are recorded.                                  *)
LEMMA NoRequestSerial ==
    ASSUME Serial, IInv, SerialInv, req' = req, up' = up,
           UNCHANGED <<owner, revoked, given>>, hash' \subseteq hash,
           lost' = lost \cup (Listed \ Listed'),
           \A u \in Users : sset'[u] \in {sset[u], {}},
           \E E \in SUBSET given :
               /\ \A p \in Procs : req[p].tok \notin E
               /\ expired' = expired \cup E
               /\ \A k \in hash' : k[2] \notin E
    PROVE  SerialInv'
  <1>1. PICK E \in SUBSET given :
               /\ \A p \in Procs : req[p].tok \notin E
               /\ expired' = expired \cup E
               /\ \A k \in hash' : k[2] \notin E
    OBVIOUS
  <1>2. Dead' = Dead \cup E
    BY <1>1 DEF Dead
  <1>3. up /\ DeadHaveRows /\ HashLives /\ HashListed /\ LostUnlisted /\ \A p \in Procs : Knows(req[p])
    BY DEF SerialInv
  <1>4. DeadHaveRows' /\ HashLives'
    BY <1>1, <1>2, <1>3 DEF DeadHaveRows, HashLives, IInv, GivenTokensHaveRows
  <1>5. Listed' \subseteq Listed
    BY DEF Listed
  <1>6. LostUnlisted'
    BY <1>3, <1>5 DEF LostUnlisted
  <1>7. ASSUME NEW u \in Users, NEW t \in sset[u]
        PROVE  t \in lost' \/ t \in sset'[u]
    <2>1. t \in Listed
      BY <1>7 DEF Listed
    <2>2. ASSUME NEW v \in Users, t \in sset'[v] PROVE v = u
      <3>1. t \in sset[v]
        BY <2>2
      <3>2. owner[t] = u /\ owner[t] = v
        BY <1>7, <3>1 DEF IInv, RedisFollowsMySQL
      <3> QED BY <3>2
    <2>3. t \in Listed' => t \in sset'[u]
      BY <2>2 DEF Listed
    <2> QED BY <2>1, <2>3
  <1>8. HashListed'
    <2>1. \A k \in hash : k[1] \in Users
      BY DEF IInv, TypeOK, Keys
    <2> QED BY <1>3, <1>7, <2>1 DEF HashListed, Held, Unlisted
  <1>9. ASSUME NEW p \in Procs PROVE Knows(req[p])'
    <2>1. \A t : <<req[p].user, t>> \notin hash => <<req[p].user, t>> \notin hash'
      OBVIOUS
    <2>2. Knows(req[p]) /\ req[p].tok \notin E
      BY <1>1, <1>3
    <2>3. req[p].pc = "tc_set" => req[p].user \in Users
      BY DEF IInv, RequestsSound, Sound
    <2> QED BY <1>2, <1>7, <2>1, <2>2, <2>3 DEF Knows
  <1> QED BY <1>3, <1>4, <1>6, <1>8, <1>9 DEF SerialInv

LEMMA NothingExpires ==
    ASSUME Serial, IInv, SerialInv, req' = req, up' = up,
           UNCHANGED <<owner, revoked, given>>, hash' \subseteq hash, expired' = expired,
           lost' = lost \cup (Listed \ Listed'),
           \A u \in Users : sset'[u] \in {sset[u], {}}
    PROVE  SerialInv'
  <1>1. PICK E : E = {}
    OBVIOUS
  <1>2. /\ E \in SUBSET given /\ \A p \in Procs : req[p].tok \notin E
        /\ expired' = expired \cup E /\ \A k \in hash' : k[2] \notin E
    BY <1>1
  <1> QED BY <1>2, NoRequestSerial

LEMMA FaultSerial ==
    ASSUME Serial, IInv, SerialInv, Fault, lost' = lost \cup (Listed \ Listed')
    PROVE  SerialInv'
  <1>1. up /\ Faults \cap {"down", "command", "crash"} = {}
    BY DEF SerialInv, Serial
  <1>2. ASSUME \/ \E k \in Keys : EvictHash(k)
               \/ \E t \in Tokens : EvictIndex(t) \/ EvictJti(t)
        PROVE  SerialInv'
    <2>1. /\ req' = req /\ up' = up /\ UNCHANGED <<owner, revoked, sset, given>>
          /\ hash' \subseteq hash /\ expired' = expired
      BY <1>2 DEF EvictHash, EvictIndex, EvictJti, mysql
    <2> QED BY <2>1, NothingExpires
  <1>3. ASSUME NEW u \in Users, EvictSet(u) PROVE SerialInv'
    <2>1. /\ req' = req /\ up' = up /\ UNCHANGED <<owner, revoked, given>>
          /\ hash' \subseteq hash /\ expired' = expired
      BY <1>3 DEF EvictSet, mysql
    <2>2. \A v \in Users : sset'[v] \in {sset[v], {}}
      BY <1>3 DEF EvictSet, IInv, TypeOK
    <2> QED BY <2>1, <2>2, NothingExpires
  <1>4. ASSUME NEW t \in Tokens, Expire(t) PROVE SerialInv'
    <2>1. /\ req' = req /\ up' = up /\ UNCHANGED <<owner, revoked, sset, given>>
          /\ hash' \subseteq hash /\ expired' = expired \cup {t} /\ {t} \in SUBSET given
          /\ \A p \in Procs : req[p].tok \notin {t}
          /\ \A k \in hash' : k[2] \notin {t}
      BY <1>4 DEF Expire
    <2> QED BY <2>1, NoRequestSerial
  <1> QED BY <1>1, <1>2, <1>3, <1>4 DEF Fault, RedisDown, RedisConnect, CommandFails, Crash

LEMMA SerialStep ==
    ASSUME Serial, IInv, IInv', SerialInv, [HNext]_hvars PROVE SerialInv'
  <1>1. ASSUME NEW p \in Procs, Arrive(p) \/ Step(p), Tracked PROVE SerialInv'
    BY <1>1, ArriveSerial, StoreSerial, VerifySerial, RevokeSerial, RevokeAllSerial,
       ListSerial, TouchSerial DEF Step
  <1>2. ASSUME \/ (\E u \in Users : SetStatus(u)) /\ lost' = lost
               \/ UNCHANGED hvars
        PROVE  SerialInv'
    <2>1. /\ req' = req /\ up' = up /\ UNCHANGED <<owner, revoked, sset, given>>
          /\ hash' \subseteq hash /\ expired' = expired /\ lost' = lost
      BY <1>2 DEF SetStatus, hvars, vars, mysql, redis
    <2>2. Listed' = Listed
      BY <2>1 DEF Listed
    <2> QED BY <2>1, <2>2, NothingExpires
  <1> QED BY <1>1, <1>2, FaultSerial DEF HNext, Tracked

-----------------------------------------------------------------------------
(* The refinement of RefreshTokens.                                        *)

Acc(r) == IF r.op = "refresh" /\ r.pc \in AcceptedPcs THEN r.tok ELSE None

(* The dead tokens as the abstract store has them.                         *)
Gone == Dead \ Stray

(* Whatever a step does, dead tokens stay dead: a dead token gets no new     *)
(* hash unless it is lost and has one, or a touch is about to write it.     *)
Dying == DeadHaveRows' /\ Dead' \subseteq Tokens /\ Gone \subseteq Gone'

(* A step that issues, accepts and gives up nothing kills what it kills.     *)
LEMMA Kills ==
    ASSUME Dying, owner' = owner, \A p \in Procs : Acc(req'[p]) = Acc(req[p])
    PROVE  Truth!Next
  <1>1. Gone' \in SUBSET Tokens /\ Gone' = Gone \cup Gone' /\ \A t \in Gone' : owner[t] # None
    BY DEF Dying, DeadHaveRows, Gone
  <1>2. Truth!Kill(Gone')
    BY <1>1 DEF Truth!Kill, Acc, Gone, Dead
  <1> QED BY <1>1, <1>2 DEF Truth!Next

(* A request's step that writes no hash and no list changes no death.        *)
LEMMA GoneStays ==
    ASSUME SerialInv, Tracked, UNCHANGED <<revoked, expired, hash, sset>>, NEW p \in Procs,
           \A q \in Procs : q # p => req'[q] = req[q],
           req[p].pc # "tc_set", req'[p].pc # "tc_set"
    PROVE  Gone' = Gone
  <1>1. lost' = lost
    BY LostStays
  <1>2. \A t : \A q \in Procs : (At(q, "tc_set") /\ req[q].tok = t)' <=> At(q, "tc_set") /\ req[q].tok = t
    BY DEF At
  <1>3. Stray' = Stray
    BY <1>1, <1>2 DEF Stray
  <1> QED BY <1>3 DEF Gone, Dead

(* No step takes a death back in MySQL.                                    *)
LEMMA DeadGrows == ASSUME [Next]_vars PROVE Dead \subseteq Dead'
  <1>1. ASSUME NEW p \in Procs, Step(p) PROVE revoked \subseteq revoked' /\ expired' = expired
    BY <1>1 DEF Step, StoreStep, StoreRow, StoreHash, StoreIndex, StoreJti, StoreSet,
            StoreSkipped, VerifyStep, LookupIndex, LookupHash, LookupUnavailable, LookupRow,
            BackfillHash, BackfillIndex, BackfillSet, BackfillSkipped, CheckUser, RevokeStep,
            RevokeJti, RevokeHash, RevokeIndex, RevokeSet, RevokeSkipped, RevokeRow,
            LogoutLookup, LogoutSkipped, RevokeAllStep, RevokeAllMembers, RevokeAllHash,
            RevokeAllSet, RevokeAllSkipped, RevokeAllRows, ListStep, ListMembers, ListGet,
            ListRemove, ListSkipped, TouchStep, TouchLookup, TouchExists, TouchSet, TouchSkipped, mysql
  <1>2. ASSUME NEW p \in Procs, Arrive(p) PROVE UNCHANGED mysql
    BY <1>2 DEF Arrive, Login, Refresh, Logout, RevokeSession, LogoutAll, ListSessions, Touch, Begin
  <1>3. ASSUME Fault PROVE revoked' = revoked /\ expired \subseteq expired'
    BY <1>3 DEF Fault, RedisDown, RedisConnect, CommandFails, Crash, EvictHash, EvictIndex,
                EvictJti, EvictSet, Expire, mysql
  <1>4. ASSUME NEW u \in Users, SetStatus(u) PROVE revoked' = revoked /\ expired' = expired
    BY <1>4 DEF SetStatus
  <1> QED BY <1>1, <1>2, <1>3, <1>4 DEF Next, vars, mysql, Dead

(* The steps that write a hash, and the one that leads a touch to it.        *)
LEMMA HashWriters ==
    ASSUME NEW p \in Procs, Step(p)
    PROVE  hash' \subseteq hash \/ StoreHash(p) \/ BackfillHash(p) \/ TouchSet(p)
  BY DEF redis, Step, StoreStep, StoreRow, StoreHash, StoreIndex, StoreJti, StoreSet,
            StoreSkipped, VerifyStep, LookupIndex, LookupHash, LookupUnavailable, LookupRow,
            BackfillHash, BackfillIndex, BackfillSet, BackfillSkipped, CheckUser, RevokeStep,
            RevokeJti, RevokeHash, RevokeIndex, RevokeSet, RevokeSkipped, RevokeRow,
            LogoutLookup, LogoutSkipped, RevokeAllStep, RevokeAllMembers, RevokeAllHash,
            RevokeAllSet, RevokeAllSkipped, RevokeAllRows, ListStep, ListMembers, ListGet,
            ListRemove, ListSkipped, TouchStep, TouchLookup, TouchExists, TouchSet, TouchSkipped

LEMMA TouchArrives ==
    ASSUME IInv, NEW p \in Procs, Step(p), req'[p].pc = "tc_set"
    PROVE  req'[p].tok = req[p].tok /\ Key(p) \in hash
  <1>1. ASSUME NEW c \in Pcs, Goto(p, c), c # "tc_set" PROVE FALSE
    BY <1>1, Fields
  <1>2. ~Finish(p)
    BY FinishNext DEF FreePcs
  <1> USE <1>1, <1>2 DEF IInv, TypeOK, Request, Pcs, RedisPcs, StorePcs, LookupPcs, BackfillPcs,
          RevokePcs, RevokeAllPcs, ListPcs, TouchPcs
  <1>3. ~StoreStep(p)
    BY DEF StoreStep, StoreRow, StoreHash, StoreIndex, StoreJti, StoreSet, StoreSkipped
  <1>4. ~VerifyStep(p)
    <2>1. ~LookupIndex(p) /\ ~LookupRow(p)
      BY DEF LookupIndex, LookupRow
    <2>2. ~LookupHash(p)
      BY DEF LookupHash
    <2> QED BY <2>1, <2>2 DEF VerifyStep, LookupUnavailable, BackfillHash, BackfillIndex,
                    BackfillSet, BackfillSkipped, CheckUser
  <1>5. ~RevokeStep(p)
    <2>1. ~RevokeReturns(p)
      BY DEF RevokeReturns
    <2>2. ~LogoutLookup(p)
      BY <2>1 DEF LogoutLookup
    <2> QED BY <2>1, <2>2 DEF RevokeStep, RevokeJti, RevokeHash, RevokeIndex, RevokeSet,
                    RevokeSkipped, RevokeRow, LogoutSkipped
  <1>6. ~RevokeAllStep(p)
    <2>1. ~RevokeAllMembers(p)
      BY DEF RevokeAllMembers
    <2>2. ~RevokeAllHash(p)
      BY DEF RevokeAllHash, At
    <2> QED BY <2>1, <2>2 DEF RevokeAllStep, RevokeAllSet, RevokeAllSkipped, RevokeAllRows
  <1>7. ~ListStep(p)
    <2>1. ~ListMembers(p)
      BY DEF ListMembers
    <2>2. ASSUME NEW t \in req[p].todo, NEW c \in {"ls_get", "ls_rem"},
                 req' = [req EXCEPT ![p].todo = @ \ {t}, ![p].tok = t, ![p].pc = c]
          PROVE  FALSE
      BY <2>2
    <2>3. ~ListGet(p)
      BY <2>2 DEF ListGet
    <2> QED BY <2>1, <2>3 DEF ListStep, ListRemove, ListSkipped
  <1>8. CASE TouchStep(p)
    <2>1. ~TouchLookup(p)
      BY DEF TouchLookup
    <2>2. CASE TouchExists(p)
      BY <2>2, Fields DEF TouchExists
    <2> QED BY <1>8, <2>1, <2>2 DEF TouchStep, TouchSet, TouchSkipped
  <1> QED BY <1>3, <1>4, <1>5, <1>6, <1>7, <1>8 DEF Step

(* A step of the record: what was dead and is lost with a hash had it before. *)
LEMMA DyingStep ==
    ASSUME Serial, IInv, IInv', SerialInv, SerialInv', [HNext]_hvars
    PROVE  Dying
  <1>1. DeadHaveRows' /\ Dead' \subseteq Tokens
    BY DEF SerialInv, IInv, TypeOK, Dead
  <1>2. [Next]_vars
    BY DEF HNext, hvars, Next
  <1>3. SUFFICES ASSUME NEW t \in Dead, t \in Stray' PROVE t \in Stray
    BY <1>1, <1>2, DeadGrows DEF Dying, Gone
  <1>4. ASSUME NEW p \in Procs, Step(p), Tracked PROVE t \in Stray
    <2>1. t \in lost /\ \A q \in Procs : q = p
      BY <1>3, <1>4 DEF Serial, Tracked, Stray
    <2>2. /\ HashLives /\ Knows(req[p])
      BY OneRequest
    <2>3. CASE \E u \in Users : <<u, t>> \in hash'
      <3>1. PICK u \in Users : <<u, t>> \in hash'
        BY <2>3
      <3>2. CASE hash' \subseteq hash
        BY <2>1, <3>1, <3>2 DEF Stray
      <3>3. CASE StoreHash(p)
        <4>1. <<u, t>> \in hash
          BY <1>3, <2>2, <3>1, <3>3 DEF StoreHash, NewKey, At, Knows, StorePcs
        <4> QED BY <2>1, <4>1 DEF Stray
      <3>4. CASE BackfillHash(p)
        <4>1. <<u, t>> \in hash
          BY <1>3, <2>2, <3>1, <3>4 DEF BackfillHash, Key, At, Knows, BackfillPcs
        <4> QED BY <2>1, <4>1 DEF Stray
      <3>5. CASE TouchSet(p)
        BY <2>1, <3>1, <3>5 DEF TouchSet, Key, At, Stray
      <3> QED BY <1>4, <3>2, <3>3, <3>4, <3>5, HashWriters
    <2>4. CASE req'[p].pc = "tc_set" /\ req'[p].tok = t
      <3>1. <<req[p].user, t>> \in hash
        BY <1>4, <2>4, TouchArrives DEF Key
      <3>2. req[p].user \in Users
        BY <3>1 DEF IInv, TypeOK, Keys
      <3> QED BY <2>1, <3>1, <3>2 DEF Stray
    <2> QED BY <1>3, <2>1, <2>3, <2>4 DEF Stray, At
  <1>5. ASSUME NEW p \in Procs, Arrive(p), Tracked PROVE t \in Stray
    <2>1. hash' = hash /\ t \in lost
      BY <1>3, <1>5 DEF Tracked, Stray, Arrive, Login, Refresh, Logout, RevokeSession, LogoutAll,
                        ListSessions, Touch, Begin, redis
    <2>2. \A q \in Procs : q # p => req'[q] = req[q]
      BY <1>5 DEF IInv, TypeOK, Arrive, Login, Refresh, Logout, RevokeSession, LogoutAll,
                  ListSessions, Touch, Begin
    <2>3. req'[p].pc # "tc_set"
      <3>1. ASSUME NEW r, Begin(p, r), r.pc # "tc_set" PROVE req'[p].pc # "tc_set"
        BY <3>1 DEF Begin, IInv, TypeOK
      <3>2. ASSUME NEW s \in Tokens, NEW n \in Tokens, Refresh(p, s, n) PROVE req'[p].pc # "tc_set"
        <4> DEFINE dead == ~Usable(s) \/ s \in out
                   r == [Idle EXCEPT !.op = "refresh", !.pc = "vf_index", !.tok = s,
                                     !.new = n, !.late = dead]
        <4>1. Begin(p, r)
          BY <3>2 DEF Refresh
        <4> HIDE DEF dead
        <4>2. r.pc # "tc_set"
          BY DEF Idle
        <4> HIDE DEF r
        <4> QED BY <3>1, <4>1, <4>2
      <3> QED BY <1>5, <3>1, <3>2 DEF Idle, Arrive, Login, Logout, RevokeSession, LogoutAll,
                                      ListSessions, Touch
    <2> QED BY <1>3, <2>1, <2>2, <2>3 DEF Stray, At
  <1>6. ASSUME Fault, lost' = lost \cup (Listed \ Listed') PROVE t \in Stray
    <2>1. /\ up /\ Faults \cap {"down", "command", "crash"} = {}
          /\ HashLives /\ \A p \in Procs : Knows(req[p])
      BY DEF SerialInv, Serial
    <2>2. req' = req /\ hash' \subseteq hash
      BY <1>6, <2>1 DEF Fault, RedisDown, RedisConnect, CommandFails, Crash, EvictHash, EvictIndex,
                        EvictJti, Expire, EvictSet, redis
    <2>3. \/ \E u \in Users : <<u, t>> \in hash
          \/ \E p \in Procs : At(p, "tc_set") /\ req[p].tok = t
      BY <1>3, <2>2 DEF Stray, At
    <2>4. t \in lost
      BY <2>1, <2>3 DEF HashLives, Knows, At
    <2> QED BY <2>3, <2>4 DEF Stray
  <1>7. ASSUME \/ \E u \in Users : SetStatus(u) /\ lost' = lost
               \/ UNCHANGED hvars
        PROVE  t \in Stray
    <2>1. UNCHANGED <<hash, req, lost>>
      BY <1>7 DEF SetStatus, hvars, vars, redis
    <2> QED BY <1>3, <2>1 DEF Stray, At
  <1> QED BY <1>4, <1>5, <1>6, <1>7 DEF HNext, Tracked

LEMMA Accepts ==
    ASSUME owner' = owner, Gone' = Gone, NEW p \in Procs, NEW t \in Tokens,
           Acc(req[p]) = None, owner[t] # None, t \notin Gone,
           Acc(req'[p]) = t, \A q \in Procs : q # p => req'[q] = req[q]
    PROVE  Truth!Next
  <1>1. Truth!Accept(p, t)
    BY DEF Truth!Accept, Acc, Gone, Dead
  <1> QED BY <1>1 DEF Truth!Next

LEMMA Rotates ==
    ASSUME Gone' = Gone, NEW p \in Procs, NEW n \in Tokens,
           Acc(req[p]) \in Gone, owner[n] = None,
           owner' = [owner EXCEPT ![n] = owner[Acc(req[p])]],
           Acc(req'[p]) = None, \A q \in Procs : q # p => req'[q] = req[q]
    PROVE  Truth!Next
  <1>1. Truth!Rotate(p, n)
    BY DEF Truth!Rotate, Acc, Gone, Dead
  <1> QED BY <1>1 DEF Truth!Next

LEMMA Issues ==
    ASSUME Gone' = Gone, NEW u \in Users, NEW n \in Tokens,
           owner[n] = None, owner' = [owner EXCEPT ![n] = u],
           \A q \in Procs : Acc(req'[q]) = Acc(req[q])
    PROVE  Truth!Next
  <1>1. Truth!Issue(u, n)
    BY DEF Truth!Issue, Acc, Gone, Dead
  <1> QED BY <1>1 DEF Truth!Next

LEMMA GivesUp ==
    ASSUME owner' = owner, Gone' = Gone, NEW p \in Procs,
           Acc(req[p]) # None, Acc(req'[p]) = None, \A q \in Procs : q # p => req'[q] = req[q]
    PROVE  Truth!Next
  <1>1. Truth!GiveUp(p)
    BY DEF Truth!GiveUp, Acc, Gone, Dead
  <1> QED BY <1>1 DEF Truth!Next

(* What a request's record says of the token it was accepted with.          *)
LEMMA GotoAcc ==
    ASSUME IInv, NEW p \in Procs, NEW c \in Pcs, Goto(p, c),
           req[p].op # "refresh" \/ (req[p].pc \in AcceptedPcs <=> c \in AcceptedPcs)
    PROVE  \A q \in Procs : Acc(req'[q]) = Acc(req[q])
  <1>1. \A q \in Procs : q # p => req'[q] = req[q]
    BY GotoFacts DEF IInv
  <1>2. Acc(req'[p]) = Acc(req[p])
    BY Fields DEF Acc
  <1> QED BY <1>1, <1>2

LEMMA FinishAcc ==
    ASSUME IInv, NEW p \in Procs, Finish(p)
    PROVE  /\ Acc(req'[p]) = None
           /\ \A q \in Procs : q # p => req'[q] = req[q]
           /\ Acc(req[p]) = None => \A q \in Procs : Acc(req'[q]) = Acc(req[q])
  BY FinishFacts DEF IInv, Acc, Idle

LEMMA StoreTruth ==
    ASSUME Serial, IInv, SerialInv, Tracked, Dying, NEW p \in Procs, StoreStep(p)
    PROVE  Truth!Next
  <1>1. up /\ Knows(req[p])
    BY OneRequest
  <1> USE DEF At, AcceptedPcs, BackfillPcs, RevokePcs
  <1>2. CASE StoreRow(p)
    <2>1. /\ req[p].pc = "st_row" /\ Goto(p, "st_hash") /\ "st_hash" \in Pcs
          /\ req[p].user \in Users /\ req[p].new \in Tokens /\ owner[req[p].new] = None
          /\ owner' = [owner EXCEPT ![req[p].new] = req[p].user]
          /\ UNCHANGED <<revoked, expired>>
      BY <1>2 DEF StoreRow, IInv, RequestsSound, Sound, Pcs, RedisPcs, StorePcs
    <2>2. \A q \in Procs : q # p => req'[q] = req[q]
      BY <2>1, GotoFacts DEF IInv
    <2>3. Gone' = Gone
      <3>1. req'[p].pc = "st_hash" /\ UNCHANGED <<hash, sset>>
        BY <1>2, <2>1, Fields DEF StoreRow, redis
      <3> QED BY <2>1, <2>2, <3>1, GoneStays
    <2>4. CASE req[p].op = "refresh"
      <3>1. /\ Acc(req[p]) = req[p].tok /\ owner[req[p].tok] = req[p].user
            /\ req[p].tok \in Dead /\ <<req[p].user, req[p].tok>> \notin hash
        BY <1>1, <2>1, <2>4 DEF Acc, Knows, IInv, RequestsSound, Sound
      <3>2. req[p].tok \notin Stray
        <4>1. \A u : <<u, req[p].tok>> \in hash => u = req[p].user
          BY <3>1 DEF IInv, RedisFollowsMySQL
        <4>2. \A q \in Procs : ~At(q, "tc_set")
          BY <2>1 DEF Serial
        <4> QED BY <3>1, <4>1, <4>2 DEF Stray
      <3>3. Acc(req'[p]) = None
        BY <2>1, Fields DEF Acc
      <3> QED BY <2>1, <2>2, <2>3, <3>1, <3>2, <3>3, Rotates DEF Gone
    <2>5. CASE req[p].op # "refresh"
      BY <2>1, <2>3, <2>5, GotoAcc, Issues
    <2> QED BY <2>4, <2>5
  <1>3. CASE StoreHash(p) \/ StoreIndex(p) \/ StoreJti(p)
    <2>1. PICK c \in {"st_index", "st_jti", "st_set"} : Goto(p, c)
      BY <1>3 DEF StoreHash, StoreIndex, StoreJti
    <2>2. /\ c \in Pcs /\ c \notin AcceptedPcs /\ req[p].pc \notin AcceptedPcs
          /\ owner' = owner
      BY <1>3, <2>1 DEF StoreHash, StoreIndex, StoreJti, mysql, Pcs, RedisPcs, StorePcs
    <2> QED BY <2>1, <2>2, GotoAcc, Kills
  <1>4. CASE StoreSet(p)
    <2>1. owner' = owner /\ Finish(p) /\ Acc(req[p]) = None
      BY <1>4 DEF StoreSet, mysql, Acc
    <2> QED BY <2>1, FinishAcc, Kills
  <1>5. CASE StoreSkipped(p)
    BY <1>1, <1>5 DEF StoreSkipped
  <1> QED BY <1>2, <1>3, <1>4, <1>5 DEF StoreStep

LEMMA VerifyTruth ==
    ASSUME Serial, IInv, SerialInv, Tracked, Dying, NEW p \in Procs, VerifyStep(p)
    PROVE  Truth!Next
  <1>1. up /\ HashLives
    BY OneRequest
  <1> USE DEF At, AcceptedPcs, BackfillPcs, RevokePcs
  <1>2. CASE LookupIndex(p)
    <2>1. owner' = owner /\ Acc(req[p]) = None /\ Acc(req'[p]) = None
      BY <1>2 DEF LookupIndex, mysql, Acc, IInv, TypeOK
    <2>2. \A q \in Procs : q # p => req'[q] = req[q]
      BY <1>2 DEF LookupIndex, IInv, TypeOK
    <2> QED BY <2>1, <2>2, Kills
  <1>3. CASE LookupHash(p)
    <2>1. /\ UNCHANGED <<owner, revoked, expired, hash, sset>> /\ Acc(req[p]) = None
          /\ req[p].op = "refresh" /\ req[p].tok \in Tokens
          /\ {"user", "vf_row"} \subseteq Pcs /\ req[p].pc = "vf_hash"
      BY <1>3 DEF LookupHash, mysql, redis, Acc, IInv, RequestsSound, Sound, LookupPcs, Pcs
    <2>2. CASE Key(p) \in hash
      <3>1. req[p].tok \notin Gone /\ owner[req[p].tok] # None
        <4>1. req[p].user \in Users /\ owner[req[p].tok] = req[p].user
          BY <2>2 DEF Key, IInv, TypeOK, Keys, RedisFollowsMySQL
        <4>2. req[p].tok \notin Dead \/ req[p].tok \in lost
          BY <1>1, <2>2 DEF HashLives, Key
        <4> QED BY <2>2, <4>1, <4>2, ConstantsAssumption DEF Gone, Stray, Key
      <3>2. Goto(p, "user")
        BY <1>3, <2>2 DEF LookupHash
      <3>3. /\ Acc(req'[p]) = req[p].tok /\ req'[p].pc = "user"
            /\ \A q \in Procs : q # p => req'[q] = req[q]
        BY <2>1, <3>2, Fields, GotoFacts DEF Acc, IInv
      <3>4. Gone' = Gone
        BY <2>1, <3>3, GoneStays
      <3> QED BY <2>1, <3>1, <3>3, <3>4, Accepts
    <2>3. CASE Key(p) \notin hash
      BY <1>3, <2>1, <2>3, GotoAcc, Kills DEF LookupHash
    <2> QED BY <2>2, <2>3
  <1>4. CASE LookupRow(p)
    <2>1. /\ UNCHANGED <<owner, revoked, expired, hash, sset>> /\ Acc(req[p]) = None
          /\ req[p].op = "refresh" /\ req[p].tok \in Tokens /\ req[p].pc = "vf_row"
      BY <1>4 DEF LookupRow, mysql, redis, Acc, IInv, RequestsSound, Sound, LookupPcs
    <2>2. CASE Usable(req[p].tok)
      <3>1. req' = [req EXCEPT ![p].user = owner[req[p].tok], ![p].pc = "bf_hash"]
        BY <1>4, <2>2 DEF LookupRow
      <3>2. /\ Acc(req'[p]) = req[p].tok /\ req'[p].pc = "bf_hash"
            /\ \A q \in Procs : q # p => req'[q] = req[q]
        BY <2>1, <3>1 DEF Acc, IInv, TypeOK, Request
      <3>3. Gone' = Gone
        BY <2>1, <3>2, GoneStays
      <3> QED BY <2>1, <2>2, <3>2, <3>3, Accepts DEF Usable, Gone, Dead
    <2>3. CASE ~Usable(req[p].tok)
      BY <1>4, <2>1, <2>3, FinishAcc, Kills DEF LookupRow
    <2> QED BY <2>2, <2>3
  <1>5. CASE BackfillHash(p) \/ BackfillIndex(p) \/ BackfillSet(p)
    <2>1. PICK c \in {"bf_index", "bf_set", "user"} : Goto(p, c)
      BY <1>5 DEF BackfillHash, BackfillIndex, BackfillSet
    <2>2. /\ c \in Pcs /\ c \in AcceptedPcs /\ req[p].pc \in AcceptedPcs
          /\ owner' = owner
      BY <1>5, <2>1 DEF BackfillHash, BackfillIndex, BackfillSet, mysql, Pcs, RedisPcs
    <2> QED BY <2>1, <2>2, GotoAcc, Kills
  <1>6. CASE CheckUser(p)
    <2>1. /\ UNCHANGED <<owner, revoked, expired, hash, sset>> /\ req[p].pc = "user"
          /\ "rv_jti" \in Pcs /\ Acc(req[p]) # None
      BY <1>6, ConstantsAssumption
         DEF CheckUser, mysql, redis, Acc, IInv, RequestsSound, Sound, LookupPcs, Pcs, RedisPcs
    <2>2. CASE Goto(p, "rv_jti")
      BY <2>1, <2>2, GotoAcc, Kills
    <2>3. CASE Finish(p)
      <3>1. req'[p].pc # "tc_set"
        BY <2>3, FinishNext DEF FreePcs
      <3>2. Gone' = Gone
        BY <2>1, <2>3, <3>1, FinishAcc, GoneStays
      <3> QED BY <2>1, <2>3, <3>2, FinishAcc, GivesUp
    <2> QED BY <1>6, <2>2, <2>3 DEF CheckUser
  <1>7. CASE LookupUnavailable(p) \/ BackfillSkipped(p)
    BY <1>1, <1>7 DEF LookupUnavailable, BackfillSkipped
  <1> QED BY <1>2, <1>3, <1>4, <1>5, <1>6, <1>7 DEF VerifyStep

LEMMA RevokeTruth ==
    ASSUME Serial, IInv, SerialInv, Tracked, Dying, NEW p \in Procs, RevokeStep(p)
    PROVE  Truth!Next
  <1>1. up
    BY OneRequest
  <1> USE DEF At, AcceptedPcs, RevokePcs
  <1>2. ASSUME RevokeReturns(p), owner' = owner,
               req[p].pc \in RevokePcs \/ req[p].op # "refresh"
        PROVE  Truth!Next
    <2>1. CASE req[p].op = "refresh"
      <3>1. Goto(p, "rv_row") /\ "rv_row" \in Pcs
        BY <1>2, <2>1 DEF RevokeReturns, Pcs
      <3> QED BY <1>2, <2>1, <3>1, GotoAcc, Kills
    <2>2. CASE req[p].op # "refresh"
      <3>1. Finish(p) /\ Acc(req[p]) = None
        BY <1>2, <2>2 DEF RevokeReturns, Acc
      <3> QED BY <1>2, <3>1, FinishAcc, Kills
    <2> QED BY <2>1, <2>2
  <1>3. CASE RevokeJti(p) \/ RevokeHash(p) \/ RevokeIndex(p)
    <2>1. PICK c \in {"rv_hash", "rv_index", "rv_set"} : Goto(p, c)
      BY <1>3 DEF RevokeJti, RevokeHash, RevokeIndex
    <2>2. /\ c \in Pcs /\ c \in AcceptedPcs /\ req[p].pc \in AcceptedPcs
          /\ owner' = owner
      BY <1>3, <2>1 DEF RevokeJti, RevokeHash, RevokeIndex, mysql, Pcs, RedisPcs
    <2> QED BY <2>1, <2>2, GotoAcc, Kills
  <1>4. CASE RevokeSet(p)
    BY <1>2, <1>4 DEF RevokeSet, mysql
  <1>5. CASE RevokeRow(p)
    <2>1. /\ Goto(p, "st_row") /\ "st_row" \in Pcs /\ req[p].pc = "rv_row"
          /\ owner' = owner
      BY <1>5 DEF RevokeRow, Pcs
    <2> QED BY <2>1, GotoAcc, Kills
  <1>6. CASE LogoutLookup(p)
    <2>1. req[p].op # "refresh" /\ owner' = owner
      BY <1>6 DEF LogoutLookup, mysql, IInv, RequestsSound, Sound
    <2>2. CASE req' = [req EXCEPT ![p].user = atJti[req[p].tok], ![p].pc = "rv_jti"]
      <3>1. \A q \in Procs : Acc(req'[q]) = Acc(req[q])
        BY <2>1, <2>2 DEF Acc, IInv, TypeOK, Request
      <3> QED BY <2>1, <3>1, Kills
    <2>3. CASE RevokeReturns(p)
      BY <1>2, <2>1, <2>3
    <2> QED BY <1>6, <2>2, <2>3 DEF LogoutLookup
  <1>7. CASE RevokeSkipped(p) \/ LogoutSkipped(p)
    BY <1>1, <1>7 DEF RevokeSkipped, LogoutSkipped
  <1> QED BY <1>3, <1>4, <1>5, <1>6, <1>7 DEF RevokeStep

(* Requests that are no refreshes kill tokens, or change nothing of them.   *)
LEMMA OtherTruth ==
    ASSUME IInv, Dying, NEW p \in Procs,
           RevokeAllStep(p) \/ ListStep(p) \/ TouchStep(p)
    PROVE  Truth!Next
  <1>1. req[p].op # "refresh"
    BY DEF IInv, RequestsSound, Sound, RevokeAllPcs, ListPcs, TouchPcs, At,
           RevokeAllStep, RevokeAllMembers, RevokeAllHash, RevokeAllSet, RevokeAllSkipped,
           RevokeAllRows, ListStep, ListMembers, ListGet, ListRemove, ListSkipped,
           TouchStep, TouchLookup, TouchExists, TouchSet, TouchSkipped
  <1>2. owner' = owner
    BY DEF mysql, RevokeAllStep, RevokeAllMembers, RevokeAllHash, RevokeAllSet,
           RevokeAllSkipped, RevokeAllRows, ListStep, ListMembers, ListGet, ListRemove,
           ListSkipped, TouchStep, TouchLookup, TouchExists, TouchSet, TouchSkipped
  <1>3. ASSUME NEW r, req' = [req EXCEPT ![p] = r], r.op \in {req[p].op, "none"}
        PROVE  /\ \A q \in Procs : q # p => req'[q] = req[q]
               /\ req'[p].op \in {req[p].op, "none"}
    BY <1>3 DEF IInv, TypeOK
  <1>4. /\ \A q \in Procs : q # p => req'[q] = req[q]
        /\ req'[p].op \in {req[p].op, "none"}
    <2> USE DEF IInv, TypeOK, Request, Goto
    <2>1. CASE Finish(p)
      BY <1>3, <2>1 DEF Finish, Idle
    <2>2. CASE RevokeAllMembers(p)
      BY <2>2 DEF RevokeAllMembers
    <2>3. CASE RevokeAllHash(p)
      BY <2>3 DEF RevokeAllHash
    <2>4. CASE RevokeAllSet(p) \/ RevokeAllSkipped(p)
      BY <2>4 DEF RevokeAllSet, RevokeAllSkipped
    <2>5. CASE ListMembers(p) \/ ListRemove(p)
      BY <2>5 DEF ListMembers, ListRemove
    <2>6. CASE ListGet(p) /\ ~Finish(p)
      <3>1. PICK t \in req[p].todo, c \in {"ls_get", "ls_rem"} :
               req' = [req EXCEPT ![p].todo = @ \ {t}, ![p].tok = t, ![p].pc = c]
        BY <2>6 DEF ListGet
      <3> QED BY <3>1
    <2>7. CASE TouchStep(p) /\ ~Finish(p)
      BY <2>7 DEF TouchStep, TouchLookup, TouchExists, TouchSet, TouchSkipped
    <2> QED BY <2>1, <2>2, <2>3, <2>4, <2>5, <2>6, <2>7
            DEF RevokeAllStep, RevokeAllRows, ListStep, ListSkipped
  <1>5. \A q \in Procs : Acc(req'[q]) = Acc(req[q])
    BY <1>1, <1>4 DEF Acc
  <1> QED BY <1>2, <1>5, Kills

LEMMA ArriveTruth ==
    ASSUME IInv, Dying, NEW p \in Procs, Arrive(p)
    PROVE  Truth!Next
  <1>1. ASSUME NEW r, Begin(p, r), r.op # "refresh" \/ r.pc = "vf_index"
        PROVE  Truth!Next
    <2>1. /\ req[p] = Idle /\ req'[p] = r /\ owner' = owner
          /\ \A q \in Procs : q # p => req'[q] = req[q]
      BY <1>1 DEF Begin, mysql, IInv, TypeOK
    <2>2. Acc(req[p]) = None /\ Acc(r) = None
      BY <1>1, <2>1 DEF Acc, Idle, AcceptedPcs, BackfillPcs, RevokePcs
    <2> QED BY <2>1, <2>2, Kills
  <1> USE DEF Idle
  <1>2. ASSUME NEW t \in Tokens, NEW n \in Tokens, Refresh(p, t, n) PROVE Truth!Next
    <2> DEFINE dead == ~Usable(t) \/ t \in out
               r == [Idle EXCEPT !.op = "refresh", !.pc = "vf_index", !.tok = t,
                                 !.new = n, !.late = dead]
    <2>1. Begin(p, r)
      BY <1>2 DEF Refresh
    <2> HIDE DEF dead
    <2>2. r.pc = "vf_index"
      OBVIOUS
    <2> HIDE DEF r
    <2> QED BY <1>1, <2>1, <2>2
  <1>3. ASSUME NEW u \in Users, NEW n \in Tokens, Login(p, u, n) PROVE Truth!Next
    BY <1>1, <1>3 DEF Login
  <1>4. ASSUME NEW t \in Tokens, Logout(p, t) \/ Touch(p, t) PROVE Truth!Next
    BY <1>1, <1>4 DEF Logout, Touch
  <1>5. ASSUME NEW u \in Users, NEW t \in Tokens, RevokeSession(p, u, t) PROVE Truth!Next
    BY <1>1, <1>5 DEF RevokeSession
  <1>6. ASSUME NEW u \in Users, LogoutAll(p, u) \/ ListSessions(p, u) PROVE Truth!Next
    BY <1>1, <1>6 DEF LogoutAll, ListSessions
  <1> QED BY <1>2, <1>3, <1>4, <1>5, <1>6 DEF Arrive

LEMMA NextTruth ==
    ASSUME Serial, IInv, IInv', SerialInv, SerialInv', [HNext]_hvars
    PROVE  Truth!Next
  <1>1. Dying
    BY DyingStep
  <1>2. ASSUME NEW p \in Procs, Step(p), Tracked PROVE Truth!Next
    BY <1>1, <1>2, StoreTruth, VerifyTruth, RevokeTruth, OtherTruth DEF Step
  <1>3. ASSUME Fault PROVE owner' = owner /\ req' = req
    <2>1. up /\ Faults \cap {"down", "command", "crash"} = {}
      BY DEF SerialInv, Serial
    <2> QED BY <1>3, <2>1 DEF Fault, RedisDown, RedisConnect, CommandFails, Crash, EvictHash,
                              EvictIndex, EvictJti, Expire, EvictSet, mysql
  <1>4. ASSUME (\E u \in Users : SetStatus(u)) \/ UNCHANGED hvars PROVE owner' = owner /\ req' = req
    BY <1>4 DEF SetStatus, hvars, vars, mysql
  <1>5. owner' = owner /\ req' = req => Truth!Next
    BY <1>1, Kills
  <1> QED BY <1>1, <1>2, <1>3, <1>4, <1>5, ArriveTruth DEF HNext, Tracked

LEMMA InitTruth == HInit => Truth!Init
  BY DEF HInit, Init, Truth!Init, Idle

-----------------------------------------------------------------------------
(* The theorems about one request at a time.                               *)

(* The record changes no behaviour of the code.                             *)
LEMMA RecordOnly == HSpec => Spec
  <1>1. HInit => Init
    BY DEF HInit
  <1>2. [HNext]_hvars => [Next]_vars
    BY DEF HNext, hvars, Next
  <1> QED BY <1>1, <1>2, PTL DEF HSpec, Spec

LEMMA SerialInvariance == ASSUME Serial PROVE HSpec => []SerialInv
  <1>1. IInv /\ IInv' /\ SerialInv /\ [HNext]_hvars => SerialInv'
    BY SerialStep
  <1> QED BY <1>1, SerialStart, RecordOnly, Invariance, PTL DEF HSpec

(* With requests one after the other, whichever key of Redis goes early, the *)
(* session sets included, and whichever token expires, the fast path of     *)
(* verifyRefreshToken accepts nothing MySQL would refuse, but for a token    *)
(* that was listed in a session set when the set went.                      *)
THEOREM QuiescentTruth == ASSUME Serial PROVE HSpec => []QuiescentAgreement
  <1>1. IInv /\ SerialInv => QuiescentAgreement
    BY DEF IInv, TypeOK, RedisFollowsMySQL, SerialInv, HashLives, Dead, QuiescentAgreement,
           FastPath, Usable
  <1> QED BY <1>1, RecordOnly, Invariance, SerialInvariance, PTL

(* ... every session it accepts is in the list revokeAllUserTokens goes by,  *)
(* unless the list went with it and it has not been written back since.     *)
THEOREM LiveListed == ASSUME Serial PROVE HSpec => []LiveSessionsAreListed
  <1>1. SerialInv => LiveSessionsAreListed
    BY IdleKnows DEF SerialInv, HashListed, Held, LiveSessionsAreListed, Quiet, FastPath
  <1> QED BY <1>1, SerialInvariance, PTL

(* ... and the two stores together implement the one store of RefreshTokens: *)
(* a refresh is accepted while its token is alive, and issues a successor   *)
(* after the token it was shown is dead, a token of a lost list dying no    *)
(* sooner than its hash.                                                    *)
THEOREM SessionsImplementTruth == ASSUME Serial PROVE HSpec => TruthSpec
  <1>1. /\ IInv /\ IInv' /\ SerialInv /\ SerialInv' /\ [HNext]_hvars
          => [Truth!Next]_(Truth!vars)
    BY NextTruth
  <1> QED BY <1>1, InitTruth, RecordOnly, Invariance, SerialInvariance, PTL
          DEF HSpec, TruthSpec, Truth!Spec
=============================================================================
