------------------------------ MODULE Sessions ------------------------------
(***************************************************************************)
(* Refresh-token sessions of gvray-admin: TokenService together with the   *)
(* parts of AuthService and OnlineUsersService that call it.               *)
(*                                                                         *)
(* A session lives in two places.  MySQL (owner, revoked, expired) is "the *)
(* source of truth"; Redis (hash, jtiField, rtIndex, atJti, sset) is what  *)
(* a refresh looks at first.  A request is a sequence of awaited commands; *)
(* every awaited command that another request can observe is one action,   *)
(* so requests interleave between any two of them.                         *)
(***************************************************************************)
EXTENDS Naturals

CONSTANTS
    Users,    \* user ids
    Tokens,   \* refresh tokens that can be generated (bound of the model); a
              \* token stands for its tokenHash and for the jti issued with it
    Procs,    \* requests in flight at the same time (bound of the model)
    None,     \* no user, no token
    Ops,      \* the kinds of request the clients send
    Faults    \* what can go wrong

AllOps == {"login", "refresh", "logout", "revoke", "logoutAll", "list", "touch", "status"}
AllFaults == {"down", "command", "crash", "evict", "evictSet", "expire"}

ASSUME ConstantsAssumption ==
    /\ None \notin Users
    /\ None \notin Tokens
    /\ Ops \subseteq AllOps
    /\ Faults \subseteq AllFaults

VARIABLES
    (* MySQL *)
    owner,     \* refresh_tokens.userId of the row of a token, None: no row
    revoked,   \* tokens whose row has isRevoked = true
    expired,   \* tokens whose expiresAt has passed
    enabled,   \* users with status 'enabled'
    (* Redis *)
    hash,      \* keys auth:refresh:{userId}:{tokenHash} that exist
    jtiField,  \* those of them that have the field accessTokenJti
    rtIndex,   \* auth:rt-index:{tokenHash} -> userId
    atJti,     \* auth:at-jti:{jti} -> userId (the hash is the token's own)
    sset,      \* auth:sessions:{userId}, a set of token hashes
    up,        \* RedisService._isAvailable
    (* requests and clients *)
    req,       \* what each request in flight has read and where it is
    given,     \* tokens a client has received in a response
    out        \* tokens whose logout or revocation was confirmed to a client

mysql == <<owner, revoked, expired, enabled>>
redis == <<hash, jtiField, rtIndex, atJti, sset>>
vars == <<mysql, redis, up, req, given, out>>

Keys == Users \X Tokens

-----------------------------------------------------------------------------
(* Requests.  pc is the next awaited command.                              *)

StorePcs == {"st_hash", "st_index", "st_jti", "st_set"}
LookupPcs == {"vf_index", "vf_hash"}
BackfillPcs == {"bf_hash", "bf_index", "bf_set"}
RevokePcs == {"rv_jti", "rv_hash", "rv_index", "rv_set"}
RevokeAllPcs == {"ra_members", "ra_del"}
ListPcs == {"ls_members", "ls_get", "ls_rem"}
TouchPcs == {"tc_get", "tc_exists", "tc_set"}
RedisPcs == StorePcs \cup LookupPcs \cup BackfillPcs \cup RevokePcs
              \cup RevokeAllPcs \cup ListPcs \cup TouchPcs \cup {"lo_get"}
Pcs == RedisPcs \cup {"idle", "st_row", "vf_row", "user", "rv_row", "ra_rows"}

Request == [op: AllOps \cup {"none"}, pc: Pcs,
            user: Users \cup {None},    \* the user the request acts for
            tok: Tokens \cup {None},    \* the token it was given or looks at
            new: Tokens \cup {None},    \* the token generateRefreshToken made
            todo: SUBSET Tokens,        \* what sMembers returned, not yet visited
            late: BOOLEAN]              \* tok was already dead when it arrived

Idle == [op |-> "none", pc |-> "idle", user |-> None, tok |-> None,
         new |-> None, todo |-> {}, late |-> FALSE]

At(p, pc) == req[p].pc = pc
Goto(p, pc) == req' = [req EXCEPT ![p].pc = pc]
Finish(p) == req' = [req EXCEPT ![p] = Idle]
Key(p) == <<req[p].user, req[p].tok>>
NewKey(p) == <<req[p].user, req[p].new>>

(* A token whose row verifyRefreshToken's query would find.                *)
Usable(t) == owner[t] # None /\ t \notin revoked /\ t \notin expired

(* What the fast path of verifyRefreshToken accepts.                       *)
FastPath(t) == rtIndex[t] # None /\ <<rtIndex[t], t>> \in hash

(* crypto.randomBytes: a token nobody has seen.                            *)
Fresh(t) == /\ owner[t] = None
            /\ \A q \in Procs : req[q].new # t

Begin(p, r) ==
    /\ req[p] = Idle
    /\ r.op \in Ops
    /\ req' = [req EXCEPT ![p] = r]
    /\ UNCHANGED <<mysql, redis, up, given, out>>

-----------------------------------------------------------------------------
(* Arrival of requests.                                                    *)

(* Mutant of Login: Redis is written and the row in MySQL is forgotten.     *)
LoginWithoutRow(p, u, n) ==
    /\ u \in enabled
    /\ Fresh(n)
    /\ Begin(p, [Idle EXCEPT !.op = "login", !.pc = "st_hash", !.user = u, !.new = n])

(* login: validateUser lets only enabled users through.                    *)
Login(p, u, n) ==
    /\ u \in enabled
    /\ Fresh(n)
    /\ Begin(p, [Idle EXCEPT !.op = "login", !.pc = "st_row", !.user = u, !.new = n])

Refresh(p, t, n) ==
    /\ t \in given
    /\ Fresh(n)
    /\ Begin(p, [Idle EXCEPT !.op = "refresh", !.pc = "vf_index", !.tok = t,
                             !.new = n, !.late = ~Usable(t) \/ t \in out])

(* The access token presented at logout carries the jti issued with t.     *)
Logout(p, t) ==
    /\ t \in given
    /\ Begin(p, [Idle EXCEPT !.op = "logout", !.pc = "lo_get", !.tok = t])

(* DELETE auth/sessions/:tokenHash and kickUserSession: both pass a user   *)
(* id and any token hash.                                                  *)
RevokeSession(p, u, t) ==
    /\ t \in given
    /\ Begin(p, [Idle EXCEPT !.op = "revoke", !.pc = "rv_jti", !.user = u, !.tok = t])

(* logoutAllDevices and kickUser.                                          *)
LogoutAll(p, u) ==
    Begin(p, [Idle EXCEPT !.op = "logoutAll", !.pc = "ra_members", !.user = u])

ListSessions(p, u) ==
    Begin(p, [Idle EXCEPT !.op = "list", !.pc = "ls_members", !.user = u])

Touch(p, t) ==
    /\ t \in given
    /\ Begin(p, [Idle EXCEPT !.op = "touch", !.pc = "tc_get", !.tok = t])

(* An administrator enables a user, or takes 'enabled' away from it.       *)
SetStatus(u) ==
    /\ "status" \in Ops
    /\ enabled' = IF u \in enabled THEN enabled \ {u} ELSE enabled \cup {u}
    /\ UNCHANGED <<owner, revoked, expired, redis, up, req, given, out>>

-----------------------------------------------------------------------------
(* storeRefreshToken: MySQL first, then the Redis hash (with its fields and *)
(* its TTL), the index, the reverse index of the jti, the session set.     *)

(* Mutant of StoreRow: the insert is not awaited, and is lost.              *)
StoreRowLost(p) ==
    /\ At(p, "st_row")
    /\ Goto(p, "st_hash")
    /\ UNCHANGED <<mysql, redis, up, given, out>>

StoreRow(p) ==
    /\ At(p, "st_row")
    /\ owner' = [owner EXCEPT ![req[p].new] = req[p].user]
    /\ Goto(p, "st_hash")
    /\ UNCHANGED <<revoked, expired, enabled, redis, up, given, out>>

StoreHash(p) ==
    /\ At(p, "st_hash") /\ up
    /\ hash' = hash \cup {NewKey(p)}
    /\ jtiField' = jtiField \cup {NewKey(p)}
    /\ Goto(p, "st_index")
    /\ UNCHANGED <<mysql, rtIndex, atJti, sset, up, given, out>>

(* Mutant of StoreIndex: the index maps the hash to itself.                 *)
StoreIndexSwapped(p) ==
    /\ At(p, "st_index") /\ up
    /\ rtIndex' = [rtIndex EXCEPT ![req[p].new] = req[p].new]
    /\ Goto(p, "st_jti")
    /\ UNCHANGED <<mysql, hash, jtiField, atJti, sset, up, given, out>>

StoreIndex(p) ==
    /\ At(p, "st_index") /\ up
    /\ rtIndex' = [rtIndex EXCEPT ![req[p].new] = req[p].user]
    /\ Goto(p, "st_jti")
    /\ UNCHANGED <<mysql, hash, jtiField, atJti, sset, up, given, out>>

StoreJti(p) ==
    /\ At(p, "st_jti") /\ up
    /\ atJti' = [atJti EXCEPT ![req[p].new] = req[p].user]
    /\ Goto(p, "st_set")
    /\ UNCHANGED <<mysql, hash, jtiField, rtIndex, sset, up, given, out>>

(* The last command; login and refreshAccessToken return the new token.    *)
StoreSet(p) ==
    /\ At(p, "st_set") /\ up
    /\ sset' = [sset EXCEPT ![req[p].user] = @ \cup {req[p].new}]
    /\ given' = given \cup {req[p].new}
    /\ Finish(p)
    /\ UNCHANGED <<mysql, hash, jtiField, rtIndex, atJti, up, out>>

(* Redis known to be unavailable: the store is skipped, the token returned. *)
StoreSkipped(p) ==
    /\ req[p].pc \in StorePcs /\ ~up
    /\ given' = given \cup {req[p].new}
    /\ Finish(p)
    /\ UNCHANGED <<mysql, redis, up, out>>

-----------------------------------------------------------------------------
(* verifyRefreshToken: index, hash, and on any miss the row in MySQL, whose *)
(* data is then written back to Redis (without the field accessTokenJti).  *)

LookupIndex(p) ==
    /\ At(p, "vf_index") /\ up
    /\ LET u == rtIndex[req[p].tok] IN
         req' = [req EXCEPT ![p].user = u,
                            ![p].pc = IF u # None THEN "vf_hash" ELSE "vf_row"]
    /\ UNCHANGED <<mysql, redis, up, given, out>>

LookupHash(p) ==
    /\ At(p, "vf_hash") /\ up
    /\ Goto(p, IF Key(p) \in hash THEN "user" ELSE "vf_row")
    /\ UNCHANGED <<mysql, redis, up, given, out>>

(* Mutant of LookupUnavailable: no fallback to MySQL.                       *)
LookupGivesUp(p) ==
    /\ req[p].pc \in LookupPcs /\ ~up
    /\ Finish(p)
    /\ UNCHANGED <<mysql, redis, up, given, out>>

LookupUnavailable(p) ==
    /\ req[p].pc \in LookupPcs /\ ~up
    /\ Goto(p, "vf_row")
    /\ UNCHANGED <<mysql, redis, up, given, out>>

(* Mutant of LookupRow: the query does not ask for isRevoked = false.       *)
LookupRowRevoked(p) ==
    /\ At(p, "vf_row")
    /\ req' = [req EXCEPT ![p].user = owner[req[p].tok], ![p].pc = "bf_hash"]
    /\ UNCHANGED <<mysql, redis, up, given, out>>

(* Mutant of LookupRow: the early return for a missing row is dropped.      *)
LookupRowNoReturn(p) ==
    /\ At(p, "vf_row")
    /\ \/ /\ Usable(req[p].tok)
          /\ req' = [req EXCEPT ![p].user = owner[req[p].tok], ![p].pc = "bf_hash"]
       \/ /\ ~Usable(req[p].tok)
          /\ Goto(p, "user")
    /\ UNCHANGED <<mysql, redis, up, given, out>>

LookupRow(p) ==
    /\ At(p, "vf_row")
    /\ \/ /\ Usable(req[p].tok)
          /\ req' = [req EXCEPT ![p].user = owner[req[p].tok], ![p].pc = "bf_hash"]
       \/ /\ ~Usable(req[p].tok)
          /\ Finish(p)
    /\ UNCHANGED <<mysql, redis, up, given, out>>

BackfillHash(p) ==
    /\ At(p, "bf_hash") /\ up
    /\ hash' = hash \cup {Key(p)}
    /\ Goto(p, "bf_index")
    /\ UNCHANGED <<mysql, jtiField, rtIndex, atJti, sset, up, given, out>>

BackfillIndex(p) ==
    /\ At(p, "bf_index") /\ up
    /\ rtIndex' = [rtIndex EXCEPT ![req[p].tok] = req[p].user]
    /\ Goto(p, "bf_set")
    /\ UNCHANGED <<mysql, hash, jtiField, atJti, sset, up, given, out>>

(* Mutant of BackfillSet: the session set is not written back.              *)
BackfillNoSet(p) ==
    /\ At(p, "bf_set") /\ up
    /\ Goto(p, "user")
    /\ UNCHANGED <<mysql, redis, up, given, out>>

BackfillSet(p) ==
    /\ At(p, "bf_set") /\ up
    /\ sset' = [sset EXCEPT ![req[p].user] = @ \cup {req[p].tok}]
    /\ Goto(p, "user")
    /\ UNCHANGED <<mysql, hash, jtiField, rtIndex, atJti, up, given, out>>

BackfillSkipped(p) ==
    /\ req[p].pc \in BackfillPcs /\ ~up
    /\ Goto(p, "user")
    /\ UNCHANGED <<mysql, redis, up, given, out>>

(* refreshAccessToken after verify: the user must exist and be enabled.    *)
CheckUser(p) ==
    /\ At(p, "user")
    /\ \/ req[p].user \in enabled /\ Goto(p, "rv_jti")
       \/ req[p].user \notin enabled /\ Finish(p)
    /\ UNCHANGED <<mysql, redis, up, given, out>>

-----------------------------------------------------------------------------
(* revokeRefreshTokenByHash: Redis only.  A refresh goes on to MySQL        *)
(* (revokeRefreshToken); logout and revokeSession answer the client.       *)

RevokeReturns(p) ==
    IF req[p].op = "refresh"
    THEN Goto(p, "rv_row") /\ UNCHANGED out
    ELSE Finish(p) /\ out' = out \cup {req[p].tok}

RevokeJti(p) ==
    /\ At(p, "rv_jti") /\ up
    /\ atJti' = IF Key(p) \in jtiField THEN [atJti EXCEPT ![req[p].tok] = None] ELSE atJti
    /\ Goto(p, "rv_hash")
    /\ UNCHANGED <<mysql, hash, jtiField, rtIndex, sset, up, given, out>>

RevokeHash(p) ==
    /\ At(p, "rv_hash") /\ up
    /\ hash' = hash \ {Key(p)}
    /\ jtiField' = jtiField \ {Key(p)}
    /\ Goto(p, "rv_index")
    /\ UNCHANGED <<mysql, rtIndex, atJti, sset, up, given, out>>

RevokeIndex(p) ==
    /\ At(p, "rv_index") /\ up
    /\ rtIndex' = [rtIndex EXCEPT ![req[p].tok] = None]
    /\ Goto(p, "rv_set")
    /\ UNCHANGED <<mysql, hash, jtiField, atJti, sset, up, given, out>>

RevokeSet(p) ==
    /\ At(p, "rv_set") /\ up
    /\ sset' = [sset EXCEPT ![req[p].user] = @ \ {req[p].tok}]
    /\ RevokeReturns(p)
    /\ UNCHANGED <<mysql, hash, jtiField, rtIndex, atJti, up, given>>

(* Every error of these commands is caught and the request goes on.        *)
RevokeSkipped(p) ==
    /\ req[p].pc \in RevokePcs /\ ~up
    /\ RevokeReturns(p)
    /\ UNCHANGED <<mysql, redis, up, given>>

RevokeRow(p) ==
    /\ At(p, "rv_row")
    /\ revoked' = revoked \cup {req[p].tok}
    /\ Goto(p, "st_row")
    /\ UNCHANGED <<owner, expired, enabled, redis, up, given, out>>

(* revokeByAccessTokenJti: no mapping, nothing to revoke, still a success. *)
LogoutLookup(p) ==
    /\ At(p, "lo_get") /\ up
    /\ LET u == atJti[req[p].tok] IN
         \/ /\ u # None
            /\ req' = [req EXCEPT ![p].user = u, ![p].pc = "rv_jti"]
            /\ UNCHANGED out
         \/ /\ u = None
            /\ RevokeReturns(p)
    /\ UNCHANGED <<mysql, redis, up, given>>

LogoutSkipped(p) ==
    /\ At(p, "lo_get") /\ ~up
    /\ RevokeReturns(p)
    /\ UNCHANGED <<mysql, redis, up, given>>

-----------------------------------------------------------------------------
(* revokeAllUserTokens: the hashes listed in the session set one by one     *)
(* (not their indexes), the set, then every row of the user.               *)

RevokeAllMembers(p) ==
    /\ At(p, "ra_members") /\ up
    /\ req' = [req EXCEPT ![p].todo = sset[req[p].user], ![p].pc = "ra_del"]
    /\ UNCHANGED <<mysql, redis, up, given, out>>

(* Mutant of RevokeAllHash: the hash is kept.                               *)
RevokeAllKeepsHash(p) ==
    /\ At(p, "ra_del") /\ up
    /\ \E t \in req[p].todo : req' = [req EXCEPT ![p].todo = @ \ {t}]
    /\ UNCHANGED <<mysql, redis, up, given, out>>

RevokeAllHash(p) ==
    /\ At(p, "ra_del") /\ up
    /\ \E t \in req[p].todo :
         /\ hash' = hash \ {<<req[p].user, t>>}
         /\ jtiField' = jtiField \ {<<req[p].user, t>>}
         /\ req' = [req EXCEPT ![p].todo = @ \ {t}]
    /\ UNCHANGED <<mysql, rtIndex, atJti, sset, up, given, out>>

RevokeAllSet(p) ==
    /\ At(p, "ra_del") /\ up /\ req[p].todo = {}
    /\ sset' = [sset EXCEPT ![req[p].user] = {}]
    /\ Goto(p, "ra_rows")
    /\ UNCHANGED <<mysql, hash, jtiField, rtIndex, atJti, up, given, out>>

RevokeAllSkipped(p) ==
    /\ req[p].pc \in RevokeAllPcs /\ ~up
    /\ Goto(p, "ra_rows")
    /\ UNCHANGED <<mysql, redis, up, given, out>>

(* Mutant of RevokeAllRows: the rows are deleted, not marked.               *)
RevokeAllDeletes(p) ==
    /\ At(p, "ra_rows")
    /\ owner' = [t \in Tokens |-> IF owner[t] = req[p].user THEN None ELSE owner[t]]
    /\ Finish(p)
    /\ UNCHANGED <<revoked, expired, enabled, redis, up, given, out>>

RevokeAllRows(p) ==
    /\ At(p, "ra_rows")
    /\ revoked' = revoked \cup {t \in Tokens : owner[t] = req[p].user}
    /\ Finish(p)
    /\ UNCHANGED <<owner, expired, enabled, redis, up, given, out>>

-----------------------------------------------------------------------------
(* getUserSessions: references whose hash is gone are removed on the way.  *)

ListMembers(p) ==
    /\ At(p, "ls_members") /\ up
    /\ req' = [req EXCEPT ![p].todo = sset[req[p].user], ![p].pc = "ls_get"]
    /\ UNCHANGED <<mysql, redis, up, given, out>>

ListGet(p) ==
    /\ At(p, "ls_get") /\ up
    /\ \/ \E t \in req[p].todo :
            req' = [req EXCEPT ![p].todo = @ \ {t},
                               ![p].tok = t,
                               ![p].pc = IF <<req[p].user, t>> \in hash
                                         THEN "ls_get" ELSE "ls_rem"]
       \/ req[p].todo = {} /\ Finish(p)
    /\ UNCHANGED <<mysql, redis, up, given, out>>

ListRemove(p) ==
    /\ At(p, "ls_rem") /\ up
    /\ sset' = [sset EXCEPT ![req[p].user] = @ \ {req[p].tok}]
    /\ Goto(p, "ls_get")
    /\ UNCHANGED <<mysql, hash, jtiField, rtIndex, atJti, up, given, out>>

ListSkipped(p) ==
    /\ req[p].pc \in ListPcs /\ ~up
    /\ Finish(p)
    /\ UNCHANGED <<mysql, redis, up, given, out>>

-----------------------------------------------------------------------------
(* touchSessionByJti: exists, then hSet, which creates the key if it went  *)
(* away in between.                                                        *)

TouchLookup(p) ==
    /\ At(p, "tc_get") /\ up
    /\ LET u == atJti[req[p].tok] IN
         \/ u # None /\ req' = [req EXCEPT ![p].user = u, ![p].pc = "tc_exists"]
         \/ u = None /\ Finish(p)
    /\ UNCHANGED <<mysql, redis, up, given, out>>

TouchExists(p) ==
    /\ At(p, "tc_exists") /\ up
    /\ \/ Key(p) \in hash /\ Goto(p, "tc_set")
       \/ Key(p) \notin hash /\ Finish(p)
    /\ UNCHANGED <<mysql, redis, up, given, out>>

TouchSet(p) ==
    /\ At(p, "tc_set") /\ up
    /\ hash' = hash \cup {Key(p)}
    /\ Finish(p)
    /\ UNCHANGED <<mysql, jtiField, rtIndex, atJti, sset, up, given, out>>

TouchSkipped(p) ==
    /\ req[p].pc \in TouchPcs /\ ~up
    /\ Finish(p)
    /\ UNCHANGED <<mysql, redis, up, given, out>>

-----------------------------------------------------------------------------
(* What goes wrong around the requests.                                    *)

(* The client reports 'error' or 'end', and later 'connect'.  The data of  *)
(* Redis survives: docker-compose keeps it in a volume.                    *)
RedisDown ==
    /\ "down" \in Faults /\ up
    /\ up' = FALSE
    /\ UNCHANGED <<mysql, redis, req, given, out>>

RedisConnect ==
    /\ ~up
    /\ up' = TRUE
    /\ UNCHANGED <<mysql, redis, req, given, out>>

(* safeRun: a command fails, the flag goes down and the error is rethrown  *)
(* as it is.  Revocations swallow it; every other operation ends with it.  *)
CommandFails(p) ==
    /\ "command" \in Faults /\ up
    /\ up' = FALSE
    /\ \/ req[p].pc \in StorePcs \cup LookupPcs \cup BackfillPcs \cup ListPcs \cup TouchPcs
          /\ Finish(p) /\ UNCHANGED out
       \/ req[p].pc \in RevokePcs \cup {"lo_get"} /\ RevokeReturns(p)
       \/ req[p].pc \in RevokeAllPcs /\ Goto(p, "ra_rows") /\ UNCHANGED out
    /\ UNCHANGED <<mysql, redis, given>>

(* The process dies, or MySQL throws, before the request's next command.   *)
Crash(p) ==
    /\ "crash" \in Faults
    /\ req[p] # Idle
    /\ Finish(p)
    /\ UNCHANGED <<mysql, redis, up, given, out>>

(* A key of Redis goes early: maxmemory, or the cache monitor's clearCache. *)
EvictHash(k) ==
    /\ "evict" \in Faults
    /\ k \in hash
    /\ hash' = hash \ {k}
    /\ jtiField' = jtiField \ {k}
    /\ UNCHANGED <<mysql, rtIndex, atJti, sset, up, req, given, out>>

EvictIndex(t) ==
    /\ "evict" \in Faults
    /\ rtIndex[t] # None
    /\ rtIndex' = [rtIndex EXCEPT ![t] = None]
    /\ UNCHANGED <<mysql, hash, jtiField, atJti, sset, up, req, given, out>>

EvictJti(t) ==
    /\ "evict" \in Faults
    /\ atJti[t] # None
    /\ atJti' = [atJti EXCEPT ![t] = None]
    /\ UNCHANGED <<mysql, hash, jtiField, rtIndex, sset, up, req, given, out>>

(* The session set can go before its members: the backfill of an old token *)
(* shortens the TTL the set had from a newer one.  The TTL lies days ahead, *)
(* so the set goes at any later moment.                                    *)
EvictSet(u) ==
    /\ "evictSet" \in Faults
    /\ sset[u] # {}
    /\ sset' = [sset EXCEPT ![u] = {}]
    /\ UNCHANGED <<mysql, hash, jtiField, rtIndex, atJti, up, req, given, out>>

(* The lifetime of a refresh token ends, in MySQL and for the keys of its  *)
(* own.  A request is short beside it: no request holds the token.         *)
Expire(t) ==
    /\ "expire" \in Faults
    /\ t \in given \ expired
    /\ \A p \in Procs : t # req[p].tok /\ t \notin req[p].todo
    /\ expired' = expired \cup {t}
    /\ hash' = {k \in hash : k[2] # t}
    /\ jtiField' = {k \in jtiField : k[2] # t}
    /\ rtIndex' = [rtIndex EXCEPT ![t] = None]
    /\ atJti' = [atJti EXCEPT ![t] = None]
    /\ UNCHANGED <<owner, revoked, enabled, sset, up, req, given, out>>

-----------------------------------------------------------------------------
Init ==
    /\ owner = [t \in Tokens |-> None]
    /\ revoked = {} /\ expired = {}
    /\ enabled = Users
    /\ hash = {} /\ jtiField = {}
    /\ rtIndex = [t \in Tokens |-> None]
    /\ atJti = [t \in Tokens |-> None]
    /\ sset = [u \in Users |-> {}]
    /\ up = TRUE
    /\ req = [p \in Procs |-> Idle]
    /\ given = {} /\ out = {}

Arrive(p) ==
    \/ \E u \in Users, n \in Tokens : Login(p, u, n)
    \/ \E t \in Tokens, n \in Tokens : Refresh(p, t, n)
    \/ \E t \in Tokens : Logout(p, t)
    \/ \E u \in Users, t \in Tokens : RevokeSession(p, u, t)
    \/ \E u \in Users : LogoutAll(p, u)
    \/ \E u \in Users : ListSessions(p, u)
    \/ \E t \in Tokens : Touch(p, t)

StoreStep(p) == StoreRow(p) \/ StoreHash(p) \/ StoreIndex(p) \/ StoreJti(p)
                  \/ StoreSet(p) \/ StoreSkipped(p)
VerifyStep(p) == LookupIndex(p) \/ LookupHash(p) \/ LookupUnavailable(p)
                   \/ LookupRow(p) \/ BackfillHash(p) \/ BackfillIndex(p)
                   \/ BackfillSet(p) \/ BackfillSkipped(p) \/ CheckUser(p)
RevokeStep(p) == RevokeJti(p) \/ RevokeHash(p) \/ RevokeIndex(p) \/ RevokeSet(p)
                   \/ RevokeSkipped(p) \/ RevokeRow(p)
                   \/ LogoutLookup(p) \/ LogoutSkipped(p)
RevokeAllStep(p) == RevokeAllMembers(p) \/ RevokeAllHash(p) \/ RevokeAllSet(p)
                      \/ RevokeAllSkipped(p) \/ RevokeAllRows(p)
ListStep(p) == ListMembers(p) \/ ListGet(p) \/ ListRemove(p) \/ ListSkipped(p)
TouchStep(p) == TouchLookup(p) \/ TouchExists(p) \/ TouchSet(p) \/ TouchSkipped(p)

(* What the server does of its own for a request that has arrived.         *)
Step(p) == StoreStep(p) \/ VerifyStep(p) \/ RevokeStep(p) \/ RevokeAllStep(p)
             \/ ListStep(p) \/ TouchStep(p)

Fault == \/ RedisDown \/ RedisConnect
         \/ \E p \in Procs : CommandFails(p) \/ Crash(p)
         \/ \E k \in Keys : EvictHash(k)
         \/ \E t \in Tokens : EvictIndex(t) \/ EvictJti(t) \/ Expire(t)
         \/ \E u \in Users : EvictSet(u)

Next == \/ \E p \in Procs : Arrive(p) \/ Step(p)
        \/ \E u \in Users : SetStatus(u)
        \/ Fault

Spec == Init /\ [][Next]_vars

(* Node runs every awaited continuation: a request that has arrived goes   *)
(* on.  Nothing is assumed of clients, of time or of Redis coming back.    *)
FairSpec == Spec /\ \A p \in Procs : WF_vars(Step(p))

-----------------------------------------------------------------------------
(* Properties.                                                             *)

TypeOK ==
    /\ owner \in [Tokens -> Users \cup {None}]
    /\ revoked \subseteq Tokens /\ expired \subseteq Tokens
    /\ enabled \subseteq Users
    /\ hash \subseteq Keys /\ jtiField \subseteq Keys
    /\ rtIndex \in [Tokens -> Users \cup {None}]
    /\ atJti \in [Tokens -> Users \cup {None}]
    /\ sset \in [Users -> SUBSET Tokens]
    /\ up \in BOOLEAN
    /\ req \in [Procs -> Request]
    /\ given \subseteq Tokens /\ out \subseteq Tokens

(* Every key of Redis, and every entry of a session set, names a token that *)
(* has a row in MySQL, under the user of that row: storeRefreshToken writes *)
(* MySQL first and the backfill copies what it read there.                 *)
RedisFollowsMySQL ==
    /\ \A k \in hash : owner[k[2]] = k[1]
    /\ \A t \in Tokens : rtIndex[t] # None => owner[t] = rtIndex[t]
    /\ \A t \in Tokens : atJti[t] # None => owner[t] = atJti[t]
    /\ \A u \in Users : \A t \in sset[u] : owner[t] = u

(* "Otherwise a token would be issued that cannot be verified": a client    *)
(* never holds a token without a row, whatever failed while it was stored. *)
GivenTokensHaveRows == \A t \in given : owner[t] # None

(* refreshAccessToken mints for the owner of the token it was shown, on     *)
(* whichever path verifyRefreshToken found that owner.                     *)
MintsForOwner ==
    \A p \in Procs :
        req[p].op = "refresh" /\ req[p].pc \in {"user", "rv_row", "st_row"} \cup RevokePcs
          => req[p].user = owner[req[p].tok]

(* A token that was dead in MySQL, or whose revocation had been confirmed   *)
(* to a client, when a refresh with it arrived is not accepted.            *)
RevokedNeverAccepted == \A p \in Procs : At(p, "user") => ~req[p].late

(* isRevoked is never reset and a row never changes hands.                 *)
RevocationIsFinal ==
    [][revoked \subseteq revoked' /\ \A t \in Tokens : owner[t] # None => owner'[t] = owner[t]]_mysql

(* A refresh that arrives with a usable token ends with the new token in    *)
(* the client's hands, Redis available or not.                             *)
RefreshSucceeds ==
    \A p \in Procs, n \in Tokens :
        (req[p].op = "refresh" /\ ~req[p].late /\ req[p].new = n) ~> n \in given
=============================================================================
