------------------------------- MODULE Cached -------------------------------
(***************************************************************************)
(* The declarative cache of gvray-admin: methods marked @Cacheable and     *)
(* @CacheEvict, which CacheableExplorer wraps (redis/cacheable.explorer.ts),*)
(* and the services that use it: DictionariesService, ConfigsService and,  *)
(* through isFeatureEnabled, FeatureFlagGuard.                             *)
(*                                                                         *)
(* A call reads and checks on arrival, commits, then evicts; every command *)
(* of Redis is a step.  Of a dictionary item the model keeps its type (a    *)
(* disabled one is as good as removed), of the table configs one row, the   *)
(* flag feature.register.                                                  *)
(***************************************************************************)
EXTENDS Naturals

CONSTANTS
    TypeIds,      \* ids of dictionary types
    TypeCodes,    \* their codes
    Items,        \* ids of dictionary items
    SeedTypes,    \* the pairs <<type, code>> and <<item, code>> the seed creates
    SeedItems,
    Clients,      \* calls in flight at the same time (bound of the model)
    Operations,   \* the kinds of call
    MaxWrites,    \* writes per behaviour (bound of the model)
    CacheFaults   \* what can go wrong

DictWrites == {"createType", "updateType", "removeType", "removeTypes",
               "createItem", "updateItem", "removeItem", "removeItems"}
ConfigWrites == {"create", "update", "remove"}
AllOperations == {"get"} \cup DictWrites \cup ConfigWrites
AllCacheFaults == {"down", "command", "crash"}

(* sys:dict:items:{code}; sys:config:key:{key} and the lists                *)
(* sys:config:group:{group}, sys:config:runtime and :runtime:public, of     *)
(* which one stands for all; sys:feature:register.                         *)
DictKey(c) == <<"dict", c>>
DictKeys == {DictKey(c) : c \in TypeCodes}
ConfigKey == <<"config", "key">>
ConfigKeys == {ConfigKey, <<"config", "list">>}
FeatureKey == <<"feature", "register">>
Keys == DictKeys \cup ConfigKeys \cup {FeatureKey}

Settings == {"absent", "off", "on"}
Values == SUBSET (Items \cup Settings)

ASSUME CachedAssumption ==
    /\ Operations \subseteq AllOperations /\ CacheFaults \subseteq AllCacheFaults
    /\ MaxWrites \in Nat
    /\ SeedTypes \subseteq TypeIds \X TypeCodes /\ SeedItems \subseteq Items \X TypeCodes

VARIABLES
    types,      \* dictionary_types: pairs <<typeId, code>>
    items,      \* dictionary_items: pairs <<itemId, typeCode>>
    config,     \* the value of the row feature.register
    entry,      \* Redis: what is cached under each key, and whether it expires
    redisUp,    \* RedisService._isAvailable
    call,       \* the calls in flight
    writes,     \* how many have been submitted
    disturbed   \* history: calls have overlapped, or an eviction was lost, since
                \* the cache was last seen empty with no call in flight

db == <<types, items, config>>
cachedVars == <<db, entry, redisUp, call, writes, disturbed>>

CallPcs == {"idle", "get", "load", "put", "commit", "scan", "del"}
NoCall == [op |-> "none", pc |-> "idle", keys |-> {}, ids |-> {}, codes |-> {}, value |-> {}]
Calls == [op: AllOperations \cup {"none"}, pc: CallPcs, keys: SUBSET Keys,
          ids: SUBSET (TypeIds \cup Items), codes: SUBSET TypeCodes, value: Values]

Empty == [held |-> FALSE, value |-> {}, expires |-> FALSE]
Entries == [held: BOOLEAN, value: Values, expires: BOOLEAN]
Held(k) == entry[k].held

At(p, l) == call[p].pc = l
Return(p) == call' = [call EXCEPT ![p] = NoCall]
Proceed(p, l) == call' = [call EXCEPT ![p].pc = l]
Silent == \A p \in Clients : call[p] = NoCall

(* prisma/seeds: dictionaries.ts, configs.ts.                              *)
CachedInit ==
    /\ types = SeedTypes /\ items = SeedItems /\ config = "off"
    /\ entry = [k \in Keys |-> Empty]
    /\ redisUp = TRUE
    /\ call = [p \in Clients |-> NoCall]
    /\ writes = 0
    /\ disturbed = FALSE

Submit(p, new) ==
    /\ call[p] = NoCall
    /\ new.op \in Operations
    /\ call' = [call EXCEPT ![p] = new]
    /\ disturbed' = (disturbed \/ ~Silent)
    /\ UNCHANGED <<db, entry, redisUp>>

-----------------------------------------------------------------------------
(* @Cacheable                                                              *)

(* What the methods answer; those that find nothing throw (NotFound).       *)
Answer(k) ==
    CASE k \in DictKeys -> {i \in Items : <<i, k[2]>> \in items}
      [] k \in ConfigKeys -> {config} \ {"absent"}
      [] k = FeatureKey -> {config} \cap {"on"}

Found(k) ==
    /\ k \in DictKeys => \E t \in TypeIds : <<t, k[2]>> \in types
    /\ k = ConfigKey => config # "absent"

Get(p, k) ==
    /\ Submit(p, [NoCall EXCEPT !.op = "get", !.pc = "get", !.keys = {k}])
    /\ UNCHANGED writes

(* A hit is returned; after a miss, or without Redis, the method runs.      *)
CacheGet(p) ==
    /\ At(p, "get")
    /\ \E k \in call[p].keys : IF redisUp /\ Held(k) THEN Return(p) ELSE Proceed(p, "load")
    /\ UNCHANGED <<db, entry, redisUp, writes, disturbed>>

Load(p) ==
    /\ At(p, "load")
    /\ \E k \in call[p].keys :
          IF Found(k) THEN call' = [call EXCEPT ![p].pc = "put", ![p].value = Answer(k)]
                      ELSE Return(p)
    /\ UNCHANGED <<db, entry, redisUp, writes, disturbed>>

(* computeTtl, or nullTtl with NULL_MARKER for an empty list: positive.     *)
Stored(v) == [held |-> TRUE, value |-> v, expires |-> TRUE]

(* Mutant of CachePut: SET without EX.                                     *)
CachePutForever(p) ==
    /\ At(p, "put")
    /\ \E k \in call[p].keys :
          entry' = IF redisUp
                   THEN [entry EXCEPT ![k] = [Stored(call[p].value) EXCEPT !.expires = FALSE]]
                   ELSE entry
    /\ Return(p)
    /\ UNCHANGED <<db, redisUp, writes, disturbed>>

CachePut(p) ==
    /\ At(p, "put")
    /\ \E k \in call[p].keys :
          entry' = IF redisUp THEN [entry EXCEPT ![k] = Stored(call[p].value)] ELSE entry
    /\ Return(p)
    /\ UNCHANGED <<db, redisUp, writes, disturbed>>

-----------------------------------------------------------------------------
(* Arrival of a write that passes its checks; one that fails them does not  *)
(* matter.  The methods for many are those for one with more ids, and no    *)
(* check that the rows exist.                                              *)

Write(p, o, ids, codes, value) ==
    /\ writes < MaxWrites
    /\ writes' = writes + 1
    /\ Submit(p, [op |-> o, pc |-> "commit", keys |-> {}, ids |-> ids, codes |-> codes,
                  value |-> value])

CodesOfTypes(ts) == {c \in TypeCodes : \E t \in ts : <<t, c>> \in types}
ItemsIn(cs) == {x \in items : x[2] \in cs}
Ids(rows) == {x[1] : x \in rows}
Used(c) == c \in CodesOfTypes(TypeIds)

(* A new id is a uuid.                                                     *)
New(rows, x) == x \notin Ids(rows) /\ \A q \in Clients : x \notin call[q].ids

CreateDictionaryType(p, t, c) ==
    New(types, t) /\ ~Used(c) /\ Write(p, "createType", {t}, {c}, {})

UpdateDictionaryType(p, t, c) ==
    /\ t \in Ids(types)
    /\ Used(c) => <<t, c>> \in types
    /\ Write(p, "updateType", {t}, {c}, {})

(* removeDictionaryType and removeManyDictionaryTypes                       *)
RemoveDictionaryTypes(p, ts, many) ==
    /\ many \/ ts \subseteq Ids(types)
    /\ ItemsIn(CodesOfTypes(ts)) = {}
    /\ Write(p, IF many THEN "removeTypes" ELSE "removeType", ts, {}, {})

CreateDictionaryItem(p, i, c) ==
    New(items, i) /\ Used(c) /\ Write(p, "createItem", {i}, {c}, {})

(* The new typeCode is not looked up: MySQL has no foreign keys.            *)
UpdateDictionaryItem(p, i, c) ==
    i \in Ids(items) /\ Write(p, "updateItem", {i}, {c}, {})

(* removeDictionaryItem and removeManyDictionaryItems                       *)
RemoveDictionaryItems(p, is, many) ==
    /\ many \/ is \subseteq Ids(items)
    /\ Write(p, IF many THEN "removeItems" ELSE "removeItem", is, {}, {})

(* ConfigsService, called by a super admin; removeMany is as remove.       *)
CreateConfig(p, v) == v # "absent" /\ Write(p, "create", {}, {}, {v})
UpdateConfig(p, v) == config # "absent" /\ v # "absent" /\ Write(p, "update", {}, {}, {v})
RemoveConfig(p) == config # "absent" /\ Write(p, "remove", {}, {}, {"absent"})

-----------------------------------------------------------------------------
(* The commits.  A unique index, or a row that has gone meanwhile, makes    *)
(* the statement fail, and with it the request: nothing is evicted.        *)

(* The eviction of a pattern scans for its keys, that of a key does not.    *)
Evict(p, pattern) == call' = [call EXCEPT ![p].pc = "scan", ![p].keys = pattern]
EvictKey(p, k) == call' = [call EXCEPT ![p].pc = "del", ![p].keys = {k}]

Commit(p, ops) ==
    /\ At(p, "commit") /\ call[p].op \in ops
    /\ UNCHANGED <<entry, redisUp, writes, disturbed>>

(* Mutant of TypeCreate: id and code are swapped.                           *)
TypeCreateSwapped(p) ==
    /\ Commit(p, {"createType"})
    /\ types' = types \cup (call[p].codes \X call[p].ids)
    /\ Evict(p, DictKeys)
    /\ UNCHANGED <<items, config>>

TypeCreate(p) ==
    /\ Commit(p, {"createType"})
    /\ LET w == call[p] IN
         IF w.codes \cap CodesOfTypes(TypeIds) = {}
         THEN types' = types \cup (w.ids \X w.codes) /\ Evict(p, DictKeys)
         ELSE Return(p) /\ UNCHANGED types
    /\ UNCHANGED <<items, config>>

(* Prisma emulates the relation: items follow a new code (onUpdate: Cascade) *)
(* and go with their type (onDelete: Cascade).                             *)
TypeUpdate(p) ==
    /\ Commit(p, {"updateType"})
    /\ LET w == call[p]
           old == CodesOfTypes(w.ids) IN
         IF w.ids \subseteq Ids(types) /\ w.codes \cap CodesOfTypes(TypeIds \ w.ids) = {}
         THEN /\ types' = {x \in types : x[1] \notin w.ids} \cup (w.ids \X w.codes)
              /\ items' = (items \ ItemsIn(old)) \cup (Ids(ItemsIn(old)) \X w.codes)
              /\ Evict(p, DictKeys)
         ELSE Return(p) /\ UNCHANGED <<types, items>>
    /\ UNCHANGED config

TypesRemove(p) ==
    /\ Commit(p, {"removeType", "removeTypes"})
    /\ LET w == call[p] IN
         IF w.op = "removeTypes" \/ w.ids \subseteq Ids(types)
         THEN /\ types' = {x \in types : x[1] \notin w.ids}
              /\ items' = items \ ItemsIn(CodesOfTypes(w.ids))
              /\ Evict(p, DictKeys)
         ELSE Return(p) /\ UNCHANGED <<types, items>>
    /\ UNCHANGED config

(* Mutant of ItemCreate: the pattern is taken for a key.                    *)
ItemCreateEvictsNothing(p) ==
    /\ Commit(p, {"createItem"})
    /\ items' = items \cup (call[p].ids \X call[p].codes)
    /\ call' = [call EXCEPT ![p].pc = "del", ![p].keys = {}]
    /\ UNCHANGED <<types, config>>

ItemCreate(p) ==
    /\ Commit(p, {"createItem"})
    /\ items' = items \cup (call[p].ids \X call[p].codes)
    /\ \E c \in call[p].codes : EvictKey(p, DictKey(c))
    /\ UNCHANGED <<types, config>>

ItemUpdate(p) ==
    /\ Commit(p, {"updateItem"})
    /\ LET w == call[p] IN
         IF w.ids \subseteq Ids(items)
         THEN /\ items' = {x \in items : x[1] \notin w.ids} \cup (w.ids \X w.codes)
              /\ Evict(p, DictKeys)
         ELSE Return(p) /\ UNCHANGED items
    /\ UNCHANGED <<types, config>>

ItemsRemove(p) ==
    /\ Commit(p, {"removeItem", "removeItems"})
    /\ LET w == call[p] IN
         IF w.op = "removeItems" \/ w.ids \subseteq Ids(items)
         THEN items' = {x \in items : x[1] \notin w.ids} /\ Evict(p, DictKeys)
         ELSE Return(p) /\ UNCHANGED items
    /\ UNCHANGED <<types, config>>

(* sys:feature:* is not among the keys of the pattern sys:config:*.         *)
ConfigWrite(p) ==
    /\ Commit(p, ConfigWrites)
    /\ LET w == call[p] IN
         IF w.op = "create" <=> config = "absent"
         THEN config' \in w.value /\ Evict(p, ConfigKeys)
         ELSE Return(p) /\ UNCHANGED config
    /\ UNCHANGED <<types, items>>

-----------------------------------------------------------------------------
(* doEvict.  While Redis is unavailable scanIterator ends at once and del   *)
(* throws what CacheService swallows: the request succeeds all the same.    *)

(* All keys in one batch: COUNT is 100.                                    *)
CacheScan(p) ==
    /\ At(p, "scan")
    /\ LET found == {k \in call[p].keys : Held(k)} IN
         IF redisUp /\ found # {}
         THEN call' = [call EXCEPT ![p].pc = "del", ![p].keys = found]
         ELSE Return(p)
    /\ disturbed' = (disturbed \/ ~redisUp)
    /\ UNCHANGED <<db, entry, redisUp, writes>>

Without(ks) == [k \in Keys |-> IF k \in ks THEN Empty ELSE entry[k]]

CacheDel(p) ==
    /\ At(p, "del")
    /\ entry' = IF redisUp THEN Without(call[p].keys) ELSE entry
    /\ Return(p)
    /\ disturbed' = (disturbed \/ ~redisUp)
    /\ UNCHANGED <<db, redisUp, writes>>

-----------------------------------------------------------------------------
(* The surroundings.                                                       *)

(* The TTL elapses, or clearCache deletes the key.                         *)
CacheExpire(k) ==
    /\ entry[k].expires
    /\ entry' = Without({k})
    /\ disturbed' = (disturbed /\ ~(Silent /\ \A l \in Keys : ~entry'[l].held))
    /\ UNCHANGED <<db, redisUp, call, writes>>

CacheDown ==
    /\ "down" \in CacheFaults /\ redisUp
    /\ redisUp' = FALSE
    /\ UNCHANGED <<db, entry, call, writes, disturbed>>

CacheConnect ==
    /\ ~redisUp
    /\ redisUp' = TRUE
    /\ UNCHANGED <<db, entry, call, writes, disturbed>>

(* A command throws, executed or not, and no RedisUnavailableError: the     *)
(* request fails, after its commit if it had one.  SCAN leaves the flag.    *)
CacheCommandFails(p) ==
    /\ "command" \in CacheFaults /\ redisUp
    /\ \/ At(p, "get") /\ UNCHANGED entry
       \/ At(p, "put") /\ UNCHANGED entry
       \/ At(p, "put") /\ \E k \in call[p].keys :
             entry' = [entry EXCEPT ![k] = Stored(call[p].value)]
       \/ At(p, "scan") /\ UNCHANGED entry
       \/ At(p, "del") /\ UNCHANGED entry
       \/ At(p, "del") /\ entry' = Without(call[p].keys)
    /\ redisUp' = At(p, "scan")
    /\ disturbed' = (disturbed \/ (call[p].pc \in {"scan", "del"}))
    /\ Return(p)
    /\ UNCHANGED <<db, writes>>

(* The process of a call dies.                                             *)
CallDies(p) ==
    /\ "crash" \in CacheFaults
    /\ call[p] # NoCall
    /\ Return(p)
    /\ disturbed' = (disturbed \/ call[p].pc \in {"scan", "del"})
    /\ UNCHANGED <<db, entry, redisUp, writes>>

-----------------------------------------------------------------------------
CallArrives(p) ==
    \/ \E k \in Keys : Get(p, k)
    \/ \E t \in TypeIds, c \in TypeCodes :
          CreateDictionaryType(p, t, c) \/ UpdateDictionaryType(p, t, c)
    \/ \E ts \in SUBSET TypeIds, many \in BOOLEAN : RemoveDictionaryTypes(p, ts, many)
    \/ \E i \in Items, c \in TypeCodes :
          CreateDictionaryItem(p, i, c) \/ UpdateDictionaryItem(p, i, c)
    \/ \E is \in SUBSET Items, many \in BOOLEAN : RemoveDictionaryItems(p, is, many)
    \/ \E v \in Settings : CreateConfig(p, v) \/ UpdateConfig(p, v)
    \/ RemoveConfig(p)

CallStep(p) ==
    \/ CacheGet(p) \/ Load(p) \/ CachePut(p)
    \/ TypeCreate(p) \/ TypeUpdate(p) \/ TypesRemove(p)
    \/ ItemCreate(p) \/ ItemUpdate(p) \/ ItemsRemove(p) \/ ConfigWrite(p)
    \/ CacheScan(p) \/ CacheDel(p)

CachedNext ==
    \/ \E p \in Clients : CallArrives(p) \/ CallStep(p) \/ CacheCommandFails(p) \/ CallDies(p)
    \/ \E k \in Keys : CacheExpire(k)
    \/ CacheDown \/ CacheConnect

CachedSpec == CachedInit /\ [][CachedNext]_cachedVars

(* Node runs the continuations, a TTL elapses.  Redis may stay unavailable, *)
(* and nobody has to call.                                                 *)
CachedFairness ==
    /\ \A p \in Clients : WF_cachedVars(CallStep(p))
    /\ \A k \in Keys : WF_cachedVars(CacheExpire(k))

-----------------------------------------------------------------------------
CachedTypeOK ==
    /\ types \subseteq TypeIds \X TypeCodes
    /\ items \subseteq Items \X TypeCodes
    /\ config \in Settings
    /\ entry \in [Keys -> Entries]
    /\ redisUp \in BOOLEAN
    /\ call \in [Clients -> Calls]
    /\ writes \in 0..MaxWrites
    /\ disturbed \in BOOLEAN

Agrees(k) == Held(k) => Found(k) /\ entry[k].value = Answer(k)

(* Between calls, a cached dictionary or configuration is what MySQL holds, *)
(* unless calls have overlapped or the eviction of one was lost, to an      *)
(* outage or a crash, since the cache was last empty: not otherwise, and    *)
(* never for longer (the patterns and keys of @CacheEvict).                *)
CacheTellsTruth == Silent /\ ~disturbed => \A k \in DictKeys \cup ConfigKeys : Agrees(k)

(* Whatever went wrong, once no more is written the cache agrees with MySQL *)
(* for good: a stale entry lives no longer than its TTL, and a hit does     *)
(* not renew it.  It holds of the feature flags, which no write evicts.     *)
CacheConverges == <>[](\A k \in Keys : Agrees(k))
=============================================================================
