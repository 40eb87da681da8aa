---------------------------- MODULE CachedProofs ----------------------------
(* The declarative cache tells the truth as long as calls do not overlap and  *)
(* no eviction is lost: for any dictionary, any number of writes and faults. *)
EXTENDS Cached, TLAPS

LEMMA KeyFacts ==
    /\ DictKeys \cap ConfigKeys = {}
    /\ ConfigKey \notin DictKeys
    /\ FeatureKey \notin DictKeys \cup ConfigKeys
    /\ \A k \in DictKeys : k[2] \in TypeCodes /\ k = DictKey(k[2]) /\ k # FeatureKey
    /\ \A c \in TypeCodes : DictKey(c) \in DictKeys /\ DictKey(c)[2] = c
    /\ DictKeys \subseteq Keys /\ ConfigKeys \subseteq Keys
    /\ Keys = DictKeys \cup ConfigKeys \cup {FeatureKey}
BY DEF DictKeys, DictKey, ConfigKeys, ConfigKey, FeatureKey, Keys

LEMMA AnswerIs ==
    /\ \A k \in DictKeys : Answer(k) = {i \in Items : <<i, k[2]>> \in items}
    /\ \A k \in ConfigKeys : Answer(k) = {config} \ {"absent"}
    /\ Answer(FeatureKey) = {config} \cap {"on"}
BY KeyFacts DEF Answer

LEMMA AnswerNext ==
    /\ \A k \in DictKeys : Answer(k)' = {i \in Items : <<i, k[2]>> \in items'}
    /\ \A k \in ConfigKeys : Answer(k)' = {config'} \ {"absent"}
BY KeyFacts DEF Answer

LEMMA AnswerType == ASSUME CachedTypeOK, NEW k \in Keys PROVE Answer(k) \in Values
<1>1. CASE k \in DictKeys BY <1>1, AnswerIs DEF Values
<1>2. CASE k \in ConfigKeys BY <1>2, AnswerIs DEF Values, CachedTypeOK
<1>3. CASE k = FeatureKey BY <1>3, AnswerIs DEF Values, CachedTypeOK
<1> QED BY <1>1, <1>2, <1>3, KeyFacts

LEMMA NoCallType == NoCall \in Calls
BY DEF NoCall, Calls, CallPcs, Values

LEMMA EmptyType == Empty \in Entries /\ \A v \in Values : Stored(v) \in Entries
BY DEF Empty, Entries, Stored, Values

LEMMA WithoutType ==
    ASSUME CachedTypeOK, NEW ks
    PROVE Without(ks) \in [Keys -> Entries]
BY EmptyType DEF Without, CachedTypeOK

-----------------------------------------------------------------------------
(* The invariant.                                                          *)

(* A read is about one key; what a write carries to its commit is of the     *)
(* kind its table takes.                                                   *)
Fitting(c) ==
    /\ c.pc \in {"get", "load", "put"} => \A k, l \in c.keys : k = l
    /\ c.pc = "commit" =>
          /\ c.op \in {"createType", "updateType"} => c.ids \subseteq TypeIds
          /\ c.op \in {"createItem", "updateItem"} => c.ids \subseteq Items
          /\ c.op \in ConfigWrites => c.value \subseteq Settings
          /\ \A x, y \in c.codes : x = y

(* The keys a call is about to evict.                                      *)
Evicts(c) == IF c.pc \in {"scan", "del"} THEN c.keys ELSE {}

(* A read is about to store what MySQL holds.                              *)
Fresh(c) == c.pc = "put" => \A k \in c.keys \cap (DictKeys \cup ConfigKeys) :
                                Found(k) /\ c.value = Answer(k)

(* One call at a time; what does not agree is about to be evicted by it.     *)
TruthHold ==
    ~disturbed =>
        /\ \A p, q \in Clients : call[p] # NoCall /\ call[q] # NoCall => p = q
        /\ \A k \in DictKeys \cup ConfigKeys :
              Agrees(k) \/ \E p \in Clients : k \in Evicts(call[p])
        /\ \A p \in Clients : Fresh(call[p])

CachedInv ==
    /\ CachedTypeOK
    /\ \A p \in Clients : Fitting(call[p])
    /\ TruthHold

LEMMA NoCallHolds == Fitting(NoCall) /\ Fresh(NoCall) /\ Evicts(NoCall) = {} /\ NoCall.pc = "idle"
BY DEF NoCall, Fitting, Fresh, Evicts

LEMMA CachedStart == ASSUME CachedInit PROVE CachedInv
<1>1. 0 \in 0..MaxWrites BY CachedAssumption
<1>2. call \in [Clients -> Calls] BY NoCallType DEF CachedInit
<1>3. entry \in [Keys -> Entries] BY EmptyType DEF CachedInit
<1>4. CachedTypeOK
  BY <1>1, <1>2, <1>3, CachedAssumption DEF CachedInit, CachedTypeOK, Settings
<1>5. \A p \in Clients : call[p] = NoCall BY DEF CachedInit
<1>6. \A k \in DictKeys \cup ConfigKeys : Agrees(k)
  BY KeyFacts DEF Agrees, Held, CachedInit, Empty
<1> QED BY <1>4, <1>5, <1>6, NoCallHolds DEF CachedInv, TruthHold

(* Without an overlap the others are idle, and only p evicts.               *)
LEMMA OneCall ==
    ASSUME CachedInv, NEW p \in Clients, call[p] # NoCall, ~disturbed
    PROVE /\ \A q \in Clients \ {p} : call[q] = NoCall
          /\ \A k \in DictKeys \cup ConfigKeys : Agrees(k) \/ k \in Evicts(call[p])
          /\ Fresh(call[p])
<1>1. \A q \in Clients \ {p} : call[q] = NoCall BY DEF CachedInv, TruthHold
<1>2. \A k \in DictKeys \cup ConfigKeys : Agrees(k) \/ k \in Evicts(call[p])
  BY <1>1, NoCallHolds DEF CachedInv, TruthHold
<1> QED BY <1>1, <1>2 DEF CachedInv, TruthHold

(* A call in flight goes on as e, or ends.                                 *)
LEMMA StepHolds ==
    ASSUME CachedInv, CachedTypeOK', NEW p \in Clients, call[p] # NoCall, NEW e \in Calls,
           call' = [call EXCEPT ![p] = e],
           Fitting(e),
           ~disturbed' => /\ ~disturbed
                          /\ \A k \in DictKeys \cup ConfigKeys : Agrees(k)' \/ k \in Evicts(e)
                          /\ Fresh(e)'
    PROVE CachedInv'
<1>1. call'[p] = e /\ \A q \in Clients \ {p} : call'[q] = call[q]
  BY DEF CachedInv, CachedTypeOK
<1>2. \A q \in Clients : Fitting(call[q])' BY <1>1 DEF CachedInv, Fitting
<1>3. TruthHold'
  <2>1. SUFFICES ASSUME ~disturbed' PROVE TruthHold' BY DEF TruthHold
  <2>2. \A q \in Clients \ {p} : call'[q] = NoCall BY <1>1, <2>1, OneCall
  <2>3. \A k \in DictKeys \cup ConfigKeys : Agrees(k)' \/ k \in Evicts(call[p])'
    BY <1>1, <2>1 DEF Evicts
  <2>4. \A q \in Clients : Fresh(call[q])'
    <3>1. Fresh(call[p])' BY <1>1, <2>1 DEF Fresh
    <3>2. \A q \in Clients \ {p} : Fresh(call[q])' BY <2>2, NoCallHolds DEF Fresh
    <3> QED BY <3>1, <3>2
  <2>5. \A q, r \in Clients : call'[q] # NoCall /\ call'[r] # NoCall => q = r
    BY <2>2
  <2> QED BY <2>3, <2>4, <2>5 DEF TruthHold
<1> QED BY <1>2, <1>3 DEF CachedInv

LEMMA EndHolds ==
    ASSUME CachedInv, CachedTypeOK', NEW p \in Clients, call[p] # NoCall, Return(p),
           ~disturbed' => /\ ~disturbed
                          /\ \A k \in DictKeys \cup ConfigKeys : Agrees(k)'
    PROVE CachedInv'
<1>1. Fresh(NoCall)' BY NoCallHolds DEF Fresh
<1> QED BY <1>1, NoCallType, NoCallHolds, StepHolds DEF Return

(* Tables and entries that stay as they are leave everything as it was.     *)
LEMMA SameAgrees ==
    ASSUME UNCHANGED <<types, items, config>>
    PROVE /\ \A k : Found(k)' = Found(k)
          /\ \A k \in Keys : Answer(k)' = Answer(k)
          /\ UNCHANGED entry => \A k \in Keys : Agrees(k)' = Agrees(k)
<1>1. \A k : Found(k)' = Found(k) BY DEF Found
<1>2. \A k \in Keys : Answer(k)' = Answer(k) BY DEF Answer
<1> QED BY <1>1, <1>2 DEF Agrees, Held

-----------------------------------------------------------------------------
(* Arrivals.                                                               *)
LEMMA SubmitHolds ==
    ASSUME CachedInv, NEW p \in Clients, NEW new \in Calls, Submit(p, new),
           new.pc \in {"get", "commit"}, Fitting(new), writes' \in 0..MaxWrites
    PROVE CachedInv'
<1>1. /\ call[p] = NoCall /\ call' = [call EXCEPT ![p] = new]
      /\ disturbed' = (disturbed \/ ~Silent)
      /\ UNCHANGED <<types, items, config, entry, redisUp>>
  BY DEF Submit, db
<1>2. call' \in [Clients -> Calls] BY <1>1 DEF CachedInv, CachedTypeOK
<1>3. disturbed' \in BOOLEAN BY <1>1 DEF CachedInv, CachedTypeOK, Silent
<1>4. CachedTypeOK' BY <1>1, <1>2, <1>3 DEF CachedInv, CachedTypeOK
<1>5. call'[p] = new /\ \A q \in Clients \ {p} : call'[q] = call[q]
  BY <1>1 DEF CachedInv, CachedTypeOK
<1>6. \A q \in Clients : Fitting(call[q])' BY <1>5 DEF CachedInv, Fitting
<1>7. TruthHold'
  <2>1. SUFFICES ASSUME ~disturbed' PROVE TruthHold' BY DEF TruthHold
  <2>2. ~disturbed /\ \A q \in Clients : call[q] = NoCall BY <1>1, <2>1 DEF Silent
  <2>3. \A q \in Clients \ {p} : call'[q] = NoCall BY <1>5, <2>2
  <2>4. \A k \in DictKeys \cup ConfigKeys : Agrees(k)
    BY <2>2, NoCallHolds DEF CachedInv, TruthHold
  <2>5. \A k \in DictKeys \cup ConfigKeys : Agrees(k)' BY <1>1, <2>4, KeyFacts, SameAgrees
  <2>6. \A q \in Clients : Fresh(call[q])'
    BY <1>5, <2>3, NoCallHolds DEF Fresh
  <2>7. \A q, r \in Clients : call'[q] # NoCall /\ call'[r] # NoCall => q = r BY <2>3
  <2> QED BY <2>5, <2>6, <2>7 DEF TruthHold
<1> QED BY <1>4, <1>6, <1>7 DEF CachedInv

LEMMA WriteHolds ==
    ASSUME CachedInv, NEW p \in Clients, NEW o \in AllOperations,
           NEW ids \in SUBSET (TypeIds \cup Items), NEW codes \in SUBSET TypeCodes,
           NEW value \in Values, Write(p, o, ids, codes, value),
           o \in {"createType", "updateType"} => ids \subseteq TypeIds,
           o \in {"createItem", "updateItem"} => ids \subseteq Items,
           o \in ConfigWrites => value \subseteq Settings,
           \A x, y \in codes : x = y
    PROVE CachedInv'
<1> DEFINE new == [op |-> o, pc |-> "commit", keys |-> {}, ids |-> ids, codes |-> codes,
                   value |-> value]
<1>1. new \in Calls BY DEF Calls, CallPcs
<1>2. Fitting(new) /\ new.pc = "commit" BY DEF Fitting
<1>3. writes' \in 0..MaxWrites BY CachedAssumption DEF Write, CachedInv, CachedTypeOK
<1>4. Submit(p, new) BY DEF Write
<1> QED BY <1>1, <1>2, <1>3, <1>4, SubmitHolds

LEMMA ArrivesHolds == ASSUME CachedInv, NEW p \in Clients, CallArrives(p) PROVE CachedInv'
<1>1. ASSUME NEW k \in Keys, Get(p, k) PROVE CachedInv'
  <2> DEFINE new == [NoCall EXCEPT !.op = "get", !.pc = "get", !.keys = {k}]
  <2>1. new \in Calls /\ new.pc = "get" /\ new.keys = {k}
    BY DEF NoCall, Calls, CallPcs, AllOperations, Values
  <2>2. writes' \in 0..MaxWrites BY <1>1 DEF Get, CachedInv, CachedTypeOK
  <2>3. Fitting(new) BY <2>1 DEF Fitting
  <2>4. Submit(p, new) BY <1>1 DEF Get
  <2> QED BY <2>1, <2>2, <2>3, <2>4, SubmitHolds
<1>2. {} \in Values /\ \A v \in Settings : {v} \in Values BY DEF Values
<1>3. DictWrites \cup ConfigWrites \subseteq AllOperations /\ DictWrites \cap ConfigWrites = {}
  BY DEF AllOperations, DictWrites, ConfigWrites
<1>4. ASSUME NEW t \in TypeIds, NEW c \in TypeCodes,
             CreateDictionaryType(p, t, c) \/ UpdateDictionaryType(p, t, c)
      PROVE CachedInv'
  <2>1. {t} \in SUBSET (TypeIds \cup Items) /\ {c} \in SUBSET TypeCodes OBVIOUS
  <2>2. PICK o \in {"createType", "updateType"} : Write(p, o, {t}, {c}, {})
    BY <1>4 DEF CreateDictionaryType, UpdateDictionaryType
  <2>3. o \in AllOperations /\ o \notin ConfigWrites BY DEF AllOperations, DictWrites, ConfigWrites
  <2> QED BY <1>2, <2>1, <2>2, <2>3, WriteHolds
<1>5. ASSUME NEW ts \in SUBSET TypeIds, NEW many \in BOOLEAN, RemoveDictionaryTypes(p, ts, many)
      PROVE CachedInv'
  <2>1. ts \in SUBSET (TypeIds \cup Items) /\ {} \in SUBSET TypeCodes OBVIOUS
  <2>2. PICK o \in {"removeType", "removeTypes"} : Write(p, o, ts, {}, {})
    BY <1>5 DEF RemoveDictionaryTypes
  <2>3. o \in AllOperations /\ o \notin ConfigWrites BY DEF AllOperations, DictWrites, ConfigWrites
  <2> QED BY <1>2, <2>1, <2>2, <2>3, WriteHolds
<1>6. ASSUME NEW i \in Items, NEW c \in TypeCodes,
             CreateDictionaryItem(p, i, c) \/ UpdateDictionaryItem(p, i, c)
      PROVE CachedInv'
  <2>1. {i} \in SUBSET (TypeIds \cup Items) /\ {c} \in SUBSET TypeCodes OBVIOUS
  <2>2. PICK o \in {"createItem", "updateItem"} : Write(p, o, {i}, {c}, {})
    BY <1>6 DEF CreateDictionaryItem, UpdateDictionaryItem
  <2>3. o \in AllOperations /\ o \notin ConfigWrites BY DEF AllOperations, DictWrites, ConfigWrites
  <2> QED BY <1>2, <2>1, <2>2, <2>3, WriteHolds
<1>7. ASSUME NEW is \in SUBSET Items, NEW many \in BOOLEAN, RemoveDictionaryItems(p, is, many)
      PROVE CachedInv'
  <2>1. is \in SUBSET (TypeIds \cup Items) /\ {} \in SUBSET TypeCodes OBVIOUS
  <2>2. PICK o \in {"removeItem", "removeItems"} : Write(p, o, is, {}, {})
    BY <1>7 DEF RemoveDictionaryItems
  <2>3. o \in AllOperations /\ o \notin ConfigWrites BY DEF AllOperations, DictWrites, ConfigWrites
  <2> QED BY <1>2, <2>1, <2>2, <2>3, WriteHolds
<1>8. ASSUME NEW v \in Settings, NEW o \in ConfigWrites, Write(p, o, {}, {}, {v}) PROVE CachedInv'
  <2>1. {} \in SUBSET (TypeIds \cup Items) /\ {} \in SUBSET TypeCodes OBVIOUS
  <2>2. o \in AllOperations BY DEF AllOperations
  <2> QED BY <1>2, <1>8, <2>1, <2>2, WriteHolds
<1>9. ASSUME NEW v \in Settings, CreateConfig(p, v) \/ UpdateConfig(p, v) PROVE CachedInv'
  BY <1>8, <1>9 DEF CreateConfig, UpdateConfig, ConfigWrites
<1>10. CASE RemoveConfig(p) BY <1>8, <1>10 DEF RemoveConfig, ConfigWrites, Settings
<1> QED BY <1>1, <1>4, <1>5, <1>6, <1>7, <1>9, <1>10 DEF CallArrives

-----------------------------------------------------------------------------
(* @Cacheable                                                              *)
LEMMA Busy == ASSUME NEW p, call[p].pc # "idle" PROVE call[p] # NoCall
BY NoCallHolds

LEMMA CacheGetHolds == ASSUME CachedInv, NEW p \in Clients, CacheGet(p) PROVE CachedInv'
<1>1. At(p, "get") /\ UNCHANGED <<types, items, config, entry, redisUp, writes, disturbed>>
  BY DEF CacheGet, db
<1>2. call[p] # NoCall /\ call[p] \in Calls BY <1>1, Busy DEF At, CachedInv, CachedTypeOK
<1>3. ~disturbed' => ~disturbed /\ \A k \in DictKeys \cup ConfigKeys : Agrees(k)'
  BY <1>1, <1>2, OneCall, KeyFacts, SameAgrees DEF At, Evicts
<1>4. CASE Return(p)
  <2>1. CachedTypeOK' BY <1>1, <1>4, NoCallType DEF Return, CachedInv, CachedTypeOK
  <2> QED BY <1>2, <1>3, <1>4, <2>1, EndHolds
<1>5. CASE Proceed(p, "load")
  <2>1. PICK e : e = [call[p] EXCEPT !.pc = "load"] OBVIOUS
  <2>2. e \in Calls /\ e.pc = "load" /\ e.keys = call[p].keys BY <1>2, <2>1 DEF Calls, CallPcs
  <2>3. call' = [call EXCEPT ![p] = e] BY <1>5, <2>1 DEF Proceed
  <2>4. CachedTypeOK' BY <1>1, <2>2, <2>3 DEF CachedInv, CachedTypeOK
  <2>5. Fresh(e)' BY <2>2 DEF Fresh
  <2>6. Fitting(e) BY <1>1, <2>2 DEF Fitting, CachedInv, At
  <2> QED BY <1>2, <1>3, <2>2, <2>3, <2>4, <2>5, <2>6, StepHolds
<1> QED BY <1>4, <1>5 DEF CacheGet

LEMMA LoadHolds == ASSUME CachedInv, NEW p \in Clients, Load(p) PROVE CachedInv'
<1>1. At(p, "load") /\ UNCHANGED <<types, items, config, entry, redisUp, writes, disturbed>>
  BY DEF Load, db
<1>2. call[p] # NoCall /\ call[p] \in Calls BY <1>1, Busy DEF At, CachedInv, CachedTypeOK
<1>3. ~disturbed' => ~disturbed /\ \A k \in DictKeys \cup ConfigKeys : Agrees(k)'
  BY <1>1, <1>2, OneCall, KeyFacts, SameAgrees DEF At, Evicts
<1>4. CASE Return(p)
  <2>1. CachedTypeOK' BY <1>1, <1>4, NoCallType DEF Return, CachedInv, CachedTypeOK
  <2> QED BY <1>2, <1>3, <1>4, <2>1, EndHolds
<1>5. CASE ~Return(p)
  <2>1. PICK k \in call[p].keys :
          Found(k) /\ call' = [call EXCEPT ![p].pc = "put", ![p].value = Answer(k)]
    BY <1>5 DEF Load
  <2>2. k \in Keys BY <1>2 DEF Calls
  <2>3. PICK e : e = [call[p] EXCEPT !.pc = "put", !.value = Answer(k)] OBVIOUS
  <2>4. e \in Calls /\ e.pc = "put" /\ e.keys = call[p].keys /\ e.value = Answer(k)
    BY <1>2, <2>2, <2>3, AnswerType DEF Calls, CallPcs, CachedInv
  <2>5. call' = [call EXCEPT ![p] = e] BY <2>1, <2>3
  <2>6. CachedTypeOK' BY <1>1, <2>4, <2>5 DEF CachedInv, CachedTypeOK
  <2>7. Fitting(e) BY <1>1, <2>4 DEF Fitting, CachedInv, At
  <2>8. e.keys = {k} BY <2>1, <2>4, <2>7 DEF Fitting
  <2>9. Fresh(e)' BY <1>1, <2>1, <2>2, <2>4, <2>8, SameAgrees DEF Fresh
  <2> QED BY <1>2, <1>3, <2>4, <2>5, <2>6, <2>7, <2>9, StepHolds
<1> QED BY <1>4, <1>5

(* What is put is what MySQL holds, or a call has overlapped.               *)
LEMMA PutHolds ==
    ASSUME CachedInv, NEW p \in Clients, At(p, "put"), UNCHANGED <<types, items, config, writes>>,
           Return(p), redisUp' \in BOOLEAN, disturbed' = disturbed,
           \/ UNCHANGED entry
           \/ \E k \in call[p].keys : entry' = [entry EXCEPT ![k] = Stored(call[p].value)]
    PROVE CachedInv'
<1>1. call[p] # NoCall /\ call[p] \in Calls BY Busy DEF At, CachedInv, CachedTypeOK
<1>2. entry' \in [Keys -> Entries]
  <2>1. call[p].keys \subseteq Keys /\ call[p].value \in Values BY <1>1 DEF Calls
  <2> QED BY <2>1, EmptyType DEF CachedInv, CachedTypeOK
<1>3. CachedTypeOK' BY <1>2, NoCallType DEF Return, CachedInv, CachedTypeOK
<1>4. ASSUME ~disturbed', NEW k \in DictKeys \cup ConfigKeys PROVE Agrees(k)'
  <2>1. Agrees(k) /\ Fresh(call[p]) BY <1>1, <1>4, OneCall DEF At, Evicts
  <2>2. k \in Keys /\ Found(k)' = Found(k) /\ Answer(k)' = Answer(k) BY KeyFacts, SameAgrees
  <2>3. CASE UNCHANGED entry BY <2>1, <2>2, <2>3, SameAgrees
  <2>4. CASE \E l \in call[p].keys : entry' = [entry EXCEPT ![l] = Stored(call[p].value)]
    <3>1. PICK l \in call[p].keys : entry' = [entry EXCEPT ![l] = Stored(call[p].value)] BY <2>4
    <3>2. CASE l = k
      <4>1. Found(k) /\ call[p].value = Answer(k) BY <2>1, <3>2 DEF Fresh, At
      <4>2. entry'[k] = Stored(call[p].value) BY <2>2, <3>1, <3>2 DEF CachedInv, CachedTypeOK
      <4> QED BY <2>2, <4>1, <4>2 DEF Agrees, Stored
    <3>3. CASE l # k
      <4>1. entry'[k] = entry[k] BY <2>2, <3>1, <3>3 DEF CachedInv, CachedTypeOK
      <4> QED BY <2>1, <2>2, <4>1 DEF Agrees, Held
    <3> QED BY <3>2, <3>3
  <2> QED BY <2>3, <2>4
<1> QED BY <1>1, <1>3, <1>4, EndHolds

LEMMA CachePutHolds == ASSUME CachedInv, NEW p \in Clients, CachePut(p) PROVE CachedInv'
<1>1. /\ At(p, "put") /\ Return(p)
      /\ UNCHANGED <<types, items, config, writes, redisUp, disturbed>>
  BY DEF CachePut, db
<1>2. redisUp' \in BOOLEAN BY <1>1 DEF CachedInv, CachedTypeOK
<1> QED BY <1>1, <1>2, PutHolds DEF CachePut

-----------------------------------------------------------------------------
(* @CacheEvict: the commits.                                               *)

(* A statement that fails changes nothing.                                 *)
LEMMA RefusedHolds ==
    ASSUME CachedInv, NEW p \in Clients, At(p, "commit"), Return(p),
           UNCHANGED <<types, items, config, entry, redisUp, writes, disturbed>>
    PROVE CachedInv'
<1>1. call[p] # NoCall BY Busy DEF At
<1>2. CachedTypeOK' BY NoCallType DEF Return, CachedInv, CachedTypeOK
<1>3. ~disturbed' => ~disturbed /\ \A k \in DictKeys \cup ConfigKeys : Agrees(k)'
  BY <1>1, OneCall, KeyFacts, SameAgrees DEF At, Evicts
<1> QED BY <1>1, <1>2, <1>3, EndHolds

(* One that succeeds goes on to evict every key whose answer may differ.     *)
LEMMA CommittedHolds ==
    ASSUME CachedInv, NEW p \in Clients, At(p, "commit"),
           NEW ks \in SUBSET Keys, NEW l \in {"scan", "del"},
           call' = [call EXCEPT ![p].pc = l, ![p].keys = ks],
           UNCHANGED <<entry, redisUp, writes, disturbed>>,
           types' \subseteq TypeIds \X TypeCodes, items' \subseteq Items \X TypeCodes,
           config' \in Settings,
           \A k \in (DictKeys \cup ConfigKeys) \ ks :
              (Found(k) => Found(k)') /\ Answer(k)' = Answer(k)
    PROVE CachedInv'
<1>1. call[p] # NoCall /\ call[p] \in Calls BY Busy DEF At, CachedInv, CachedTypeOK
<1>2. PICK e : e = [call[p] EXCEPT !.pc = l, !.keys = ks] OBVIOUS
<1>3. e \in Calls /\ e.pc = l /\ e.keys = ks BY <1>1, <1>2 DEF Calls, CallPcs
<1>4. call' = [call EXCEPT ![p] = e] BY <1>2
<1>5. CachedTypeOK' BY <1>3, <1>4 DEF CachedInv, CachedTypeOK
<1>6. Fitting(e) /\ Fresh(e)' BY <1>3 DEF Fitting, Fresh
<1>7. ASSUME ~disturbed', NEW k \in DictKeys \cup ConfigKeys PROVE Agrees(k)' \/ k \in Evicts(e)
  <2>1. Agrees(k) BY <1>1, <1>7, OneCall DEF At, Evicts
  <2>2. k \in ks => k \in Evicts(e) BY <1>3 DEF Evicts
  <2> QED BY <2>1, <2>2 DEF Agrees, Held
<1> QED BY <1>1, <1>3, <1>4, <1>5, <1>6, <1>7, StepHolds

(* Of dictionaries: the configuration answers as before.                   *)
LEMMA DictHolds ==
    ASSUME CachedInv, NEW p \in Clients, At(p, "commit"), Evict(p, DictKeys),
           UNCHANGED <<entry, redisUp, writes, disturbed, config>>,
           types' \subseteq TypeIds \X TypeCodes, items' \subseteq Items \X TypeCodes
    PROVE CachedInv'
<1>1. \A k \in ConfigKeys : (Found(k) => Found(k)') /\ Answer(k)' = Answer(k)
  BY KeyFacts, AnswerIs, AnswerNext DEF Found
<1>2. config' \in Settings BY DEF CachedInv, CachedTypeOK
<1>3. call' = [call EXCEPT ![p].pc = "scan", ![p].keys = DictKeys] BY DEF Evict
<1>4. DictKeys \in SUBSET Keys BY KeyFacts
<1> QED BY <1>1, <1>2, <1>3, <1>4, CommittedHolds

(* The ids and codes of a call are of their types.                         *)
LEMMA Carried ==
    ASSUME CachedInv, NEW p \in Clients, NEW o, Commit(p, {o})
    PROVE /\ At(p, "commit") /\ call[p].codes \subseteq TypeCodes
          /\ \A x, y \in call[p].codes : x = y
          /\ o \in {"createType", "updateType"} => call[p].ids \subseteq TypeIds
          /\ o \in {"createItem", "updateItem"} => call[p].ids \subseteq Items
          /\ UNCHANGED <<entry, redisUp, writes, disturbed>>
<1>1. At(p, "commit") /\ call[p].op = o BY DEF Commit
<1>2. call[p] \in Calls BY DEF CachedInv, CachedTypeOK
<1>3. Fitting(call[p]) BY DEF CachedInv
<1> QED BY <1>1, <1>2, <1>3 DEF Commit, Calls, Fitting, At

LEMMA TypesHolds ==
    ASSUME CachedInv, NEW p \in Clients, TypeCreate(p) \/ TypeUpdate(p) \/ TypesRemove(p)
    PROVE CachedInv'
<1>1. types \subseteq TypeIds \X TypeCodes /\ items \subseteq Items \X TypeCodes
  BY DEF CachedInv, CachedTypeOK
<1>2. CASE TypeCreate(p)
  <2>1. /\ At(p, "commit") /\ call[p].codes \subseteq TypeCodes /\ call[p].ids \subseteq TypeIds
        /\ UNCHANGED <<entry, redisUp, writes, disturbed, items, config>>
    BY <1>2, Carried DEF TypeCreate
  <2>2. CASE types' = types \cup (call[p].ids \X call[p].codes) /\ Evict(p, DictKeys)
    BY <1>1, <2>1, <2>2, DictHolds
  <2>3. CASE Return(p) /\ UNCHANGED types BY <2>1, <2>3, RefusedHolds
  <2> QED BY <1>2, <2>2, <2>3 DEF TypeCreate
<1>3. CASE TypeUpdate(p)
  <2> DEFINE old == CodesOfTypes(call[p].ids)
  <2>1. /\ At(p, "commit") /\ call[p].codes \subseteq TypeCodes /\ call[p].ids \subseteq TypeIds
        /\ UNCHANGED <<entry, redisUp, writes, disturbed, config>>
    BY <1>3, Carried DEF TypeUpdate
  <2>2. CASE /\ types' = {x \in types : x[1] \notin call[p].ids} \cup (call[p].ids \X call[p].codes)
             /\ items' = (items \ ItemsIn(old)) \cup (Ids(ItemsIn(old)) \X call[p].codes)
             /\ Evict(p, DictKeys)
    <3>1. Ids(ItemsIn(old)) \subseteq Items BY <1>1 DEF Ids, ItemsIn
    <3>2. items' \subseteq Items \X TypeCodes BY <1>1, <2>1, <2>2, <3>1
    <3>3. types' \subseteq TypeIds \X TypeCodes BY <1>1, <2>1, <2>2
    <3> QED BY <2>1, <2>2, <3>2, <3>3, DictHolds
  <2>3. CASE Return(p) /\ UNCHANGED <<types, items>> BY <2>1, <2>3, RefusedHolds
  <2> QED BY <1>3, <2>2, <2>3 DEF TypeUpdate
<1>4. CASE TypesRemove(p)
  <2>1. /\ At(p, "commit")
        /\ UNCHANGED <<entry, redisUp, writes, disturbed, config>>
    BY <1>4 DEF TypesRemove, Commit
  <2>2. CASE /\ types' = {x \in types : x[1] \notin call[p].ids}
             /\ items' = items \ ItemsIn(CodesOfTypes(call[p].ids))
             /\ Evict(p, DictKeys)
    <3>1. types' \subseteq TypeIds \X TypeCodes /\ items' \subseteq Items \X TypeCodes
      BY <1>1, <2>2
    <3> QED BY <2>1, <2>2, <3>1, DictHolds
  <2>3. CASE Return(p) /\ UNCHANGED <<types, items>> BY <2>1, <2>3, RefusedHolds
  <2> QED BY <1>4, <2>2, <2>3 DEF TypesRemove
<1> QED BY <1>2, <1>3, <1>4

LEMMA ItemsHolds ==
    ASSUME CachedInv, NEW p \in Clients, ItemCreate(p) \/ ItemUpdate(p) \/ ItemsRemove(p)
    PROVE CachedInv'
<1>1. types \subseteq TypeIds \X TypeCodes /\ items \subseteq Items \X TypeCodes
      /\ config \in Settings
  BY DEF CachedInv, CachedTypeOK
<1>2. CASE ItemCreate(p)
  <2>1. /\ At(p, "commit") /\ call[p].codes \subseteq TypeCodes /\ call[p].ids \subseteq Items
        /\ UNCHANGED <<entry, redisUp, writes, disturbed, types, config>>
    BY <1>2, Carried DEF ItemCreate
  <2>2. PICK c \in call[p].codes : EvictKey(p, DictKey(c)) BY <1>2 DEF ItemCreate
  <2>3. items' = items \cup (call[p].ids \X call[p].codes) BY <1>2 DEF ItemCreate
  <2>4. items' \subseteq Items \X TypeCodes BY <1>1, <2>1, <2>3
  <2>5. c \in TypeCodes /\ call[p].codes = {c}
    <3>1. \A x, y \in call[p].codes : x = y BY <1>2, Carried DEF ItemCreate
    <3> QED BY <2>1, <2>2, <3>1
  <2>6. ASSUME NEW k \in (DictKeys \cup ConfigKeys) \ {DictKey(c)}
        PROVE (Found(k) => Found(k)') /\ Answer(k)' = Answer(k)
    <3>1. CASE k \in ConfigKeys
      BY <2>1, <3>1, KeyFacts, AnswerIs, AnswerNext DEF Found
    <3>2. CASE k \in DictKeys
      <4>1. k[2] # c BY <2>6, <3>2, KeyFacts
      <4>2. \A i \in Items : <<i, k[2]>> \in items' <=> <<i, k[2]>> \in items
        BY <2>3, <2>5, <4>1
      <4>3. Answer(k)' = Answer(k) BY <3>2, <4>2, AnswerIs, AnswerNext
      <4>4. k # ConfigKey BY <3>2, KeyFacts
      <4>5. Found(k)' = Found(k) BY <2>1, <4>4 DEF Found
      <4> QED BY <4>3, <4>5
    <3> QED BY <3>1, <3>2
  <2>7. call' = [call EXCEPT ![p].pc = "del", ![p].keys = {DictKey(c)}] BY <2>2 DEF EvictKey
  <2>8. {DictKey(c)} \in SUBSET Keys BY <2>5, KeyFacts
  <2> QED BY <1>1, <2>1, <2>4, <2>6, <2>7, <2>8, CommittedHolds
<1>3. CASE ItemUpdate(p)
  <2>1. /\ At(p, "commit") /\ call[p].codes \subseteq TypeCodes /\ call[p].ids \subseteq Items
        /\ UNCHANGED <<entry, redisUp, writes, disturbed, types, config>>
    BY <1>3, Carried DEF ItemUpdate
  <2>2. CASE /\ items' = {x \in items : x[1] \notin call[p].ids} \cup (call[p].ids \X call[p].codes)
             /\ Evict(p, DictKeys)
    <3>1. items' \subseteq Items \X TypeCodes BY <1>1, <2>1, <2>2
    <3> QED BY <1>1, <2>1, <2>2, <3>1, DictHolds
  <2>3. CASE Return(p) /\ UNCHANGED items BY <2>1, <2>3, RefusedHolds
  <2> QED BY <1>3, <2>2, <2>3 DEF ItemUpdate
<1>4. CASE ItemsRemove(p)
  <2>1. /\ At(p, "commit")
        /\ UNCHANGED <<entry, redisUp, writes, disturbed, types, config>>
    BY <1>4 DEF ItemsRemove, Commit
  <2>2. CASE items' = {x \in items : x[1] \notin call[p].ids} /\ Evict(p, DictKeys)
    <3>1. items' \subseteq Items \X TypeCodes BY <1>1, <2>2
    <3> QED BY <1>1, <2>1, <2>2, <3>1, DictHolds
  <2>3. CASE Return(p) /\ UNCHANGED items BY <2>1, <2>3, RefusedHolds
  <2> QED BY <1>4, <2>2, <2>3 DEF ItemsRemove
<1> QED BY <1>2, <1>3, <1>4

LEMMA ConfigHolds == ASSUME CachedInv, NEW p \in Clients, ConfigWrite(p) PROVE CachedInv'
<1>1. /\ At(p, "commit") /\ call[p].op \in ConfigWrites
      /\ UNCHANGED <<entry, redisUp, writes, disturbed, types, items>>
  BY DEF ConfigWrite, Commit
<1>2. call[p].value \subseteq Settings BY <1>1 DEF CachedInv, Fitting, At
<1>3. CASE config' \in call[p].value /\ Evict(p, ConfigKeys)
  <2>1. config' \in Settings BY <1>2, <1>3
  <2>2. ASSUME NEW k \in DictKeys PROVE (Found(k) => Found(k)') /\ Answer(k)' = Answer(k)
    <3>1. Answer(k)' = Answer(k) BY <1>1, AnswerIs, AnswerNext
    <3>2. k # ConfigKey BY KeyFacts
    <3> QED BY <1>1, <3>1, <3>2 DEF Found
  <2>3. types' \subseteq TypeIds \X TypeCodes /\ items' \subseteq Items \X TypeCodes
    BY <1>1 DEF CachedInv, CachedTypeOK
  <2>4. call' = [call EXCEPT ![p].pc = "scan", ![p].keys = ConfigKeys] BY <1>3 DEF Evict
  <2>5. ConfigKeys \in SUBSET Keys BY KeyFacts
  <2> QED BY <1>1, <2>1, <2>2, <2>3, <2>4, <2>5, CommittedHolds
<1>4. CASE Return(p) /\ UNCHANGED config BY <1>1, <1>4, RefusedHolds
<1> QED BY <1>3, <1>4 DEF ConfigWrite

-----------------------------------------------------------------------------
(* @CacheEvict: the eviction.                                              *)

(* Keys that are gone agree.                                               *)
LEMMA WithoutAgrees ==
    ASSUME UNCHANGED <<types, items, config>>, NEW ks, entry' = Without(ks),
           NEW k \in DictKeys \cup ConfigKeys, Agrees(k) \/ k \in ks
    PROVE Agrees(k)'
<1>1. k \in Keys /\ Found(k)' = Found(k) /\ Answer(k)' = Answer(k) BY KeyFacts, SameAgrees
<1>2. entry'[k] = IF k \in ks THEN Empty ELSE entry[k] BY <1>1 DEF Without
<1> QED BY <1>1, <1>2 DEF Agrees, Held, Empty

LEMMA CacheScanHolds == ASSUME CachedInv, NEW p \in Clients, CacheScan(p) PROVE CachedInv'
<1> DEFINE found == {k \in call[p].keys : Held(k)}
<1>1. /\ At(p, "scan") /\ UNCHANGED <<types, items, config, entry, redisUp, writes>>
      /\ disturbed' = (disturbed \/ ~redisUp)
  BY DEF CacheScan, db
<1>2. call[p] # NoCall /\ call[p] \in Calls BY <1>1, Busy DEF At, CachedInv, CachedTypeOK
<1>3. disturbed' \in BOOLEAN BY <1>1 DEF CachedInv, CachedTypeOK
<1>4. ~disturbed' => /\ ~disturbed /\ redisUp
                     /\ \A k \in DictKeys \cup ConfigKeys : Agrees(k)' \/ k \in found
  <2>1. ASSUME ~disturbed', NEW k \in DictKeys \cup ConfigKeys PROVE Agrees(k)' \/ k \in found
    <3>1. Agrees(k) \/ k \in call[p].keys BY <1>1, <1>2, <2>1, OneCall DEF At, Evicts
    <3>2. Agrees(k)' = Agrees(k) BY <1>1, KeyFacts, SameAgrees
    <3> QED BY <3>1, <3>2 DEF Agrees
  <2> QED BY <1>1, <2>1
<1>5. CASE redisUp /\ found # {}
  <2>1. PICK e : e = [call[p] EXCEPT !.pc = "del", !.keys = found] OBVIOUS
  <2>2. e \in Calls /\ e.pc = "del" /\ e.keys = found BY <1>2, <2>1 DEF Calls, CallPcs
  <2>3. call' = [call EXCEPT ![p] = e] BY <1>5, <2>1 DEF CacheScan
  <2>4. CachedTypeOK' BY <1>1, <1>3, <2>2, <2>3 DEF CachedInv, CachedTypeOK
  <2>5. Fitting(e) /\ Fresh(e)' BY <2>2 DEF Fitting, Fresh
  <2>6. ~disturbed' => \A k \in DictKeys \cup ConfigKeys : Agrees(k)' \/ k \in Evicts(e)
    BY <1>4, <2>2 DEF Evicts
  <2> QED BY <1>2, <1>4, <2>2, <2>3, <2>4, <2>5, <2>6, StepHolds
<1>6. CASE ~(redisUp /\ found # {})
  <2>1. Return(p) BY <1>6 DEF CacheScan
  <2>2. CachedTypeOK' BY <1>1, <1>3, <2>1, NoCallType DEF Return, CachedInv, CachedTypeOK
  <2>3. ~disturbed' => ~disturbed /\ \A k \in DictKeys \cup ConfigKeys : Agrees(k)'
    BY <1>4, <1>6
  <2> QED BY <1>2, <2>1, <2>2, <2>3, EndHolds
<1> QED BY <1>5, <1>6

LEMMA CacheDelHolds == ASSUME CachedInv, NEW p \in Clients, CacheDel(p) PROVE CachedInv'
<1>1. /\ At(p, "del") /\ UNCHANGED <<types, items, config, redisUp, writes>>
      /\ disturbed' = (disturbed \/ ~redisUp)
      /\ entry' = (IF redisUp THEN Without(call[p].keys) ELSE entry)
      /\ Return(p)
  BY DEF CacheDel, db
<1>2. call[p] # NoCall BY <1>1, Busy DEF At
<1>3. disturbed' \in BOOLEAN BY <1>1 DEF CachedInv, CachedTypeOK
<1>4. entry' \in [Keys -> Entries] BY <1>1, WithoutType DEF CachedInv, CachedTypeOK
<1>5. CachedTypeOK' BY <1>1, <1>3, <1>4, NoCallType DEF Return, CachedInv, CachedTypeOK
<1>6. ASSUME ~disturbed', NEW k \in DictKeys \cup ConfigKeys PROVE Agrees(k)'
  <2>1. ~disturbed /\ redisUp /\ entry' = Without(call[p].keys) BY <1>1, <1>6
  <2>2. Agrees(k) \/ k \in call[p].keys BY <1>1, <1>2, <2>1, OneCall DEF At, Evicts
  <2> QED BY <1>1, <2>1, <2>2, WithoutAgrees
<1> QED BY <1>1, <1>2, <1>5, <1>6, EndHolds

-----------------------------------------------------------------------------
(* The surroundings.                                                       *)

(* An entry goes.  The last one to go ends a disturbance.                   *)
LEMMA ExpireHolds == ASSUME CachedInv, NEW k \in Keys, CacheExpire(k) PROVE CachedInv'
<1>1. /\ entry' = Without({k}) /\ UNCHANGED <<types, items, config, redisUp, call, writes>>
      /\ disturbed' = (disturbed /\ ~(Silent /\ \A l \in Keys : ~entry'[l].held))
  BY DEF CacheExpire, db
<1>2. disturbed' \in BOOLEAN BY <1>1 DEF CachedInv, CachedTypeOK
<1>3. CachedTypeOK' BY <1>1, <1>2, WithoutType DEF CachedInv, CachedTypeOK
<1>4. \A p \in Clients : Fitting(call[p])' BY <1>1 DEF CachedInv, Fitting
<1>5. ASSUME ~disturbed' PROVE TruthHold'
  <2>1. CASE ~disturbed
    <3>1. \A l \in DictKeys \cup ConfigKeys : Agrees(l) => Agrees(l)' BY <1>1, WithoutAgrees
    <3>2. \A p \in Clients : Evicts(call[p])' = Evicts(call[p]) BY <1>1 DEF Evicts
    <3>3. \A l \in DictKeys \cup ConfigKeys : Found(l)' = Found(l) /\ Answer(l)' = Answer(l)
      BY <1>1, KeyFacts, SameAgrees
    <3>4. \A p \in Clients : Fresh(call[p])' = Fresh(call[p]) BY <1>1, <3>3 DEF Fresh
    <3> QED BY <1>1, <2>1, <3>1, <3>2, <3>4 DEF CachedInv, TruthHold
  <2>2. CASE disturbed
    <3>1. (\A p \in Clients : call[p] = NoCall) /\ \A l \in Keys : ~entry'[l].held
      BY <1>1, <1>5, <2>2 DEF Silent
    <3>2. \A l \in DictKeys \cup ConfigKeys : Agrees(l)' BY <3>1, KeyFacts DEF Agrees, Held
    <3>3. \A p \in Clients : Fresh(call[p])' BY <1>1, <3>1, NoCallHolds DEF Fresh
    <3> QED BY <1>1, <3>1, <3>2, <3>3 DEF TruthHold
  <2> QED BY <2>1, <2>2
<1> QED BY <1>3, <1>4, <1>5 DEF CachedInv, TruthHold

(* A call that dies, or whose command fails, while it has nothing to evict   *)
(* and nothing to store.                                                   *)
LEMMA BrokenHolds ==
    ASSUME CachedInv, NEW p \in Clients, call[p] # NoCall, Return(p),
           UNCHANGED <<types, items, config, writes>>, redisUp' \in BOOLEAN,
           disturbed' = (disturbed \/ call[p].pc \in {"scan", "del"}),
           entry' \in [Keys -> Entries],
           UNCHANGED entry \/ call[p].pc \in {"scan", "del"}
    PROVE CachedInv'
<1>1. disturbed' \in BOOLEAN BY DEF CachedInv, CachedTypeOK
<1>2. CachedTypeOK' BY <1>1, NoCallType DEF Return, CachedInv, CachedTypeOK
<1>3. ASSUME ~disturbed', NEW k \in DictKeys \cup ConfigKeys PROVE Agrees(k)'
  <2>1. ~disturbed /\ call[p].pc \notin {"scan", "del"} /\ UNCHANGED entry BY <1>3
  <2>2. Agrees(k) BY <2>1, OneCall DEF Evicts
  <2> QED BY <2>1, <2>2, KeyFacts, SameAgrees
<1> QED BY <1>2, <1>3, EndHolds

LEMMA FaultHolds ==
    ASSUME CachedInv, NEW p \in Clients, CacheCommandFails(p) \/ CallDies(p) PROVE CachedInv'
<1>1. CASE CallDies(p)
  <2>1. /\ call[p] # NoCall /\ Return(p) /\ UNCHANGED <<types, items, config, entry, redisUp, writes>>
        /\ disturbed' = (disturbed \/ call[p].pc \in {"scan", "del"})
    BY <1>1 DEF CallDies, db
  <2>2. redisUp' \in BOOLEAN /\ entry' \in [Keys -> Entries]
    BY <2>1 DEF CachedInv, CachedTypeOK
  <2> QED BY <2>1, <2>2, BrokenHolds
<1>2. CASE CacheCommandFails(p)
  <2>1. /\ Return(p) /\ UNCHANGED <<types, items, config, writes>>
        /\ disturbed' = (disturbed \/ call[p].pc \in {"scan", "del"})
        /\ call[p].pc \in {"get", "put", "scan", "del"}
    BY <1>2 DEF CacheCommandFails, db, At
  <2>2. redisUp' \in BOOLEAN BY <1>2 DEF CacheCommandFails, At
  <2>3. call[p] # NoCall BY <2>1, Busy
  <2>4. CASE UNCHANGED entry
    BY <2>1, <2>2, <2>3, <2>4, BrokenHolds DEF CachedInv, CachedTypeOK
  <2>5. CASE At(p, "put") /\ ~UNCHANGED entry
    <3>1. \E k \in call[p].keys : entry' = [entry EXCEPT ![k] = Stored(call[p].value)]
      BY <1>2, <2>5 DEF CacheCommandFails, At
    <3>2. disturbed' = disturbed BY <2>1, <2>5 DEF At, CachedInv, CachedTypeOK
    <3> QED BY <2>1, <2>2, <2>5, <3>1, <3>2, PutHolds
  <2>6. CASE At(p, "del") /\ entry' = Without(call[p].keys)
    <3>1. entry' \in [Keys -> Entries] BY <2>6, WithoutType DEF CachedInv
    <3> QED BY <2>1, <2>2, <2>3, <2>6, <3>1, BrokenHolds DEF At
  <2> QED BY <1>2, <2>4, <2>5, <2>6 DEF CacheCommandFails
<1> QED BY <1>1, <1>2

LEMMA IdleHolds ==
    ASSUME CachedInv, UNCHANGED <<types, items, config, entry, call, writes, disturbed>>,
           redisUp' \in BOOLEAN
    PROVE CachedInv'
<1>1. CachedTypeOK' BY DEF CachedInv, CachedTypeOK
<1>2. \A p \in Clients : Fitting(call[p])' BY DEF CachedInv, Fitting
<1>3. \A k \in DictKeys \cup ConfigKeys :
        Agrees(k)' = Agrees(k) /\ Found(k)' = Found(k) /\ Answer(k)' = Answer(k)
  BY KeyFacts, SameAgrees
<1>4. \A p \in Clients : Fresh(call[p])' = Fresh(call[p]) /\ Evicts(call[p])' = Evicts(call[p])
  BY <1>3 DEF Fresh, Evicts
<1> QED BY <1>1, <1>2, <1>3, <1>4 DEF CachedInv, TruthHold

-----------------------------------------------------------------------------
LEMMA CachedStep == ASSUME CachedInv, [CachedNext]_cachedVars PROVE CachedInv'
<1>1. ASSUME NEW p \in Clients, CallStep(p) PROVE CachedInv'
  BY <1>1, CacheGetHolds, LoadHolds, CachePutHolds, TypesHolds, ItemsHolds, ConfigHolds,
     CacheScanHolds, CacheDelHolds DEF CallStep
<1>2. ASSUME NEW p \in Clients, CallArrives(p) \/ CacheCommandFails(p) \/ CallDies(p)
      PROVE CachedInv'
  BY <1>2, ArrivesHolds, FaultHolds
<1>3. ASSUME NEW k \in Keys, CacheExpire(k) PROVE CachedInv' BY <1>3, ExpireHolds
<1>4. CASE CacheDown \/ CacheConnect BY <1>4, IdleHolds DEF CacheDown, CacheConnect, db
<1>5. CASE UNCHANGED cachedVars
  BY <1>5, IdleHolds DEF cachedVars, db, CachedInv, CachedTypeOK
<1> QED BY <1>1, <1>2, <1>3, <1>4, <1>5 DEF CachedNext

THEOREM CachedInvariance == CachedSpec => []CachedInv
<1>1. CachedInit => CachedInv BY CachedStart
<1>2. CachedInv /\ [CachedNext]_cachedVars => CachedInv' BY CachedStep
<1> QED BY <1>1, <1>2, PTL DEF CachedSpec

(* Tables, entries and calls keep their types: each write carries ids and    *)
(* codes of the kind its table takes.                                      *)
THEOREM CachedTypes == CachedSpec => []CachedTypeOK
<1>1. CachedInv => CachedTypeOK BY DEF CachedInv
<1> QED BY <1>1, CachedInvariance, PTL

(* Between calls that do not overlap and lose no eviction, what is cached of *)
(* dictionaries and configurations is what MySQL holds.                     *)
THEOREM CacheIsTrue == CachedSpec => []CacheTellsTruth
<1>1. CachedInv => CacheTellsTruth
  BY NoCallHolds DEF CachedInv, TruthHold, CacheTellsTruth, Silent
<1> QED BY <1>1, CachedInvariance, PTL
=============================================================================
