------------------------------ MODULE MCCached ------------------------------
(* A small instance of Cached for TLC.                                     *)
EXTENDS Cached

CONSTANTS t1, i1, k1

MCSeedTypes == {<<t1, k1>>}
MCSeedItems == {<<i1, k1>>}

(* Dictionaries and configurations share neither a table nor a key: the      *)
(* calls of a behaviour are about one of them at a time.                    *)
DictAtRest ==
    /\ types = SeedTypes /\ items = SeedItems /\ \A k \in DictKeys : ~Held(k)
    /\ \A p \in Clients : call[p].op \notin DictWrites /\ call[p].keys \cap DictKeys = {}
ConfigAtRest ==
    /\ config = "off" /\ \A k \in Keys \ DictKeys : ~Held(k)
    /\ \A p \in Clients : call[p].op \notin ConfigWrites /\ call[p].keys \subseteq DictKeys

MCNext == CachedNext /\ (DictAtRest \/ ConfigAtRest)'

MCSpec == CachedInit /\ [][MCNext]_cachedVars /\ CachedFairness
=============================================================================
