--------------------------- MODULE PriceGroupCache ---------------------------
(***************************************************************************)
(* The price-group repository of internal/service/price_groups.go          *)
(* (PriceGroup.Insert / Update / GetById / GetByRegion / GetAll /          *)
(* updateCache) behind the UpdatePriceGroup handler, with concurrent       *)
(* clients.  Every database and cacher call is one atomic step; a client  *)
(* holds its request (req), the group it carries (pg) and, once the call   *)
(* has taken effect, its result (done).                                   *)
(*                                                                         *)
(* The cache keys are price_group:id:<id>, price_group:region:<region>     *)
(* and price_group:all.  Every cacher.Get passes its target by value, so   *)
(* a Get that succeeds leaves the caller's variable at its zero value:     *)
(* CacherGetSucceeds says whether the cacher answers a present key with    *)
(* success (the caller then returns the zero group) or with an error (the *)
(* caller then reads the database).  Any Set or Delete may fail.          *)
(***************************************************************************)
EXTENDS Naturals, FiniteSets

CONSTANTS Ids, Regions, Clients, InitStore, Absent, NotFound, Idle, Written,
          NoId,              \* the id of the zero PriceGroup ("")
          NoRegion,          \* the region of the zero PriceGroup ("")
          CacherGetSucceeds, \* cacher.Get of a present key returns nil
          MaxCalls           \* bound on the calls of one behaviour

Group == [id : Ids, region : Regions, active : BOOLEAN]

\* billing.PriceGroup{}: what a successful cacher.Get leaves in the target.
Zero == [id |-> NoId, region |-> NoRegion, active |-> FALSE]

Requests ==
    [kind : {"update"}, id : Ids, region : Regions, active : BOOLEAN]
    \cup [kind : {"insert"}, region : Regions, active : BOOLEAN]
    \cup [kind : {"getById"}, id : Ids]
    \cup [kind : {"getByRegion"}, region : Regions]
    \cup [kind : {"getAll"}]

VARIABLES
    db,           \* collection price_group: id -> group or Absent
    cacheId,      \* price_group:id:<id>, ids including NoId
    cacheRegion,  \* price_group:region:<region>, regions including NoRegion
    cacheAll,     \* price_group:all: a set of groups, or Absent
    pc,           \* step of each client
    req,          \* the client's request
    pg,           \* the group the client writes
    data,         \* what the client read from the database
    done,         \* the call's result, once it has taken effect
    calls         \* calls made so far (bounded by MaxCalls)

vars == <<db, cacheId, cacheRegion, cacheAll, pc, req, pg, data, done, calls>>

IsActive(s, i) == s[i] # Absent /\ s[i].active

ActiveGroups(s) == {s[i] : i \in {j \in Ids : IsActive(s, j)}}

\* GetAll: Find({is_active: true}) and cursor.All, the one answer it reads.
FindAllActive(s) == {ActiveGroups(s)}

Init ==
    /\ db = InitStore
    /\ cacheId = [i \in Ids \cup {NoId} |-> Absent]
    /\ cacheRegion = [r \in Regions \cup {NoRegion} |-> Absent]
    /\ cacheAll = Absent
    /\ pc = [c \in Clients |-> "idle"]
    /\ req = [c \in Clients |-> Idle]
    /\ pg = [c \in Clients |-> Zero]
    /\ data = [c \in Clients |-> Zero]
    /\ done = [c \in Clients |-> Idle]
    /\ calls = 0

\* The cache entry a read request looks up first.
Cached(r) ==
    CASE r.kind = "getByRegion" -> cacheRegion[r.region]
      [] r.kind = "getAll"      -> cacheAll
      [] OTHER                  -> cacheId[r.id]

At(c, from, to) == pc[c] = from /\ pc' = [pc EXCEPT ![c] = to]
SetPg(c, g)     == pg' = [pg EXCEPT ![c] = g]
SetDone(c, v)   == done' = [done EXCEPT ![c] = v]

\* A call of the UpdatePriceGroup handler or of a repository read.  With
\* req.Id = "" the handler builds the group under primitive.NewObjectID().
Call(c, r) ==
    /\ pc[c] = "idle" /\ calls < MaxCalls
    /\ calls' = calls + 1
    /\ req' = [req EXCEPT ![c] = r]
    /\ IF r.kind = "insert"
       THEN \E i \in Ids :
               /\ db[i] = Absent /\ \A d \in Clients : pg[d].id # i
               /\ SetPg(c, [id |-> i, region |-> r.region, active |-> r.active])
               /\ pc' = [pc EXCEPT ![c] = "db_write"]
       ELSE pc' = [pc EXCEPT ![c] = "cache_get"] /\ UNCHANGED pg
    /\ UNCHANGED <<db, cacheId, cacheRegion, cacheAll, data, done>>

\* cacher.Get of the request's key.  When it succeeds the by-value target
\* stays zero and is returned (in UpdatePriceGroup the zero group's Id
\* becomes pg.Id); otherwise the repository goes to the database.
CacheGet(c) ==
    /\ pc[c] = "cache_get"
    /\ IF CacherGetSucceeds /\ Cached(req[c]) # Absent
       THEN IF req[c].kind = "update"
            THEN /\ pc' = [pc EXCEPT ![c] = "db_write"]
                 /\ SetPg(c, [id |-> NoId, region |-> req[c].region,
                              active |-> req[c].active])
                 /\ UNCHANGED done
            ELSE /\ pc' = [pc EXCEPT ![c] = "return"]
                 /\ SetDone(c, IF req[c].kind = "getAll" THEN {} ELSE Zero)
                 /\ UNCHANGED pg
       ELSE pc' = [pc EXCEPT ![c] = "db_read"] /\ UNCHANGED <<pg, done>>
    /\ UNCHANGED <<calls, db, cacheId, cacheRegion, cacheAll, req, data>>

\* FindOne({_id, is_active: true}), FindOne({region, is_active: true}) or
\* Find({is_active: true}); a miss is errorNotFound.
DbRead(c) ==
    LET r    == req[c]
        hits == CASE r.kind = "getByRegion" ->
                       {g \in ActiveGroups(db) : g.region = r.region}
                  [] r.kind = "getAll" -> FindAllActive(db)
                  [] OTHER -> IF IsActive(db, r.id) THEN {db[r.id]} ELSE {}
    IN
    /\ pc[c] = "db_read"
    /\ IF hits = {}
       THEN /\ pc' = [pc EXCEPT ![c] = "return"]
            /\ SetDone(c, NotFound) /\ UNCHANGED <<pg, data>>
       ELSE \E v \in hits :
               /\ pc' = [pc EXCEPT ![c] = "cache_set"]
               /\ data' = [data EXCEPT ![c] = v]
               /\ IF r.kind = "update"
                  THEN SetPg(c, [id |-> v.id, region |-> r.region,
                                 active |-> r.active]) /\ UNCHANGED done
                  ELSE SetDone(c, v) /\ UNCHANGED pg
    /\ UNCHANGED <<calls, db, cacheId, cacheRegion, cacheAll, req>>

\* Variant that caches the call's result instead of what was read.
CacheSetReadDone(c) ==
    LET r == req[c] IN
    /\ pc[c] = "cache_set"
    /\ pc' = [pc EXCEPT ![c] = IF r.kind = "update" THEN "db_write" ELSE "return"]
    /\ \/ UNCHANGED <<cacheId, cacheRegion, cacheAll>>
       \/ /\ r.kind = "getAll"
          /\ cacheAll' = done[c] /\ UNCHANGED <<cacheId, cacheRegion>>
       \/ /\ r.kind = "getByRegion"
          /\ cacheRegion' = [cacheRegion EXCEPT ![r.region] = done[c]]
          /\ UNCHANGED <<cacheId, cacheAll>>
       \/ /\ r.kind \in {"getById", "update"}
          /\ cacheId' = [cacheId EXCEPT ![r.id] = done[c]]
          /\ UNCHANGED <<cacheRegion, cacheAll>>
    /\ UNCHANGED <<calls, db, req, pg, data, done>>

\* cacher.Set of what was read; a failure is only logged.
CacheSetRead(c) ==
    LET r == req[c] IN
    /\ pc[c] = "cache_set"
    /\ pc' = [pc EXCEPT ![c] = IF r.kind = "update" THEN "db_write" ELSE "return"]
    /\ \/ UNCHANGED <<cacheId, cacheRegion, cacheAll>>
       \/ /\ r.kind = "getAll"
          /\ cacheAll' = data[c] /\ UNCHANGED <<cacheId, cacheRegion>>
       \/ /\ r.kind = "getByRegion"
          /\ cacheRegion' = [cacheRegion EXCEPT ![r.region] = data[c]]
          /\ UNCHANGED <<cacheId, cacheAll>>
       \/ /\ r.kind \in {"getById", "update"}
          /\ cacheId' = [cacheId EXCEPT ![r.id] = data[c]]
          /\ UNCHANGED <<cacheRegion, cacheAll>>
    /\ UNCHANGED <<calls, db, req, pg, data, done>>

\* Insert: InsertOne of the group under its new ObjectId.
DbInsert(c) ==
    /\ At(c, "db_write", "set_id")
    /\ req[c].kind = "insert"
    /\ db' = [db EXCEPT ![pg[c].id] = pg[c]]
    /\ SetDone(c, Written)
    /\ UNCHANGED <<calls, cacheId, cacheRegion, cacheAll, req, pg, data>>

\* Update: ReplaceOne({_id: ObjectIDFromHex(pg.Id)}), which matches nothing
\* for an id that is not in the collection (the zero group's "" included).
\* UpdatePriceGroup answers success whatever follows: the err assigned from
\* Update is the one its `data, err :=` declared inside the if block.
DbUpdate(c) ==
    LET g == pg[c] IN
    /\ At(c, "db_write", "set_id")
    /\ req[c].kind = "update"
    /\ IF g.id \in Ids /\ db[g.id] # Absent
       THEN db' = [db EXCEPT ![g.id] = g]
       ELSE UNCHANGED db
    /\ SetDone(c, Written)
    /\ UNCHANGED <<calls, cacheId, cacheRegion, cacheAll, req, pg, data>>

\* updateCache: Set the id key, Set the region key, Delete the all key; the
\* first failure returns its error and skips the rest.
SetIdKey(c) ==
    /\ pc[c] = "set_id"
    /\ \/ /\ cacheId' = [cacheId EXCEPT ![pg[c].id] = pg[c]]
          /\ pc' = [pc EXCEPT ![c] = "set_region"]
       \/ /\ pc' = [pc EXCEPT ![c] = "return"] /\ UNCHANGED cacheId
    /\ UNCHANGED <<calls, db, cacheRegion, cacheAll, req, pg, data, done>>

SetRegionKey(c) ==
    /\ pc[c] = "set_region"
    /\ \/ /\ cacheRegion' = [cacheRegion EXCEPT ![pg[c].region] = pg[c]]
          /\ pc' = [pc EXCEPT ![c] = "del_all"]
       \/ /\ pc' = [pc EXCEPT ![c] = "return"] /\ UNCHANGED cacheRegion
    /\ UNCHANGED <<calls, db, cacheId, cacheAll, req, pg, data, done>>

DeleteAllKey(c) ==
    /\ At(c, "del_all", "return")
    /\ \/ cacheAll' = Absent
       \/ UNCHANGED cacheAll
    /\ UNCHANGED <<calls, db, cacheId, cacheRegion, req, pg, data, done>>

Return(c) ==
    /\ At(c, "return", "idle")
    /\ req' = [req EXCEPT ![c] = Idle]
    /\ SetPg(c, Zero)
    /\ SetDone(c, Idle)
    /\ UNCHANGED <<calls, db, cacheId, cacheRegion, cacheAll, data>>

\* Every call has returned and the bound on calls is reached.
Quiescent ==
    /\ calls = MaxCalls /\ \A c \in Clients : pc[c] = "idle"
    /\ UNCHANGED vars

Next ==
    \/ Quiescent
    \/ \E c \in Clients :
        \/ \E r \in Requests : Call(c, r)
        \/ CacheGet(c) \/ DbRead(c) \/ CacheSetRead(c)
        \/ DbInsert(c) \/ DbUpdate(c) \/ SetIdKey(c) \/ SetRegionKey(c) \/ DeleteAllKey(c)
        \/ Return(c)

Spec == Init /\ [][Next]_vars

-----------------------------------------------------------------------------
TypeOK ==
    /\ db \in [Ids -> Group \cup {Absent}]
    /\ \A i \in Ids : db[i] # Absent => db[i].id = i
    /\ cacheId \in [Ids \cup {NoId} -> Group \cup {Zero, Absent}]
    /\ cacheRegion \in [Regions \cup {NoRegion} -> Group \cup {Absent}]
    /\ cacheAll \in {Absent} \cup SUBSET Group
    /\ pc \in [Clients -> {"idle", "cache_get", "db_read", "cache_set",
                            "db_write", "set_id", "set_region", "del_all",
                            "return"}]
    /\ req \in [Clients -> Requests \cup {Idle}]
    /\ \A c \in Clients :
          \/ done[c] \in {Idle, NotFound, Written}
          \/ req[c] # Idle /\ req[c].kind = "getAll" /\ done[c] \in SUBSET Group
          \/ req[c] # Idle /\ req[c].kind # "getAll" /\ done[c] \in Group \cup {Zero}

\* The store the repository's callers see: the collection, and each
\* client's call with the result it has taken effect with.
Store == INSTANCE PriceGroupStore
            WITH store <- db,
                 op <- [c \in Clients |-> IF pc[c] = "idle" THEN Idle ELSE req[c]]

(***************************************************************************)
(* The repository behaves as one store of price groups whose every call    *)
(* takes effect at one instant (PriceGroupStore), whatever the cache holds *)
(* and however the clients' database and cacher calls interleave.  The     *)
(* code does not implement it: with a cacher whose Get succeeds a read     *)
(* answers the zero group (MCPriceGroupCacheHit.cfg), and with one whose   *)
(* Get fails UpdatePriceGroup's GetById and ReplaceOne are separate calls, *)
(* so an update that found the group active overwrites a concurrent       *)
(* deactivation.                                                           *)
(***************************************************************************)
StoreRefinement == Store!Spec

(***************************************************************************)
(* Cache entries are invalidated on every write: when no call is in        *)
(* flight, an id key holds the stored group, a region key an active group *)
(* of that region, and the all key the set of active groups.              *)
(***************************************************************************)
CacheInvalidatedOnWrite ==
    (\A c \in Clients : pc[c] = "idle") =>
        /\ \A i \in Ids : cacheId[i] \in {Absent, db[i]}
        /\ \A r \in Regions :
              cacheRegion[r] = Absent
              \/ cacheRegion[r] \in {g \in ActiveGroups(db) : g.region = r}
        /\ cacheAll \in {Absent, ActiveGroups(db)}

====
