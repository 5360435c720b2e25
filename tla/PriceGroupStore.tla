--------------------------- MODULE PriceGroupStore ---------------------------
(***************************************************************************)
(* What the price-group repository promises its callers: one store of      *)
(* groups addressed by id, each call taking effect at one instant.         *)
(*   getById / getByRegion  an active group, or not found                  *)
(*   getAll                 the set of active groups                       *)
(*   update                 replace an active group by id, or not found    *)
(*   insert                 add a group under a fresh id                   *)
(* A call is invoked (Call), takes effect (Apply), and returns (Return).   *)
(***************************************************************************)
EXTENDS FiniteSets

CONSTANTS Ids, Regions, Clients, InitStore, Absent, NotFound, Idle, Written

Group == [id : Ids, region : Regions, active : BOOLEAN]

Requests ==
    [kind : {"update"}, id : Ids, region : Regions, active : BOOLEAN]
    \cup [kind : {"insert"}, region : Regions, active : BOOLEAN]
    \cup [kind : {"getById"}, id : Ids]
    \cup [kind : {"getByRegion"}, region : Regions]
    \cup [kind : {"getAll"}]

VARIABLES store, op, done

IsActive(s, i) == s[i] # Absent /\ s[i].active

ActiveGroups(s) == {s[i] : i \in {j \in Ids : IsActive(s, j)}}

Init ==
    /\ store = InitStore
    /\ op = [c \in Clients |-> Idle]
    /\ done = [c \in Clients |-> Idle]

Call(c, r) ==
    /\ op[c] = Idle
    /\ op' = [op EXCEPT ![c] = r]
    /\ UNCHANGED <<store, done>>

Result(c, v) == done' = [done EXCEPT ![c] = v]

Apply(c) ==
    LET r == op[c] IN
    /\ r # Idle /\ done[c] = Idle
    /\ CASE r.kind = "getById" ->
              /\ Result(c, IF IsActive(store, r.id) THEN store[r.id] ELSE NotFound)
              /\ UNCHANGED store
         [] r.kind = "getByRegion" ->
              LET hits == {g \in ActiveGroups(store) : g.region = r.region} IN
              /\ \E v \in IF hits = {} THEN {NotFound} ELSE hits : Result(c, v)
              /\ UNCHANGED store
         [] r.kind = "getAll" ->
              Result(c, ActiveGroups(store)) /\ UNCHANGED store
         [] r.kind = "update" ->
              IF IsActive(store, r.id)
              THEN /\ store' = [store EXCEPT ![r.id] =
                                  [id |-> r.id, region |-> r.region, active |-> r.active]]
                   /\ Result(c, Written)
              ELSE Result(c, NotFound) /\ UNCHANGED store
         [] r.kind = "insert" ->
              \E i \in Ids :
                 /\ store[i] = Absent
                 /\ store' = [store EXCEPT ![i] =
                                [id |-> i, region |-> r.region, active |-> r.active]]
                 /\ Result(c, Written)
    /\ UNCHANGED op

Return(c) ==
    /\ done[c] # Idle
    /\ op' = [op EXCEPT ![c] = Idle]
    /\ done' = [done EXCEPT ![c] = Idle]
    /\ UNCHANGED store

Next == \E c \in Clients : (\E r \in Requests : Call(c, r)) \/ Apply(c) \/ Return(c)

Spec == Init /\ [][Next]_<<store, op, done>>

====
