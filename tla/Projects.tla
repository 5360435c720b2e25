------------------------------- MODULE Projects -------------------------------
(***************************************************************************)
(* The project handlers of internal/service/project.go and the Project     *)
(* repository, run by concurrent clients:                                 *)
(*   ChangeProject  ("change")  create (no id) or update a merchant's project *)
(*   DeleteProject  ("delete")  mark a project deleted                     *)
(*   Project.GetById ("get")    cached read used by the other services     *)
(*   GetProject     ("show")    a merchant's read of one of its projects   *)
(* Insert and Update write the database and then set the cacher key        *)
(* project:id:<id> (no TTL); GetById fills the key after a database read. *)
(* Each database or cacher call is one atomic step and may fail when       *)
(* Fallible holds.  cacher.Get(key, c) receives c by value; as in          *)
(* PriceGroupCache the Get is taken to miss, so every read goes to the     *)
(* database.  NeedChangeStatusToDraft and IsDeleted are methods of         *)
(* billing.Project, outside this repository, and are constant operators.  *)
(* The request validation of ChangeProject (names, currencies, virtual     *)
(* currency, descriptions, limits) is on data the model leaves out and is  *)
(* Reject.                                                                 *)
(***************************************************************************)
EXTENDS Naturals, FiniteSets

CONSTANTS
    Clients, Merchants, ProjectIds, Data,
    Statuses,     \* pkg.ProjectStatus* values a request may carry
    Draft, Deleted,
    Kinds,        \* the handlers clients may call
    Fallible,     \* whether database and cacher calls may fail
    MaxCalls,     \* bound on the handler calls of one behaviour
    NeedChangeStatusToDraft(_, _), IsDeleted(_),
    Absent, Miss, NoId, None, Idle,
    NoMerchant    \* the empty MerchantId of a GetProject request

ASSUME {Draft, Deleted} \subseteq Statuses

\* The billing.Project fields the handlers tell apart.
Project == [merchant : Merchants, status : Statuses, data : Data]

Requests ==
    [kind : {"change"}, merchant : Merchants, id : ProjectIds \cup {NoId},
     status : Statuses, data : Data]
    \cup [kind : {"delete"}, merchant : Merchants, id : ProjectIds]
    \cup [kind : {"get"}, id : ProjectIds]
    \cup [kind : {"show"}, merchant : Merchants \cup {NoMerchant}, id : ProjectIds]

VARIABLES
    projects,   \* project collection: _id -> document or Absent
    cache,      \* cacher key project:id:<id> -> document or Miss
    pc, req,    \* each client's step and request
    copy,       \* the document the client will write or cache
    target,     \* the _id the client writes
    stored,     \* per _id, every document the collection has held
    editedBy,   \* per _id, the merchants whose requests wrote it
    shownTo,    \* per _id, the requested MerchantIds GetProject answered with it
    calls       \* handler calls so far

vars == <<projects, cache, pc, req, copy, target, stored, editedBy, shownTo, calls>>

Init ==
    /\ projects = [i \in ProjectIds |-> Absent]
    /\ cache = [i \in ProjectIds |-> Miss]
    /\ pc = [c \in Clients |-> "idle"]
    /\ req = [c \in Clients |-> Idle]
    /\ copy = [c \in Clients |-> None]
    /\ target = [c \in Clients |-> NoId]
    /\ stored = [i \in ProjectIds |-> {}]
    /\ editedBy = [i \in ProjectIds |-> {}]
    /\ shownTo = [i \in ProjectIds |-> {}]
    /\ calls = 0

Goto(c, s) == pc' = [pc EXCEPT ![c] = s]
Finish(c) == /\ Goto(c, "idle")
             /\ req' = [req EXCEPT ![c] = Idle]
             /\ copy' = [copy EXCEPT ![c] = None]
             /\ target' = [target EXCEPT ![c] = NoId]
Keep(c, p, i, s) == /\ copy' = [copy EXCEPT ![c] = p]
                    /\ target' = [target EXCEPT ![c] = i]
                    /\ Goto(c, s)
                    /\ UNCHANGED req

Creating(c) == req[c].kind = "change" /\ req[c].id = NoId
FreeIds == {i \in ProjectIds : projects[i] = Absent
                               /\ \A c \in Clients : target[c] # i}

\* Model bound: a fresh ObjectId is left for every create in flight.
Call(c, r) ==
    /\ pc[c] = "idle" /\ calls < MaxCalls /\ r.kind \in Kinds
    /\ r.kind = "change" /\ r.id = NoId =>
         Cardinality(FreeIds) > Cardinality({d \in Clients : pc[d] # "idle" /\ Creating(d)})
    /\ req' = [req EXCEPT ![c] = r]
    /\ Goto(c, CASE r.kind = "change" -> "merchant"
                 [] r.kind = "delete" -> "find"
                 [] r.kind = "get"    -> "read"
                 [] r.kind = "show"   -> "show")
    /\ calls' = calls + 1
    /\ UNCHANGED <<projects, cache, copy, target, stored, editedBy, shownTo>>

\* A failed call whose handler returns at once: merchant lookup, getProjectBy
\* or FindOne (reported as not found).
CallFails(c) ==
    /\ Fallible
    /\ pc[c] \in {"merchant", "find", "read", "show"}
    /\ Finish(c)
    /\ UNCHANGED <<projects, cache, stored, editedBy, shownTo, calls>>

\* An early return on request data the model leaves out.
Reject(c) ==
    /\ pc[c] = "write" /\ req[c].kind = "change"
    /\ Finish(c)
    /\ UNCHANGED <<projects, cache, stored, editedBy, shownTo, calls>>

(***************************************************************************)
(* ChangeProject                                                           *)
(***************************************************************************)
\* s.merchant.GetById succeeds; a request with an id looks the project up.
MerchantFound(c) ==
    /\ pc[c] = "merchant"
    /\ IF req[c].id = NoId
       THEN Keep(c, None, NoId, "write")
       ELSE Keep(c, None, NoId, "find")
    /\ UNCHANGED <<projects, cache, stored, editedBy, shownTo, calls>>

\* updateProject: the request's fields onto the stored project; the status
\* is the requested one unless NeedChangeStatusToDraft.
UpdateProject(p, r) ==
    [p EXCEPT !.status = IF NeedChangeStatusToDraft(p, r) THEN Draft ELSE r.status,
              !.data = r.data]

\* createProject: a new project of the merchant, in Draft.
CreateProject(r) == [merchant |-> r.merchant, status |-> Draft, data |-> r.data]

\* Variant: getProjectBy with the _id alone and no MerchantId comparison.
FindForChangeByIdOnly(c) ==
    /\ pc[c] = "find" /\ req[c].kind = "change"
    /\ LET i == req[c].id IN
       IF projects[i] # Absent
       THEN Keep(c, UpdateProject(projects[i], req[c]), i, "write")
       ELSE Finish(c)
    /\ UNCHANGED <<projects, cache, stored, editedBy, shownTo, calls>>

\* getProjectBy({_id, merchant_id}) and the MerchantId comparison.
FindForChange(c) ==
    /\ pc[c] = "find" /\ req[c].kind = "change"
    /\ LET i == req[c].id IN
       IF projects[i] # Absent /\ projects[i].merchant = req[c].merchant
       THEN Keep(c, UpdateProject(projects[i], req[c]), i, "write")
       ELSE Finish(c)                       \* projectErrorNotFound
    /\ UNCHANGED <<projects, cache, stored, editedBy, shownTo, calls>>

(***************************************************************************)
(* DeleteProject: getProjectBy({_id}), the merchant check, IsDeleted, and  *)
(* Update of the copy with status Deleted.                                 *)
(***************************************************************************)
FindForDelete(c) ==
    /\ pc[c] = "find" /\ req[c].kind = "delete"
    /\ LET i == req[c].id IN
       IF projects[i] = Absent \/ projects[i].merchant # req[c].merchant
             \/ IsDeleted(projects[i])
       THEN Finish(c)
       ELSE Keep(c, [projects[i] EXCEPT !.status = Deleted], i, "write")
    /\ UNCHANGED <<projects, cache, stored, editedBy, shownTo, calls>>

(***************************************************************************)
(* Project.Insert / Project.Update: InsertOne or ReplaceOne, then          *)
(* cacher.Set of the written document.  A failed database call returns     *)
(* the error before the cache step.                                        *)
(***************************************************************************)
Store(i, p, m) ==
    /\ projects' = [projects EXCEPT ![i] = p]
    /\ stored' = [stored EXCEPT ![i] = @ \cup {p}]
    /\ editedBy' = [editedBy EXCEPT ![i] = @ \cup {m}]

\* Variant: the database error is dropped and the cache is set anyway.
WriteProjectIgnoreErr(c) ==
    /\ pc[c] = "write"
    /\ \/ /\ Creating(c)
          /\ \E i \in FreeIds :
               /\ Store(i, CreateProject(req[c]), req[c].merchant)
               /\ Keep(c, CreateProject(req[c]), i, "cacheSet")
       \/ /\ ~Creating(c)
          /\ Store(target[c], copy[c], req[c].merchant)
          /\ Goto(c, "cacheSet")
          /\ UNCHANGED <<req, copy, target>>
       \/ /\ Fallible /\ ~Creating(c)
          /\ Goto(c, "cacheSet")
          /\ UNCHANGED <<req, copy, target, projects, stored, editedBy>>
    /\ UNCHANGED <<cache, shownTo, calls>>

WriteProject(c) ==
    /\ pc[c] = "write"
    /\ \/ /\ Creating(c)
          /\ \E i \in FreeIds :
               /\ Store(i, CreateProject(req[c]), req[c].merchant)
               /\ Keep(c, CreateProject(req[c]), i, "cacheSet")
       \/ /\ ~Creating(c)
          /\ Store(target[c], copy[c], req[c].merchant)
          /\ Goto(c, "cacheSet")
          /\ UNCHANGED <<req, copy, target>>
       \/ /\ Fallible                       \* projectErrorUnknown
          /\ Finish(c)
          /\ UNCHANGED <<projects, stored, editedBy>>
    /\ UNCHANGED <<cache, shownTo, calls>>

\* cacher.Set(project:id:<id>, project); its error becomes the handler's
\* error, after the database write.
CacheSet(c) ==
    /\ pc[c] = "cacheSet"
    /\ \/ cache' = [cache EXCEPT ![target[c]] = copy[c]]
       \/ Fallible /\ UNCHANGED cache
    /\ Finish(c)
    /\ UNCHANGED <<projects, stored, editedBy, shownTo, calls>>

(***************************************************************************)
(* Project.GetById: the cacher Get misses, FindOne by _id, then cacher.Set *)
(* of what was read (a Set error is only logged).                          *)
(***************************************************************************)
\* Variant: the FindOne error is not checked and the zero project is cached.
ReadProjectIgnoreErr(c) ==
    /\ pc[c] = "read"
    /\ Keep(c, projects[req[c].id], req[c].id, "fill")
    /\ UNCHANGED <<projects, cache, stored, editedBy, shownTo, calls>>

ReadProject(c) ==
    /\ pc[c] = "read"
    /\ IF projects[req[c].id] = Absent
       THEN Finish(c)
       ELSE Keep(c, projects[req[c].id], req[c].id, "fill")
    /\ UNCHANGED <<projects, cache, stored, editedBy, shownTo, calls>>

Fill(c) ==
    /\ pc[c] = "fill"
    /\ \/ cache' = [cache EXCEPT ![target[c]] = copy[c]]
       \/ Fallible /\ UNCHANGED cache
    /\ Finish(c)
    /\ UNCHANGED <<projects, stored, editedBy, shownTo, calls>>

(***************************************************************************)
(* GetProject: getProjectBy({_id}, plus merchant_id when the request has   *)
(* one), then the MerchantId comparison; getProductsCountByProject only    *)
(* fills a response field.  A FindOne error is CallFails.                  *)
(***************************************************************************)
ShowQuery(r) ==
    /\ projects[r.id] # Absent
    /\ r.merchant # NoMerchant => projects[r.id].merchant = r.merchant

\* Variant: the answer relies on the query alone.
GetProjectNoMerchantCheck(c) ==
    /\ pc[c] = "show"
    /\ shownTo' = IF ShowQuery(req[c])
                  THEN [shownTo EXCEPT ![req[c].id] = @ \cup {req[c].merchant}]
                  ELSE shownTo
    /\ Finish(c)
    /\ UNCHANGED <<projects, cache, stored, editedBy, calls>>

GetProject(c) ==
    /\ pc[c] = "show"
    /\ shownTo' = IF ShowQuery(req[c])
                     /\ projects[req[c].id].merchant = req[c].merchant
                  THEN [shownTo EXCEPT ![req[c].id] = @ \cup {req[c].merchant}]
                  ELSE shownTo                  \* projectErrorNotFound
    /\ Finish(c)
    /\ UNCHANGED <<projects, cache, stored, editedBy, calls>>

Quiescent ==
    /\ calls = MaxCalls /\ \A c \in Clients : pc[c] = "idle"
    /\ UNCHANGED vars

Next ==
    \/ \E c \in Clients :
         \/ \E r \in Requests : Call(c, r)
         \/ CallFails(c) \/ Reject(c)
         \/ MerchantFound(c) \/ FindForChange(c) \/ FindForDelete(c)
         \/ WriteProject(c) \/ CacheSet(c)
         \/ ReadProject(c) \/ Fill(c)
         \/ GetProject(c)
    \/ Quiescent

Spec == Init /\ [][Next]_vars

-----------------------------------------------------------------------------
TypeOK ==
    /\ projects \in [ProjectIds -> Project \cup {Absent}]
    /\ cache \in [ProjectIds -> Project \cup {Miss}]
    /\ pc \in [Clients -> {"idle", "merchant", "find", "write", "cacheSet",
                           "read", "fill", "show"}]
    /\ req \in [Clients -> Requests \cup {Idle}]
    /\ copy \in [Clients -> Project \cup {None}]
    /\ target \in [Clients -> ProjectIds \cup {NoId}]
    /\ \A i \in ProjectIds : editedBy[i] \subseteq Merchants
    /\ \A i \in ProjectIds : shownTo[i] \subseteq Merchants \cup {NoMerchant}
    /\ calls \in 0..MaxCalls

\* A project is only ever written on behalf of the merchant that owns it,
\* and only shown to it: ChangeProject looks it up by _id and merchant_id,
\* DeleteProject and GetProject compare MerchantId (GetProject's query has
\* no merchant_id when the request's MerchantId is empty), and
\* updateProject never changes the owner.
OwnProjectsOnly ==
    \A i \in ProjectIds :
        projects[i] # Absent =>
            editedBy[i] \cup shownTo[i] \subseteq {projects[i].merchant}

\* The cacher never holds a project the collection did not hold at some
\* point: Insert and Update set the key only after the database accepted
\* the document, and GetById caches only what FindOne returned.
CacheHoldsStoredVersions ==
    \A i \in ProjectIds : cache[i] # Miss => cache[i] \in stored[i]
=============================================================================
