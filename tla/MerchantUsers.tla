---------------------------- MODULE MerchantUsers ----------------------------
(***************************************************************************)
(* The user-role handlers of internal/service/users.go for one merchant    *)
(* and for the system (admin) side, run by concurrent clients:            *)
(*   InviteUserMerchant / InviteUserAdmin          ("invite")              *)
(*   ResendInviteMerchant / ResendInviteAdmin      ("resend")              *)
(*   AcceptInvite                                  ("accept")              *)
(*   ChangeRoleForMerchantUser / ...AdminUser      ("change")              *)
(*   DeleteMerchantUser / DeleteAdminUser          ("delete")              *)
(* Each call to the user-role repository, the casbin server, the mail      *)
(* broker or the profile collection is one atomic step and may fail when   *)
(* its service is in Fallible; a failure ends the handler with an error.   *)
(* A handler reads a role record into a local copy and later writes the   *)
(* whole copy back (UpdateMerchantUser / UpdateAdminUser).                *)
(* Early returns on data outside the model (merchant, company, owner,      *)
(* token signature or expiry, e-mail claim, profile names) are Reject.    *)
(***************************************************************************)
EXTENDS Naturals, FiniteSets

CONSTANTS
    Clients, Emails, Users, RoleNames, RoleIds,
    Fallible,   \* services whose calls may fail: subset of {"db","casbin","mail","profile"}
    MaxCalls,   \* bound on the handler calls of one behaviour
    Absent,     \* an id not yet issued
    Gone,       \* an id whose record was deleted (ObjectIDs are not reused)
    NoUser, Idle

Kinds == {"merchant", "system"}      \* pkg.RoleTypeMerchant, pkg.RoleTypeSystem

Role == [id : RoleIds, kind : Kinds, email : Emails, role : RoleNames,
         status : {"invited", "accepted"}, user : Users \cup {NoUser}]

\* The invite-link token: claims type, email and role_id.
Token == [kind : Kinds, email : Emails, roleId : RoleIds]

VARIABLES
    roles,      \* user-role collection: id -> record or Absent
    casbin,     \* casbin server: subject <<kind, user>> -> roles granted
    mail,       \* invite tokens published to the mail broker
    confirmed,  \* user profile -> Email.Confirmed
    pc, req,    \* each client's step and request
    copy,       \* the role record the client read
    calls       \* handler calls so far

vars == <<roles, casbin, mail, confirmed, pc, req, copy, calls>>

Subject(kind, u) == <<kind, u>>

Exists(i) == roles[i] \notin {Absent, Gone}

Requests ==
    [op : {"invite"}, kind : Kinds, email : Emails, role : RoleNames]
    \cup [op : {"resend"}, kind : Kinds, email : Emails]
    \cup [op : {"accept"}, token : Token, user : Users]
    \cup [op : {"change"}, kind : Kinds, id : RoleIds, role : RoleNames]
    \cup [op : {"delete"}, kind : Kinds, id : RoleIds]

FirstStep == [invite |-> "check", resend |-> "lookup", accept |-> "lookup",
              change |-> "lookup", delete |-> "lookup"]

Init ==
    /\ roles = [i \in RoleIds |-> Absent]
    /\ casbin = [s \in Kinds \X Users |-> {}]
    /\ mail = {}
    /\ confirmed \in [Users -> BOOLEAN]
    /\ pc = [c \in Clients |-> "idle"]
    /\ req = [c \in Clients |-> Idle]
    /\ copy = [c \in Clients |-> Absent]
    /\ calls = 0

Goto(c, s)  == pc' = [pc EXCEPT ![c] = s]
Keep(c, v)  == copy' = [copy EXCEPT ![c] = v]

\* The service each writing step calls.
Service == [add |-> "db", send |-> "mail", update |-> "db", delete |-> "db",
            casbin_del |-> "casbin", casbin_add |-> "casbin",
            confirm |-> "profile", truncate |-> "profile"]

\* An accept presents a token that was mailed.
Call(c, r) ==
    /\ pc[c] = "idle" /\ calls < MaxCalls
    /\ r.op = "accept" => r.token \in mail
    /\ req' = [req EXCEPT ![c] = r]
    /\ Goto(c, FirstStep[r.op])
    /\ calls' = calls + 1
    /\ UNCHANGED <<roles, casbin, mail, confirmed, copy>>

Reject(c) ==
    /\ req[c] # Idle /\ pc[c] = FirstStep[req[c].op]
    /\ Goto(c, "idle")
    /\ UNCHANGED <<roles, casbin, mail, confirmed, req, copy, calls>>

\* The service call of the client's current step fails: the handler returns
\* its error and skips everything after it.
CallFails(c) ==
    /\ pc[c] \in DOMAIN Service /\ Service[pc[c]] \in Fallible
    /\ Goto(c, "idle")
    /\ UNCHANGED <<roles, casbin, mail, confirmed, req, copy, calls>>

\* Invite: GetMerchantUserByEmail / GetAdminUserByEmail; a record for the
\* email ends the call with errorUserAlreadyExist.
CheckEmail(c) ==
    LET r == req[c] IN
    /\ pc[c] = "check"
    /\ IF \E i \in RoleIds : Exists(i) /\ roles[i].kind = r.kind
                                              /\ roles[i].email = r.email
       THEN Goto(c, "idle") ELSE Goto(c, "add")
    /\ UNCHANGED <<roles, casbin, mail, confirmed, req, copy, calls>>

\* Invite: AddMerchantUser / AddAdminUser of a new record, status invited,
\* under primitive.NewObjectID().
AddUser(c) ==
    LET r == req[c] IN
    /\ pc[c] = "add"
    /\ \E i \in RoleIds :
         LET new == [id |-> i, kind |-> r.kind, email |-> r.email, role |-> r.role,
                     status |-> "invited", user |-> NoUser]
         IN  /\ roles[i] = Absent
             /\ roles' = [roles EXCEPT ![i] = new]
             /\ Keep(c, new)
    /\ Goto(c, "send")
    /\ UNCHANGED <<casbin, mail, confirmed, req, calls>>

\* sendInviteEmail: publish the invite link (a token for the record's email
\* and id) for the record added or read.
SendInvite(c) ==
    /\ pc[c] = "send"
    /\ mail' = mail \cup {[kind |-> copy[c].kind, email |-> copy[c].email,
                           roleId |-> copy[c].id]}
    /\ Goto(c, "idle")
    /\ UNCHANGED <<roles, casbin, confirmed, req, copy, calls>>

\* The record the request names, by email (resend) or by id (the token's
\* role_id for accept, req.RoleId for change and delete), of the request's
\* type; None when there is none.
Target(r) ==
    LET kind == IF r.op = "accept" THEN r.token.kind ELSE r.kind
        ids  == CASE r.op = "resend" ->
                       {i \in RoleIds : Exists(i) /\ roles[i].email = r.email}
                  [] r.op = "accept" -> {r.token.roleId}
                  [] OTHER -> {r.id}
        hits == {i \in ids : Exists(i) /\ roles[i].kind = kind}
    IN  IF hits = {} THEN Absent ELSE roles[CHOOSE i \in hits : TRUE]

\* The handler's copy is the record read and it goes on to next, or it
\* returns (errorUserNotFound, errorUserUnableResendInvite,
\* errorUserInviteAlreadyAccepted) when there is none or ok fails.
Found(c, u, ok, next) ==
    /\ IF u = Absent \/ ~ok
       THEN Goto(c, "idle") /\ UNCHANGED copy
       ELSE Keep(c, u) /\ Goto(c, next)
    /\ UNCHANGED <<roles, casbin, mail, confirmed, req, calls>>

\* ResendInviteMerchant: GetMerchantUserByEmail, and only a record still
\* invited gets a new link.
ResendInviteMerchantLookup(c) ==
    LET u == Target(req[c]) IN
    /\ pc[c] = "lookup" /\ req[c].op = "resend" /\ req[c].kind = "merchant"
    /\ Found(c, u, u # Absent /\ u.status = "invited", "send")

\* ResendInviteAdmin: GetAdminUserByEmail, with no status check.
ResendInviteAdminLookup(c) ==
    /\ pc[c] = "lookup" /\ req[c].op = "resend" /\ req[c].kind = "system"
    /\ Found(c, Target(req[c]), TRUE, "send")

\* AcceptInvite: GetMerchantUserById / GetAdminUserById by the token's type
\* and role_id; a record no longer invited is
\* errorUserInviteAlreadyAccepted.
AcceptInviteLookup(c) ==
    LET u == Target(req[c]) IN
    /\ pc[c] = "lookup" /\ req[c].op = "accept"
    /\ Found(c, u, u # Absent /\ u.status = "invited", "update")

\* ChangeRoleFor...User and Delete...User: Get...UserById(req.RoleId).
RoleIdLookup(c) ==
    /\ pc[c] = "lookup" /\ req[c].op \in {"change", "delete"}
    /\ Found(c, Target(req[c]), TRUE,
             IF req[c].op = "delete" THEN "delete" ELSE "update")

\* Variant of UpdateUser that does not set user.UserId.
UpdateUserNoUserId(c) ==
    LET r   == req[c]
        new == IF r.op = "accept"
               THEN [copy[c] EXCEPT !.status = "accepted"]
               ELSE [copy[c] EXCEPT !.role = r.role]
    IN
    /\ pc[c] = "update"
    /\ roles' = IF Exists(new.id) THEN [roles EXCEPT ![new.id] = new] ELSE roles
    /\ Keep(c, new)
    /\ Goto(c, IF r.op = "accept" THEN "casbin_add"
               ELSE IF new.user # NoUser THEN "casbin_del" ELSE "idle")
    /\ UNCHANGED <<casbin, mail, confirmed, req, calls>>

\* UpdateMerchantUser / UpdateAdminUser write the whole copy back: accepted
\* by req.UserId (AcceptInvite) or with req.Role (ChangeRole...).  The
\* write replaces the record by id and matches nothing once it is deleted.
UpdateUser(c) ==
    LET r   == req[c]
        new == IF r.op = "accept"
               THEN [copy[c] EXCEPT !.status = "accepted", !.user = r.user]
               ELSE [copy[c] EXCEPT !.role = r.role]
    IN
    /\ pc[c] = "update"
    /\ roles' = IF Exists(new.id) THEN [roles EXCEPT ![new.id] = new] ELSE roles
    /\ Keep(c, new)
    /\ Goto(c, IF r.op = "accept" THEN "casbin_add"
               ELSE IF new.user # NoUser THEN "casbin_del" ELSE "idle")
    /\ UNCHANGED <<casbin, mail, confirmed, req, calls>>

\* DeleteMerchantUser / DeleteAdminUser of the record read.
DeleteUser(c) ==
    /\ pc[c] = "delete"
    /\ roles' = [roles EXCEPT ![copy[c].id] = Gone]
    /\ Goto(c, IF copy[c].user # NoUser THEN "casbin_del" ELSE "truncate")
    /\ UNCHANGED <<casbin, mail, confirmed, req, copy, calls>>

\* casbinService.DeleteUser of the record's subject: every role it has.
CasbinDeleteUser(c) ==
    /\ pc[c] = "casbin_del"
    /\ casbin' = [casbin EXCEPT ![Subject(copy[c].kind, copy[c].user)] = {}]
    /\ Goto(c, IF req[c].op = "change" THEN "casbin_add" ELSE "truncate")
    /\ UNCHANGED <<roles, mail, confirmed, req, copy, calls>>

\* casbinService.AddRoleForUser of the record's subject and role.
CasbinAddRole(c) ==
    LET s == Subject(copy[c].kind, copy[c].user) IN
    /\ pc[c] = "casbin_add"
    /\ casbin' = [casbin EXCEPT ![s] = @ \cup {copy[c].role}]
    /\ Goto(c, IF req[c].op = "accept" THEN "confirm" ELSE "idle")
    /\ UNCHANGED <<roles, mail, confirmed, req, copy, calls>>

\* AcceptInvite: emailConfirmedSuccessfully(profile).  Delete...User:
\* GetByUserId(user.UserId), and for a profile emailConfirmedTruncate.
WriteProfile(c) ==
    LET u == copy[c].user IN
    /\ pc[c] \in {"confirm", "truncate"}
    /\ confirmed' = IF u = NoUser THEN confirmed
                    ELSE [confirmed EXCEPT ![u] = (pc[c] = "confirm")]
    /\ Goto(c, "idle")
    /\ UNCHANGED <<roles, casbin, mail, req, copy, calls>>

\* Every call has returned and the bound on calls is reached.
Quiescent ==
    /\ calls = MaxCalls /\ \A c \in Clients : pc[c] = "idle"
    /\ UNCHANGED vars

Next ==
    \/ Quiescent
    \/ \E c \in Clients :
          \/ \E r \in Requests : Call(c, r)
          \/ Reject(c) \/ CallFails(c)
          \/ CheckEmail(c) \/ AddUser(c) \/ SendInvite(c)
          \/ ResendInviteMerchantLookup(c) \/ ResendInviteAdminLookup(c)
          \/ AcceptInviteLookup(c) \/ RoleIdLookup(c)
          \/ UpdateUser(c) \/ DeleteUser(c) \/ CasbinDeleteUser(c)
          \/ CasbinAddRole(c) \/ WriteProfile(c)

Spec == Init /\ [][Next]_vars

-----------------------------------------------------------------------------
\* A record is accepted exactly when it carries the accepting user.
TypeOK ==
    /\ roles \in [RoleIds -> Role \cup {Absent, Gone}]
    /\ \A i \in RoleIds : Exists(i) =>
          /\ roles[i].id = i
          /\ (roles[i].status = "accepted") = (roles[i].user # NoUser)
    /\ casbin \in [Kinds \X Users -> SUBSET RoleNames]
    /\ mail \subseteq Token
    /\ confirmed \in [Users -> BOOLEAN]
    /\ req \in [Clients -> Requests \cup {Idle}]
    /\ copy \in [Clients -> Role \cup {Absent}]
    /\ calls \in 0..MaxCalls

(***************************************************************************)
(* An invite is accepted once: once a record carries the user who accepted *)
(* it, no step gives it another user or takes the user away (AcceptInvite  *)
(* answers errorUserInviteAlreadyAccepted to a second acceptance).  Two   *)
(* clients break it (MCMerchantUsersAcceptRace.cfg): the status check and *)
(* the whole-record write are separate calls.                             *)
(***************************************************************************)
AcceptOnce ==
    [][\A i \in RoleIds :
         (Exists(i) /\ roles[i].user # NoUser /\ roles'[i] \notin {Absent, Gone})
            => roles'[i].user = roles[i].user]_roles

(***************************************************************************)
(* One record per e-mail and role type: InviteUser... answers              *)
(* errorUserAlreadyExist when the e-mail already has a record.  Two       *)
(* concurrent invites break it (MCMerchantUsersInviteRace.cfg).           *)
(***************************************************************************)
UniqueInvite ==
    \A i, j \in RoleIds :
        (i # j /\ Exists(i) /\ Exists(j) /\ roles[i].kind = roles[j].kind)
            => roles[i].email # roles[j].email

(***************************************************************************)
(* When no handler is running, the casbin server grants each subject the   *)
(* roles of its accepted records: what AcceptInvite, ChangeRole... and     *)
(* Delete...User do to the records they also do to casbin.                *)
(***************************************************************************)
CasbinMirrorsRoles ==
    (\A c \in Clients : pc[c] = "idle") =>
        \A k \in Kinds, u \in Users :
            casbin[Subject(k, u)] =
                {roles[i].role : i \in {j \in RoleIds : Exists(j) /\ roles[j].kind = k
                                                      /\ roles[j].user = u}}

====
