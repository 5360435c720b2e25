----------------------------- MODULE UserProfile -----------------------------
(***************************************************************************)
(* The user-profile handlers of internal/service/user_profile.go and the   *)
(* profile steps of AcceptInvite and DeleteMerchantUser/DeleteAdminUser    *)
(* (internal/service/users.go), run by concurrent clients:                 *)
(*   CreateOrUpdateUserProfile ("upsert")  onboarding data of one user     *)
(*   ConfirmUserEmail          ("confirm") the link of a confirmation mail *)
(*   AcceptInvite              ("accept")  emailConfirmedSuccessfully      *)
(*   Delete*User               ("delete")  emailConfirmedTruncate          *)
(* Every handler reads the profile with GetByUserId and writes the WHOLE   *)
(* document back with ReplaceOne; only the "confirmation sent" flag is set *)
(* field-wise ($set).  Confirmation tokens live in redis under a TTL and   *)
(* are never deleted by the code.  Each database, redis or broker call is *)
(* one atomic step and may fail when Fallible holds.  NeedConfirmEmail    *)
(* and IsEmailVerified are methods of the generated grpc.UserProfile,     *)
(* outside this repository, and are constant operators.                  *)
(***************************************************************************)
EXTENDS Naturals, FiniteSets

CONSTANTS
    Clients, ProfileIds, Users, Tokens,
    Data,         \* the onboarding data (personal, help, company, step)
    Named,        \* the data whose Personal carries first and last name
    Kinds,        \* the handlers clients may call
    Fallible,     \* whether database, redis and broker calls may fail
    MaxCalls,     \* bound on the handler calls of one behaviour
    NeedConfirmEmail(_), IsEmailVerified(_),
    EmailConfirmTokenLifetime,  \* config EMAIL_CONFIRM_TOKEN_LIFETIME, seconds
    RequestFlags, \* values a request's Email.Confirmed / IsConfirmationEmailSent carry
    Absent, NoUser, NoId, NoToken, None, Idle

ASSUME Named \subseteq Data

\* The stored fields of grpc.UserProfile that the handlers tell apart
\* (UserProfile.MarshalBSON/UnmarshalBSON).
Profile == [user : Users, data : Data, confirmed : BOOLEAN, sent : BOOLEAN]

Requests ==
    [kind : {"upsert"}, user : Users, data : Data,
     confirmed : RequestFlags, sent : RequestFlags]
    \cup [kind : {"confirm"}, token : Tokens]
    \cup [kind : {"accept", "delete"}, user : Users]

VARIABLES
    profiles,   \* user_profile collection: _id -> document or Absent
    issued,     \* the user each generated token was stored for (NoUser: unused)
    live,       \* the tokens whose redis key has not expired
    expiring,   \* the live tokens whose redis key carries a TTL
    mailed,     \* the tokens published to the postmark broker
    pc, req,    \* each client's step and request
    copy,       \* the document the client read and will write
    target,     \* the _id the client will write
    token,      \* the token the client generated
    owner,      \* the user id ConfirmUserEmail read from redis ("": NoUser)
    intended,   \* per _id, the data and confirmation its last writers set
    calls       \* handler calls so far

vars == <<profiles, issued, live, expiring, mailed, pc, req, copy, target, token,
          owner, intended, calls>>

Init ==
    /\ profiles = [i \in ProfileIds |-> Absent]
    /\ issued = [t \in Tokens |-> NoUser]
    /\ live = {}
    /\ expiring = {}
    /\ mailed = {}
    /\ pc = [c \in Clients |-> "idle"]
    /\ req = [c \in Clients |-> Idle]
    /\ copy = [c \in Clients |-> None]
    /\ target = [c \in Clients |-> NoId]
    /\ token = [c \in Clients |-> NoToken]
    /\ owner = [c \in Clients |-> NoUser]
    /\ intended = [i \in ProfileIds |-> None]
    /\ calls = 0

Goto(c, s) == pc' = [pc EXCEPT ![c] = s]
Finish(c) == /\ Goto(c, "idle")
             /\ req' = [req EXCEPT ![c] = Idle]
             /\ copy' = [copy EXCEPT ![c] = None]
             /\ target' = [target EXCEPT ![c] = NoId]
             /\ token' = [token EXCEPT ![c] = NoToken]
             /\ owner' = [owner EXCEPT ![c] = NoUser]

InFlight(k) == {c \in Clients : pc[c] # "idle" /\ req[c].kind = k}
FreeIds == {i \in ProfileIds : profiles[i] = Absent
                               /\ \A c \in Clients : target[c] # i}
FreeTokens == {t \in Tokens : issued[t] = NoUser}

\* Model bound: a fresh ObjectId and a fresh token are left for every
\* CreateOrUpdateUserProfile in flight.
Call(c, r) ==
    /\ pc[c] = "idle" /\ calls < MaxCalls /\ r.kind \in Kinds
    /\ r.kind = "upsert" =>
         /\ Cardinality(FreeIds) > Cardinality(InFlight("upsert"))
         /\ Cardinality(FreeTokens) > Cardinality(InFlight("upsert"))
    /\ req' = [req EXCEPT ![c] = r]
    /\ Goto(c, IF r.kind = "confirm" THEN "getToken" ELSE "read")
    /\ calls' = calls + 1
    /\ UNCHANGED <<profiles, issued, live, expiring, mailed, copy, target, token,
                   owner, intended>>

\* Variant: the publish error of sendUserEmailConfirmationToken is ignored
\* and the flag is set anyway.
CallFailsPublishIgnored(c) ==
    /\ Fallible
    /\ \/ /\ pc[c] \in {"write", "setToken", "setSent", "getToken", "roles"}
          /\ Finish(c)
       \/ /\ pc[c] = "read" /\ req[c].kind \in {"confirm", "accept"}
          /\ Finish(c)
       \/ /\ pc[c] = "send"
          /\ Goto(c, "setSent")
          /\ UNCHANGED <<req, copy, target, token, owner>>
    /\ UNCHANGED <<profiles, issued, live, expiring, mailed, intended, calls>>

\* A database, redis or broker call fails; the handler returns its error.
\* A failed GetByUserId is the exception: every caller treats it as "no
\* profile" (see ReadUpsert, ReadDelete).
CallFails(c) ==
    /\ Fallible
    /\ \/ pc[c] \in {"write", "setToken", "send", "setSent", "getToken", "roles"}
       \/ pc[c] = "read" /\ req[c].kind \in {"confirm", "accept"}
    /\ Finish(c)
    /\ UNCHANGED <<profiles, issued, live, expiring, mailed, intended, calls>>

\* UserProfileRepository.GetByUserId: FindOne by user_id, any one of the
\* user's documents when there are several.
ProfilesOf(u) == {i \in ProfileIds : profiles[i] # Absent /\ profiles[i].user = u}

\* The read step's outcome: keep the copy to write and the _id to write it.
Keep(c, p, i, s) ==
    /\ copy' = [copy EXCEPT ![c] = p]
    /\ target' = [target EXCEPT ![c] = i]
    /\ Goto(c, s)
    /\ UNCHANGED <<req, token, owner>>

\* updateOnboardingProfile: the request's Personal, Help, Company and
\* LastStep are copied onto the stored profile; the e-mail part is kept.
UpdateOnboardingProfile(p, d) == [p EXCEPT !.data = d]

(***************************************************************************)
(* CreateOrUpdateUserProfile: GetByUserId; a missing profile (or a failed  *)
(* read) makes the request the new profile under a fresh ObjectId, else    *)
(* updateOnboardingProfile copies the onboarding data onto the stored one. *)
(***************************************************************************)
ReadUpsert(c) ==
    /\ pc[c] = "read" /\ req[c].kind = "upsert"
    /\ LET u == req[c].user
           d == req[c].data
       IN \/ \E i \in ProfilesOf(u) :
                Keep(c, UpdateOnboardingProfile(profiles[i], d), i, "write")
          \/ /\ ProfilesOf(u) = {} \/ Fallible
             /\ \E i \in FreeIds :
                  Keep(c, [user |-> u, data |-> d, confirmed |-> req[c].confirmed,
                           sent |-> req[c].sent], i, "write")
    /\ UNCHANGED <<profiles, issued, live, expiring, mailed, intended, calls>>

\* ReplaceOne(_id, profile), with upsert for CreateOrUpdateUserProfile.  The
\* fields the handler meant to set are recorded in intended.
Intends(c) ==
    LET i == target[c]
        was == IF intended[i] = None
               THEN [data |-> copy[c].data, confirmed |-> copy[c].confirmed]
               ELSE intended[i]
    IN CASE req[c].kind = "upsert"  -> [was EXCEPT !.data = copy[c].data]
         [] OTHER                   -> [was EXCEPT !.confirmed = copy[c].confirmed]

WriteUpsert(c) ==
    /\ pc[c] = "write" /\ req[c].kind = "upsert"
    /\ profiles' = [profiles EXCEPT ![target[c]] = copy[c]]
    /\ intended' = [intended EXCEPT ![target[c]] = Intends(c)]
    /\ IF NeedConfirmEmail(copy[c])
       THEN /\ Goto(c, "setToken")
            /\ UNCHANGED <<req, copy, target, token, owner>>
       ELSE Finish(c)
    /\ UNCHANGED <<issued, live, expiring, mailed, calls>>

\* GetEmailConfirmTokenLifetime is time.Second times the configured
\* seconds, and redis SET carries an expiry only for a positive duration
\* (EX is sent when expiration > 0).  Seconds stand for the Duration: the
\* product keeps the sign for every lifetime below 2^63 ns.
ExpiresKey(lifetime) == lifetime > 0

\* Variant: the redis SET is made with expiration 0 (no TTL).
SetTokenWithoutLifetime(c) ==
    /\ pc[c] = "setToken"
    /\ \E t \in FreeTokens :
         /\ issued' = [issued EXCEPT ![t] = copy[c].user]
         /\ live' = live \cup {t}
         /\ token' = [token EXCEPT ![c] = t]
    /\ Goto(c, "send")
    /\ UNCHANGED <<profiles, expiring, mailed, req, copy, target, owner,
                   intended, calls>>

\* setUserEmailConfirmationToken: redis SET token -> user id, with
\* GetEmailConfirmTokenLifetime as the key's TTL.
SetToken(c) ==
    /\ pc[c] = "setToken"
    /\ \E t \in FreeTokens :
         /\ issued' = [issued EXCEPT ![t] = copy[c].user]
         /\ live' = live \cup {t}
         /\ expiring' = IF ExpiresKey(EmailConfirmTokenLifetime)
                        THEN expiring \cup {t} ELSE expiring
         /\ token' = [token EXCEPT ![c] = t]
    /\ Goto(c, "send")
    /\ UNCHANGED <<profiles, mailed, req, copy, target, owner, intended, calls>>

\* sendUserEmailConfirmationToken: publish the mail, then $set
\* email.is_confirmation_email_sent on the _id (no match: nothing changes).
Send(c) ==
    /\ pc[c] = "send"
    /\ mailed' = mailed \cup {token[c]}
    /\ Goto(c, "setSent")
    /\ UNCHANGED <<profiles, issued, live, expiring, req, copy, target, token, owner,
                   intended, calls>>

SetSent(c) ==
    /\ pc[c] = "setSent"
    /\ profiles' = IF profiles[target[c]] = Absent THEN profiles
                   ELSE [profiles EXCEPT ![target[c]].sent = TRUE]
    /\ Finish(c)
    /\ UNCHANGED <<issued, live, expiring, mailed, intended, calls>>

(***************************************************************************)
(* ConfirmUserEmail: the user id stored under the token, GetByUserId, and  *)
(* unless IsEmailVerified, emailConfirmedSuccessfully.                     *)
(***************************************************************************)
\* The redis GET of the token's key: the user id stored, or "" with
\* redis.Nil once the key is gone.
StoredUser(t) == IF t \in live THEN issued[t] ELSE NoUser

\* Variant without the err / empty user id check: "" goes on to GetByUserId.
GetTokenNoErrCheck(c) ==
    /\ pc[c] = "getToken"
    /\ owner' = [owner EXCEPT ![c] = StoredUser(req[c].token)]
    /\ Goto(c, "read")
    /\ UNCHANGED <<req, copy, target, token>>
    /\ UNCHANGED <<profiles, issued, live, expiring, mailed, intended, calls>>

GetToken(c) ==
    /\ pc[c] = "getToken"
    /\ LET u == StoredUser(req[c].token) IN
       IF u # NoUser
       THEN /\ owner' = [owner EXCEPT ![c] = u]
            /\ Goto(c, "read")
            /\ UNCHANGED <<req, copy, target, token>>
       ELSE Finish(c)                     \* userProfileEmailConfirmationTokenNotFound
    /\ UNCHANGED <<profiles, issued, live, expiring, mailed, intended, calls>>

ReadConfirm(c) ==
    /\ pc[c] = "read" /\ req[c].kind = "confirm"
    /\ LET u == owner[c] IN
       \/ /\ ProfilesOf(u) = {}           \* userProfileErrorUnknown
          /\ Finish(c)
       \/ \E i \in ProfilesOf(u) :
            IF IsEmailVerified(profiles[i])
            THEN Finish(c)
            ELSE Keep(c, [profiles[i] EXCEPT !.confirmed = TRUE], i, "write")
    /\ UNCHANGED <<profiles, issued, live, expiring, mailed, intended, calls>>

(***************************************************************************)
(* AcceptInvite: the profile is read (users.go:507) and must carry first   *)
(* and last name; the role record and casbin steps follow (their model is  *)
(* MerchantUsers); emailConfirmedSuccessfully then writes the copy read at *)
(* the start.                                                              *)
(***************************************************************************)
ReadAccept(c) ==
    /\ pc[c] = "read" /\ req[c].kind = "accept"
    /\ LET u == req[c].user IN
       \/ /\ \/ ProfilesOf(u) = {}        \* errorUserProfileNotFound
             \/ \E i \in ProfilesOf(u) : profiles[i].data \notin Named
          /\ Finish(c)
       \/ \E i \in ProfilesOf(u) :
            /\ profiles[i].data \in Named
            /\ Keep(c, [profiles[i] EXCEPT !.confirmed = TRUE], i, "roles")
    /\ UNCHANGED <<profiles, issued, live, expiring, mailed, intended, calls>>

\* The role steps succeed (a refusal or failure is CallFails).
Roles(c) ==
    /\ pc[c] = "roles"
    /\ Goto(c, "write")
    /\ UNCHANGED <<profiles, issued, live, expiring, mailed, req, copy, target, token,
                   owner, intended, calls>>

\* DeleteMerchantUser/DeleteAdminUser: GetByUserId; when a profile came
\* back, emailConfirmedTruncate.
ReadDelete(c) ==
    /\ pc[c] = "read" /\ req[c].kind = "delete"
    /\ LET u == req[c].user IN
       \/ /\ ProfilesOf(u) = {} \/ Fallible
          /\ Finish(c)
       \/ \E i \in ProfilesOf(u) :
            Keep(c, [profiles[i] EXCEPT !.confirmed = FALSE], i, "write")
    /\ UNCHANGED <<profiles, issued, live, expiring, mailed, intended, calls>>

\* emailConfirmedSuccessfully / emailConfirmedTruncate: ReplaceOne of the
\* whole copy; the centrifugo message that follows changes no state.
WriteConfirmation(c) ==
    /\ pc[c] = "write" /\ req[c].kind \in {"confirm", "accept", "delete"}
    /\ profiles' = [profiles EXCEPT ![target[c]] = copy[c]]
    /\ intended' = [intended EXCEPT ![target[c]] = Intends(c)]
    /\ Finish(c)
    /\ UNCHANGED <<issued, live, expiring, mailed, calls>>

\* The redis key of a token reaches its TTL and the server removes it.
Expire(t) ==
    /\ t \in expiring
    /\ live' = live \ {t}
    /\ expiring' = expiring \ {t}
    /\ UNCHANGED <<profiles, issued, mailed, pc, req, copy, target, token,
                   owner, intended, calls>>

Quiescent ==
    /\ calls = MaxCalls /\ \A c \in Clients : pc[c] = "idle"
    /\ UNCHANGED vars

Next ==
    \/ \E c \in Clients :
         \/ \E r \in Requests : Call(c, r)
         \/ CallFails(c)
         \/ ReadUpsert(c) \/ WriteUpsert(c) \/ SetToken(c) \/ Send(c)
         \/ SetSent(c)
         \/ GetToken(c) \/ ReadConfirm(c)
         \/ ReadAccept(c) \/ Roles(c) \/ ReadDelete(c)
         \/ WriteConfirmation(c)
    \/ \E t \in Tokens : Expire(t)
    \/ Quiescent

Spec == Init /\ [][Next]_vars

-----------------------------------------------------------------------------
Present == {i \in ProfileIds : profiles[i] # Absent}

TypeOK ==
    /\ profiles \in [ProfileIds -> Profile \cup {Absent}]
    /\ issued \in [Tokens -> Users \cup {NoUser}]
    /\ live \subseteq {t \in Tokens : issued[t] # NoUser}
    /\ expiring \subseteq live
    /\ mailed \subseteq {t \in Tokens : issued[t] # NoUser}
    /\ pc \in [Clients -> {"idle", "read", "write", "setToken", "send",
                           "setSent", "getToken", "roles"}]
    /\ req \in [Clients -> Requests \cup {Idle}]
    /\ copy \in [Clients -> Profile \cup {None}]
    /\ target \in [Clients -> ProfileIds \cup {NoId}]
    /\ token \in [Clients -> Tokens \cup {NoToken}]
    /\ owner \in [Clients -> Users \cup {NoUser}]
    \* ConfirmUserEmail looks a profile up only by a user id read from redis.
    /\ \A c \in Clients : pc[c] = "read" /\ req[c].kind = "confirm" => owner[c] # NoUser
    /\ calls \in 0..MaxCalls

\* A profile flagged is_confirmation_email_sent has had a confirmation mail
\* published for its user: sendUserEmailConfirmationToken sets the flag only
\* after the broker took the mail, so a user never waits for a mail that
\* NeedConfirmEmail will no longer have sent.
SentHasMail ==
    \A i \in Present :
        profiles[i].sent => \E t \in mailed : issued[t] = profiles[i].user

\* Every stored profile carries the onboarding data of the last
\* CreateOrUpdateUserProfile that wrote it and the confirmation state of the
\* last confirm, accept or delete that wrote it: no handler's whole-document
\* ReplaceOne puts back a field another handler changed since its read.
NoLostUpdate ==
    \A i \in Present :
        /\ profiles[i].data = intended[i].data
        /\ profiles[i].confirmed = intended[i].confirmed
=============================================================================
