-------------------------- MODULE MerchantOnboarding --------------------------
(***************************************************************************)
(* The merchant-onboarding handlers of internal/service/onboarding.go, run *)
(* by concurrent clients:                                                  *)
(*   ChangeMerchant                ("change")  create or edit a merchant   *)
(*   ChangeMerchantStatus          ("status")  the agreement lifecycle     *)
(*   ChangeMerchantData            ("data")    agreement type, signatures  *)
(*   SetMerchantS3Agreement        ("s3")      agreement document name     *)
(*   ChangeMerchantPaymentMethod   ("pm")      one payment-method setting  *)
(*   CreateNotification            ("notify")  a user notification         *)
(*   MarkNotificationAsRead        ("read")                                *)
(* Every handler reads the merchant document (getMerchantBy), edits a      *)
(* local copy, and writes the WHOLE copy back with s.merchant.Update; no   *)
(* lock or version guards the read-modify-write.  Each database call is    *)
(* one atomic step and may fail when Fallible holds.  The predicates of    *)
(* billing.Merchant that decide the lifecycle (ChangesAllowed,             *)
(* CanChangeStatusToSigning, NeedMarkESignAgreementAsSigned) live outside  *)
(* this repository and are constant operators.  Early returns on data the *)
(* model leaves out (country, currency, payment method id, user id,       *)
(* empty message) are Reject.                                             *)
(***************************************************************************)
EXTENDS Naturals, Sequences, FiniteSets

CONSTANTS
    Clients, MerchantIds, Users, Data, S3Names, PaymentMethods, Settings,
    Kinds,        \* the handlers clients may call
    Fallible,     \* whether database calls may fail
    MaxCalls,     \* bound on the handler calls of one behaviour
    InitMerchants,  \* merchant collections a behaviour may start from
    ChangesAllowed(_), CanChangeStatusToSigning(_),
    NeedMarkESignAgreementAsSigned(_),
    Absent, NoId, NoUser, NoS3, NoPM, NoStatus, Custom, None, Idle

\* pkg.MerchantStatus*; the keys of NotificationStatusChangeTitles.
Statuses == {"draft", "agreementRequested", "onReview", "signing", "signed"}
AgreementTypes == 0..2

Merchant == [user : Users \cup {NoUser}, data : Data, status : Statuses,
             agreementType : AgreementTypes, psp : BOOLEAN, mer : BOOLEAN,
             signed : BOOLEAN, s3 : S3Names \cup {NoS3},
             pms : [PaymentMethods -> Settings \cup {NoPM}]]

\* A notification; its title is the status whose title it carries, or the
\* caller's own title (Custom).  from/to are SystemNotificationStatuses.
Notification == [merchant : MerchantIds, title : Statuses \cup {Custom},
                 from : Statuses \cup {NoStatus}, to : Statuses \cup {NoStatus},
                 read : BOOLEAN]

History == [merchant : MerchantIds, pm : PaymentMethods, setting : Settings]

Requests ==
    [kind : {"change"}, id : MerchantIds \cup {NoId}, user : Users \cup {NoUser},
     data : Data]
    \cup [kind : {"status"}, id : MerchantIds, to : Statuses]
    \cup [kind : {"data"}, id : MerchantIds, agreementType : AgreementTypes,
          psp : BOOLEAN, mer : BOOLEAN]
    \cup [kind : {"s3"}, id : MerchantIds, name : S3Names]
    \cup [kind : {"pm"}, id : MerchantIds, pm : PaymentMethods, setting : Settings]
    \cup [kind : {"notify"}, id : MerchantIds]
    \cup [kind : {"read"}, id : MerchantIds, n : 1..MaxCalls]

VARIABLES
    merchants,      \* merchant collection: id -> document or Absent
    notifications,  \* notification collection, in insertion order
    history,        \* merchant payment-method history collection
    pc, req,        \* each client's step and request
    copy,           \* the document the client read and edits
    target,         \* the merchant id the client will write (NoId: insert)
    note,           \* the notification the client will insert, or None
    calls           \* handler calls so far

vars == <<merchants, notifications, history, pc, req, copy, target, note, calls>>

Init ==
    /\ merchants \in InitMerchants
    /\ notifications = <<>>
    /\ history = <<>>
    /\ pc = [c \in Clients |-> "idle"]
    /\ req = [c \in Clients |-> Idle]
    /\ copy = [c \in Clients |-> None]
    /\ target = [c \in Clients |-> NoId]
    /\ note = [c \in Clients |-> None]
    /\ calls = 0

Goto(c, s) == pc' = [pc EXCEPT ![c] = s]
Finish(c)  == /\ Goto(c, "idle")
              /\ req' = [req EXCEPT ![c] = Idle]
              /\ copy' = [copy EXCEPT ![c] = None]
              /\ note' = [note EXCEPT ![c] = None]

\* Model bound: a fresh ObjectId is left for every ChangeMerchant in flight.
IdsLeft ==
    Cardinality({i \in MerchantIds : merchants[i] = Absent})
        > Cardinality({c \in Clients : pc[c] # "idle" /\ req[c].kind = "change"})

Call(c, r) ==
    /\ pc[c] = "idle" /\ calls < MaxCalls /\ r.kind \in Kinds
    /\ r.kind = "change" => IdsLeft
    /\ req' = [req EXCEPT ![c] = r]
    /\ Goto(c, IF r.kind = "read" THEN "findNotif" ELSE "find")
    /\ calls' = calls + 1
    /\ UNCHANGED <<merchants, notifications, history, copy, target, note>>

\* An early return on data the model leaves out: no state is written.
Reject(c) ==
    /\ \/ pc[c] = "write" /\ req[c].kind = "change"   \* country, currency
       \/ pc[c] = "notify" /\ req[c].kind = "notify"  \* user id, message
       \/ pc[c] = "history"                          \* method id, currency
    /\ Finish(c)
    /\ UNCHANGED <<merchants, notifications, history, target, calls>>

\* A database call fails; the handler returns its error.  The notification
\* of ChangeMerchantData is the exception (its error is only logged).
CallFails(c) ==
    /\ Fallible
    /\ \/ pc[c] \in {"history", "write", "findNotif", "writeNotif"}
       \/ pc[c] = "find" /\ ~(req[c].kind = "change" /\ req[c].id = NoId
                                                   /\ req[c].user = NoUser)
       \/ pc[c] = "notify" /\ req[c].kind # "data"
    /\ Finish(c)
    /\ UNCHANGED <<merchants, notifications, history, target, calls>>

(***************************************************************************)
(* getMerchantBy: the document, or merchantErrorNotFound when Find finds   *)
(* nothing (the handler then returns; no state is written).               *)
(***************************************************************************)
\* Variant without the merchant == nil check: a missing document reads as nil.
FoundMerchantNoNilCheck(i) == TRUE

FoundMerchant(i) == merchants[i] # Absent

\* The step after getMerchantBy: keep the edited copy and the target id.
Edit(c, m, n, s) ==
    /\ copy' = [copy EXCEPT ![c] = m]
    /\ note' = [note EXCEPT ![c] = n]
    /\ target' = [target EXCEPT ![c] = req[c].id]
    /\ Goto(c, s)
    /\ UNCHANGED req

\* The step ends with an error response: nothing is written.
Refuse(c) == /\ Finish(c) /\ UNCHANGED target

NewMerchant(u, d) ==
    [user |-> u, data |-> d, status |-> "draft", agreementType |-> 0,
     psp |-> FALSE, mer |-> FALSE, signed |-> FALSE, s3 |-> NoS3,
     pms |-> [p \in PaymentMethods |-> NoPM]]

(***************************************************************************)
(* ChangeMerchant: the merchant is looked up by _id, by user.id, or by     *)
(* either ($or); One returns any match.  No match, or no id and no user,  *)
(* makes a new Draft merchant.  Either one must allow changes; then the    *)
(* request's data overwrite the copy.                                      *)
(***************************************************************************)
Matches(r) ==
    {i \in MerchantIds :
        /\ FoundMerchant(i)
        /\ \/ i = r.id
           \/ r.user # NoUser /\ merchants[i].user = r.user}

FindForChange(c) ==
    /\ pc[c] = "find" /\ req[c].kind = "change"
    /\ LET r == req[c] IN
       \/ /\ \/ r.id = NoId /\ r.user = NoUser
             \/ Matches(r) = {}
          /\ LET m == NewMerchant(r.user, r.data) IN
             IF ChangesAllowed(m)
             THEN /\ copy' = [copy EXCEPT ![c] = m]
                  /\ target' = [target EXCEPT ![c] = NoId]
                  /\ Goto(c, "write")
                  /\ UNCHANGED <<req, note>>
             ELSE Refuse(c)
       \/ /\ ~(r.id = NoId /\ r.user = NoUser)
          /\ \E i \in Matches(r) :
                IF ChangesAllowed(merchants[i])
                THEN /\ copy' = [copy EXCEPT ![c] = [merchants[i] EXCEPT !.data = r.data]]
                     /\ target' = [target EXCEPT ![c] = i]
                     /\ Goto(c, "write")
                     /\ UNCHANGED <<req, note>>
                ELSE Refuse(c)
    /\ UNCHANGED <<merchants, notifications, history, calls>>

(***************************************************************************)
(* ChangeMerchantStatus: the guards of the lifecycle, then the status, the *)
(* signed flag (to Signed) or the reset of the agreement (to Draft).  The  *)
(* notification {From: old, To: new} is inserted before the update.        *)
(***************************************************************************)
\* Variant whose Signed guard does not check the two signatures.
StatusAllowedNoSignatures(m, to) ==
    /\ to = "agreementRequested" => m.status = "draft"
    /\ to = "onReview" => m.status = "agreementRequested"
    /\ to = "signing" => CanChangeStatusToSigning(m)
    /\ to = "signed" => m.status = "signing"

StatusAllowed(m, to) ==
    /\ to = "agreementRequested" => m.status = "draft"
    /\ to = "onReview" => m.status = "agreementRequested"
    /\ to = "signing" => CanChangeStatusToSigning(m)
    /\ to = "signed" => m.status = "signing" /\ m.mer /\ m.psp

SetStatus(m, to) ==
    IF to = "draft"
    THEN [m EXCEPT !.status = to, !.agreementType = 0, !.psp = FALSE,
                   !.mer = FALSE, !.signed = FALSE]
    ELSE [m EXCEPT !.status = to, !.signed = (to = "signed") \/ m.signed]

FindForStatus(c) ==
    /\ pc[c] = "find" /\ req[c].kind = "status"
    /\ LET r == req[c]  m == merchants[r.id] IN
       IF FoundMerchant(r.id) /\ StatusAllowed(m, r.to)
       THEN Edit(c, SetStatus(m, r.to),
                 [merchant |-> r.id, title |-> r.to, from |-> m.status,
                  to |-> r.to, read |-> FALSE], "notify")
       ELSE Refuse(c)
    /\ UNCHANGED <<merchants, notifications, history, calls>>

(***************************************************************************)
(* ChangeMerchantData: a new agreement type needs ChangesAllowed; it adds  *)
(* a notification {From: old, To: AgreementRequested} titled after the OLD *)
(* status, and moves the merchant to AgreementRequested.  Then the         *)
(* signatures are set, IsSigned = both, and NeedMarkESignAgreementAsSigned *)
(* moves the merchant to Signed.                                           *)
(***************************************************************************)
SetData(m, r) ==
    LET retyped == IF r.agreementType > 0 /\ m.agreementType # r.agreementType
                   THEN [m EXCEPT !.status = "agreementRequested",
                                  !.agreementType = r.agreementType]
                   ELSE m
        signed  == [retyped EXCEPT !.psp = r.psp, !.mer = r.mer,
                                   !.signed = r.psp /\ r.mer]
    IN  IF NeedMarkESignAgreementAsSigned(signed)
        THEN [signed EXCEPT !.status = "signed"]
        ELSE signed

FindForData(c) ==
    /\ pc[c] = "find" /\ req[c].kind = "data"
    /\ LET r == req[c]  m == merchants[r.id]
           retype == r.agreementType > 0 /\ m.agreementType # r.agreementType
       IN  IF FoundMerchant(r.id) /\ (retype => ChangesAllowed(m))
           THEN IF retype
                THEN Edit(c, SetData(m, r),
                          [merchant |-> r.id, title |-> m.status, from |-> m.status,
                           to |-> "agreementRequested", read |-> FALSE], "notify")
                ELSE Edit(c, SetData(m, r), None, "write")
           ELSE Refuse(c)
    /\ UNCHANGED <<merchants, notifications, history, calls>>

\* SetMerchantS3Agreement: the new agreement document name.
FindForS3(c) ==
    /\ pc[c] = "find" /\ req[c].kind = "s3"
    /\ IF FoundMerchant(req[c].id)
       THEN Edit(c, [merchants[req[c].id] EXCEPT !.s3 = req[c].name], None, "write")
       ELSE Refuse(c)
    /\ UNCHANGED <<merchants, notifications, history, calls>>

\* ChangeMerchantPaymentMethod: the method's new setting, then the history.
FindForPaymentMethod(c) ==
    /\ pc[c] = "find" /\ req[c].kind = "pm"
    /\ LET r == req[c] IN
       IF FoundMerchant(r.id)
       THEN Edit(c, [merchants[r.id] EXCEPT !.pms[r.pm] = r.setting], None, "history")
       ELSE Refuse(c)
    /\ UNCHANGED <<merchants, notifications, history, calls>>

\* Variant of CreateNotification without the getMerchantBy check.
FindForNotifyNoMerchantCheck(c) ==
    /\ pc[c] = "find" /\ req[c].kind = "notify"
    /\ Edit(c, None, [merchant |-> req[c].id, title |-> Custom,
                      from |-> NoStatus, to |-> NoStatus, read |-> FALSE], "notify")
    /\ UNCHANGED <<merchants, notifications, history, calls>>

\* CreateNotification: the merchant must exist; a user notification.
FindForNotify(c) ==
    /\ pc[c] = "find" /\ req[c].kind = "notify"
    /\ IF FoundMerchant(req[c].id)
       THEN Edit(c, None, [merchant |-> req[c].id, title |-> Custom,
                           from |-> NoStatus, to |-> NoStatus, read |-> FALSE],
                 "notify")
       ELSE Refuse(c)
    /\ UNCHANGED <<merchants, notifications, history, calls>>

(***************************************************************************)
(* addNotification: Insert into the notification collection.  After it    *)
(* CreateNotification returns; the status and data handlers update the    *)
(* merchant.  ChangeMerchantData goes on to the update even when the      *)
(* insert fails.                                                          *)
(***************************************************************************)
AddNotification(c) ==
    /\ pc[c] = "notify"
    /\ \/ notifications' = Append(notifications, note[c])
       \/ /\ Fallible /\ req[c].kind = "data"
          /\ UNCHANGED notifications
    /\ IF req[c].kind = "notify"
       THEN Finish(c)
       ELSE /\ Goto(c, "write")
            /\ UNCHANGED <<req, copy, note>>
    /\ UNCHANGED <<merchants, history, target, calls>>

\* Variant that goes on to the merchant update when the history insert fails.
InsertHistoryIgnoreErr(c) ==
    /\ pc[c] = "history"
    /\ LET r == req[c] IN
       \/ history' = Append(history, [merchant |-> r.id, pm |-> r.pm,
                                      setting |-> r.setting])
       \/ Fallible /\ UNCHANGED history
    /\ Goto(c, "write")
    /\ UNCHANGED <<merchants, notifications, req, copy, target, note, calls>>

\* The history record is inserted first; the merchant update follows.
InsertHistory(c) ==
    /\ pc[c] = "history"
    /\ LET r == req[c] IN
       history' = Append(history, [merchant |-> r.id, pm |-> r.pm,
                                   setting |-> r.setting])
    /\ Goto(c, "write")
    /\ UNCHANGED <<merchants, notifications, req, copy, target, note, calls>>

\* s.merchant.Insert of a new merchant (a fresh ObjectId), or
\* s.merchant.Update: the whole copy replaces the document.
WriteMerchant(c) ==
    /\ pc[c] = "write"
    /\ IF target[c] = NoId
       THEN \E i \in MerchantIds :
               /\ merchants[i] = Absent
               /\ merchants' = [merchants EXCEPT ![i] = copy[c]]
       ELSE merchants' = [merchants EXCEPT ![target[c]] = copy[c]]
    /\ Finish(c)
    /\ UNCHANGED <<notifications, history, target, calls>>

\* MarkNotificationAsRead: getNotificationById (merchant and id), then
\* UpdateId writes the whole notification with IsRead set.
FindNotification(c) ==
    /\ pc[c] = "findNotif"
    /\ LET r == req[c] IN
       IF r.n <= Len(notifications) /\ notifications[r.n].merchant = r.id
       THEN /\ copy' = [copy EXCEPT ![c] = notifications[r.n]]
            /\ Goto(c, "writeNotif")
            /\ UNCHANGED <<req, note>>
       ELSE Finish(c)
    /\ UNCHANGED <<merchants, notifications, history, target, calls>>

WriteNotification(c) ==
    /\ pc[c] = "writeNotif"
    /\ notifications' = [notifications EXCEPT ![req[c].n] = [copy[c] EXCEPT !.read = TRUE]]
    /\ Finish(c)
    /\ UNCHANGED <<merchants, history, target, calls>>

\* Every call has been made and answered.
Quiescent ==
    /\ calls = MaxCalls /\ \A c \in Clients : pc[c] = "idle"
    /\ UNCHANGED vars

Next ==
    \/ \E c \in Clients :
          \/ \E r \in Requests : Call(c, r)
          \/ Reject(c) \/ CallFails(c)
          \/ FindForChange(c) \/ FindForStatus(c) \/ FindForData(c)
          \/ FindForS3(c) \/ FindForPaymentMethod(c) \/ FindForNotify(c)
          \/ AddNotification(c) \/ InsertHistory(c) \/ WriteMerchant(c)
          \/ FindNotification(c) \/ WriteNotification(c)
    \/ Quiescent

Spec == Init /\ [][Next]_vars

-----------------------------------------------------------------------------
Present == {i \in MerchantIds : merchants[i] # Absent}

\* Types, and every notification belongs to a merchant in the collection.
TypeOK ==
    /\ merchants \in [MerchantIds -> Merchant \cup {Absent}]
    /\ notifications \in Seq(Notification)
    /\ history \in Seq(History)
    /\ pc \in [Clients -> {"idle", "find", "notify", "history", "write",
                           "findNotif", "writeNotif"}]
    /\ req \in [Clients -> Requests \cup {Idle}]
    /\ copy \in [Clients -> Merchant \cup Notification \cup {None}]
    /\ target \in [Clients -> MerchantIds \cup {NoId}]
    /\ note \in [Clients -> Notification \cup {None}]
    /\ calls \in 0..MaxCalls
    /\ \A c \in Clients : pc[c] = "write" => copy[c] \in Merchant
    /\ \A k \in DOMAIN notifications : notifications[k].merchant \in Present

(***************************************************************************)
(* A stored merchant is marked signed exactly when it carries both the PSP *)
(* and the merchant signature, whichever handlers wrote it and in which    *)
(* order: ChangeMerchantStatus may only mark it Signed when both are       *)
(* present, ChangeMerchantData recomputes IsSigned, the reset to Draft     *)
(* clears all three.                                                       *)
(***************************************************************************)
SignedIffSignatures ==
    \A i \in Present : merchants[i].signed <=> (merchants[i].psp /\ merchants[i].mer)

(***************************************************************************)
(* Every payment-method setting a merchant carries was recorded in the     *)
(* history collection ("insert in history collection first than really    *)
(* update merchant"), even when calls fail and handlers write stale        *)
(* copies of the merchant over each other.                                 *)
(***************************************************************************)
PaymentMethodsRecorded ==
    \A i \in Present, p \in PaymentMethods :
        merchants[i].pms[p] # NoPM =>
            \E k \in DOMAIN history :
                history[k] = [merchant |-> i, pm |-> p, setting |-> merchants[i].pms[p]]
====
