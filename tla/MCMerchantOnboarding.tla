------------------------ MODULE MCMerchantOnboarding ------------------------
(***************************************************************************)
(* Three merchant ids, two users, one payment method.  Merchant M1 *)
(* of user U1 starts in any status the handlers can bring it to, so a     *)
(* race needs only two calls.  The billing.Merchant predicates live        *)
(* outside the repository; these definitions are the assumed ones:        *)
(*   ChangesAllowed: the merchant is a Draft;                              *)
(*   CanChangeStatusToSigning: on review with complete data;               *)
(*   NeedMarkESignAgreementAsSigned: both signatures on an e-sign          *)
(*   agreement (type 2) not yet Signed.                                    *)
(***************************************************************************)
EXTENDS MerchantOnboarding, TLC

CONSTANTS M1, M2, M3, U1, U2, Partial, Complete, S1, P1, On, Off

MCMerchantIds == {M1, M2, M3}
MCUsers == {U1, U2}
MCData == {Partial, Complete}
MCS3Names == {S1}
OneMethod == {P1}
MCSettings == {On, Off}

MCChangesAllowed(m) == m.status = "draft"
MCCanChangeStatusToSigning(m) == m.status = "onReview" /\ m.data = Complete
MCNeedMarkESignAgreementAsSigned(m) ==
    m.psp /\ m.mer /\ m.agreementType = 2 /\ m.status # "signed"

\* M1 in each status, with the signatures ChangeMerchantData may have set.
MCInitMerchants ==
    { (M1 :> [NewMerchant(U1, d) EXCEPT
                 !.status = s, !.agreementType = IF s = "draft" THEN 0 ELSE 1,
                 !.psp = p, !.mer = q, !.signed = p /\ q])
      @@ [i \in {M2, M3} |-> Absent] :
        s \in Statuses, d \in MCData, p \in BOOLEAN, q \in BOOLEAN }

OneClient == {"c1"}
TwoClients == {"c1", "c2"}
AllKinds == {"change", "status", "data", "s3", "pm", "notify", "read"}
====
