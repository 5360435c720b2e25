---------------------------- MODULE MCUserProfile ----------------------------
EXTENDS UserProfile

CONSTANTS P1, P2, P3, U1, U2, T1, T2, T3, D1, D2

\* The generated predicates as their names read: a mail is due while the
\* address is neither confirmed nor already mailed; verified is confirmed.
MCNeedConfirmEmail(p) == ~p.confirmed /\ ~p.sent
MCIsEmailVerified(p) == p.confirmed

AllKinds == {"upsert", "confirm", "accept", "delete"}
OneClient == {"c1"}
TwoClients == {"c1", "c2"}
=============================================================================
