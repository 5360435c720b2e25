-------------------------- MODULE MCMerchantUsers --------------------------
(***************************************************************************)
(* Two e-mails, two users, two role names and three record ids: enough for *)
(* a second invite of the same e-mail, one user accepting two invites, a   *)
(* second acceptance of one invite, and a role change or delete racing an *)
(* acceptance.                                                             *)
(***************************************************************************)
EXTENDS MerchantUsers, TLC

CONSTANTS C1, C2, E1, E2, U1, U2, Developer, ViewOnly, Id1, Id2, Id3

MCEmails == {E1, E2}
MCUsers == {U1, U2}
MCRoleNames == {Developer, ViewOnly}
MCRoleIds == {Id1, Id2, Id3}
OneClient == {C1}
TwoClients == {C1, C2}
AllServices == {"db", "casbin", "mail", "profile"}
NoService == {}

\* E-mails, users and role names are interchangeable; record ids and
\* clients are too.
MCSymmetry == Permutations(MCEmails) \cup Permutations(MCUsers)
              \cup Permutations(MCRoleNames) \cup Permutations(MCRoleIds)
              \cup Permutations(TwoClients)

====
