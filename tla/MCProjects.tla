------------------------------ MODULE MCProjects ------------------------------
EXTENDS Projects

CONSTANTS M1, M2, J1, J2, D1, D2, Live

\* Assumed meanings of the billing.Project methods outside this repository:
\* an edit of the data of a project in production sends it back to Draft;
\* IsDeleted is the Deleted status.
MCNeedChangeStatusToDraft(p, r) == p.status = Live /\ r.data # p.data
MCIsDeleted(p) == p.status = Deleted

AllKinds == {"change", "delete", "get", "show"}
=============================================================================
