--------------------------- MODULE MCConsentLedger ---------------------------
(***************************************************************************)
(* Small instances of ConsentLedger for TLC.                               *)
(***************************************************************************)
EXTENDS ConsentLedger

CONSTANTS tA, tB, c1, c2

Request(id, kind, tenant, consent) ==
    [id |-> id, kind |-> kind, tenant |-> tenant, consent |-> consent, covered |-> TRUE]

IssueA   == Request(1, "ISSUE", tA, c1)
IssueB   == Request(2, "ISSUE", tB, c2)
AccessA  == Request(3, "ACCESS", tB, c1)
AccessB  == Request(4, "ACCESS", tA, c2)
RevokeA  == Request(5, "REVOKE", tA, c1)
RevokeAB == Request(6, "REVOKE", tB, c1)
AuditA   == Request(7, "AUDIT", tA, None)
Strange  == [Request(8, "ACCESS", tA, c1) EXCEPT !.covered = FALSE]

VerifyA  == Request(9, "VERIFY", tA, None)

\* One consent of tA, revoked twice while a user of tB accesses the data.
OneConsent == {IssueA, RevokeA, RevokeAB, AccessA}

\* Each tenant accesses the other's consent: opposite orders of the heads.
Crossed == {IssueA, IssueB, AccessA, AccessB}

\* First appends of a tenant, and an integrity check of its chain.
FirstAppends == {IssueA, AuditA, RevokeA, VerifyA}

\* An access outside the consent's purpose.
Stranger == {IssueA, Strange}

AllWorkloads == {OneConsent, Crossed, FirstAppends, Stranger}
First        == {FirstAppends}

=============================================================================
