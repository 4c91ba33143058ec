--------------------------- MODULE MCMachineAccess ---------------------------
(***************************************************************************)
(* Two tenants, of which a credential names one; a client that reads an    *)
(* audit of two rows in pages of one, and requests that go wrong.          *)
(***************************************************************************)
EXTENDS MachineAccess

MCSettings == [issuer |-> "idp", audience |-> "fintech", client_id |-> "efata",
               environment |-> "prod", lifetime |-> 3, skew |-> 0]
MCTenants == ("t1" :> "o1") @@ ("t2" :> "o2")

Claims ==
    [active |-> TRUE, iss |-> "idp", aud |-> {"fintech"}, sub |-> "machine", jti |-> "j1",
     client_id |-> "efata", env |-> "prod", tenant_scope |-> {"t1", "t3"},
     capabilities |-> {"fintech.audit.read"}, iat |-> 1, exp |-> 3]

Read ==
    [ids |-> TRUE, claims |-> Claims, tenant |-> "t1", organization |-> "o1",
     capability |-> "fintech.audit.read", limit |-> 1, cursor |-> "next",
     from |-> None, to |-> 2]

MCQueries ==
    { Read,
      [Read EXCEPT !.cursor = None, !.capability = "fintech.health.read"],
      [Read EXCEPT !.cursor = None, !.tenant = "t2", !.organization = "o2"],
      [Read EXCEPT !.cursor = "garbled", !.claims.exp = 2] }

Row(id, at, tenant) ==
    [id |-> id, at |-> at, tenant |-> tenant, request |-> 0, capability |-> None,
     decision |-> None, status |-> 0]

MCRecorded == {{Row(2, 1, "t1"), Row(3, 1, "t1"), Row(5, 1, "t2")}}
=============================================================================
