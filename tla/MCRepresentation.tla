-------------------------- MODULE MCRepresentation --------------------------
(***************************************************************************)
(* Small instances of Representation for TLC.  The originator's mandate    *)
(* lets it upload, or only look; the platform has a mandate of its own.    *)
(***************************************************************************)
EXTENDS Representation, TLC

CONSTANTS p1, p2, o1, o2, r1, r2, originator, client, platform

Ask(p, from, allowed) == [rep |-> p, originator |-> from, represented |-> client, allowed |-> allowed]

MCMandates ==
    {Ask(p1, originator, {"CREATE_OPPORTUNITY", "UPLOAD_DOCUMENTS"}),
     Ask(p1, originator, {"VIEW_STATUS"}),
     Ask(p2, platform, {"CREATE_OPPORTUNITY", "VIEW_STATUS"})}

\* Handlers are interchangeable, and so are opportunities.
Symmetry == Permutations({r1, r2}) \cup Permutations({o1, o2})

=============================================================================
