----------------------------- MODULE MCServices -----------------------------
(* An instance of Services for TLC.                                         *)
EXTENDS Services, TLC

CONSTANTS owner, admin, p1, p2, k1, k2, i1, i2, c1, c2, s1, s2,
          r1, r2, log, failure, d1, d2, builder, reviewer, q1, q2

\* i2 depends on i1.
IssueNeeds == (i1 :> {}) @@ (i2 :> {i1})

\* Nothing; a file; the directory above it; a resource.
ClaimsOf(files, directories, resources) ==
    [files |-> files, directories |-> directories, resources |-> resources]
SomeClaims ==
    {ClaimsOf({}, {}, {}), ClaimsOf({<<"app", "a">>}, {}, {}),
     ClaimsOf({}, {<<"app">>}, {}), ClaimsOf({<<"lib">>}, {}, {<<"table">>})}

\* Nothing tells scheduler processes, requests to project, or runs apart.
Symmetry ==
    Permutations({s1, s2}) \cup Permutations({c1, c2}) \cup Permutations({r1, r2})
=============================================================================
