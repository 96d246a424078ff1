---------------------------- MODULE MCAppcastFeed -----------------------------
(* Three releases, all on the page the API lists, two of them of one version *)
(* (tags "v1" and "1"), and two runs of the workflow that may overlap.       *)
EXTENDS AppcastFeed

CONSTANTS v1, v2, j1, j2

MCReleases == 1 .. 3
MCVersionOf == [r \in MCReleases |-> IF r = 3 THEN v2 ELSE v1]
MCVersions == {v1, v2}
MCJobs == {j1, j2}
JobSymmetry == Permutations(MCJobs)
=============================================================================
