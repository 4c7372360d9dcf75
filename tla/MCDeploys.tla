----------------------------- MODULE MCDeploys -----------------------------
(***************************************************************************)
(* One instance of the two sources of deploys: two calls of the deploy API *)
(* with the workers that process their versions, and two webhooks of       *)
(* GitHub while links and mappings change.  They share no state here, so a *)
(* behaviour moves one of them, its subject.                               *)
(***************************************************************************)
EXTENDS DeployPipeline, GithubDeploys, TLC

CONSTANTS d1, d2, w1, w2, good, better, bad, doc1, doc2, path1, path2

VARIABLE subject

(* Calls are interchangeable, and so are workers and good specs where the pipeline moves, docs and
   paths where GitHub does: the other part then holds none of them, and one swap serves both. *)
BothSwapped(m, n, p, q) ==
    {f \in Permutations({m, n, p, q}) : {f[m], f[n]} = {m, n} /\ (f[m] = m <=> f[p] = p)}
DeploysSymmetry ==
    Permutations({d1, d2}) \union BothSwapped(w1, w2, doc1, doc2) \union BothSwapped(good, better, path1, path2)

(* Submit sets the spec of a call, so that it starts with one of them will do; where GitHub is
   not the subject it starts in one of its initial states. *)
DeploysInit ==
    /\ subject \in {"pipeline", "github"} /\ Init /\ GithubInit
    /\ \A d \in Deploys : call[d].spec = bad
    /\ subject = "pipeline" => ~consumer /\ \A r \in Repos : repoDoc[r] = Absent

DeploysNext ==
    /\ UNCHANGED subject
    /\ \/ subject = "pipeline" /\ Next /\ UNCHANGED githubVars
       \/ subject = "github" /\ GithubNext /\ UNCHANGED vars

DeploysSpec == DeploysInit /\ [][DeploysNext]_<<subject, vars, githubVars>>
=============================================================================
