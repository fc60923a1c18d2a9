----------------------------- MODULE MCLifespan -----------------------------
(* One job, whose calls may outlive its lifespan.                            *)
EXTENDS Lifespan
CONSTANT j1
MCJobs == {j1}
=============================================================================
