----------------------------- MODULE MCKubectl -----------------------------
(* An instance of Kubectl for TLC.                                          *)
EXTENDS Kubectl

MCVerbs == {"init", "bundle", "run", "list", "results"}

=============================================================================
