-------------------------- MODULE MCDeploySession --------------------------
(* Finite instances of DeploySession: three hosts, of which one lacks the  *)
(* profile the batches deploy, in the middle and at the end of a batch.    *)
EXTENDS DeploySession

CONSTANTS h1, h2, h3

SomeBatches == { << h1, h2 >>, << h1, h2, h3 >>, << h3 >> }
=============================================================================
