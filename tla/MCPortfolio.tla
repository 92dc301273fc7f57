----------------------------- MODULE MCPortfolio -----------------------------
(* Values of Portfolio's constants stand in the .cfg.                        *)
EXTENDS Portfolio
=============================================================================
