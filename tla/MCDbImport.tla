------------------------------- MODULE MCDbImport ------------------------------
(* DbImport with two requests; see DbImport.cfg.                              *)
EXTENDS DbImport
===============================================================================
