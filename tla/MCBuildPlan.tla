------------------------------ MODULE MCBuildPlan ------------------------------
(* Every sequence of up to four entries over an illegal port, two legal ones, *)
(* no limit and three rates; two classes.                                     *)
EXTENDS BuildPlan

MCEntries == [port : {0, 1, 2}, rate : {0, 20, 30, 50}]
===============================================================================
