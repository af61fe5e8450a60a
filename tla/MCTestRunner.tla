---------------------------- MODULE MCTestRunner ----------------------------
(* Nothing to define: the configuration gives every constant a value.      *)
EXTENDS TestRunner
=============================================================================
