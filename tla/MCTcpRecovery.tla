--------------------------- MODULE MCTcpRecovery ---------------------------
(* Nothing to define: the configurations give every constant a value.      *)
EXTENDS TcpRecovery
=============================================================================
