-------------------------- MODULE MCTcpConnection --------------------------
(* Constants of TcpConnection for TLC.                                       *)
EXTENDS TcpConnection

NoLoads == {{}}
LowLoad == {{"ECE"}}
TwoLoads == {{"ECE"}, {"CWR"}}
=============================================================================
