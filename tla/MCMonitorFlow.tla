---------------------------- MODULE MCMonitorFlow ----------------------------
EXTENDS MonitorFlow

Bytes(cli, svr) == [x \in {"CLI", "SVR"} |-> IF x = "CLI" THEN cli ELSE svr]

\* A byte each way, with both settings of tcp_tw_interval.
MCBoth(sides) == {[data |-> Bytes(1, 1), tw |-> n, stoppable |-> sides] : n \in {0, 1}}

\* More bytes than the ring holds.
MCLong == {[data |-> Bytes(5, 0), tw |-> 1, stoppable |-> {}]}

MCSetups == MCBoth({"SVR"}) \cup MCLong
MCClient == MCBoth({"CLI"})
=============================================================================
