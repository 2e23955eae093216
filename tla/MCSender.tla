------------------------------ MODULE MCSender ------------------------------
EXTENDS Sender

CONSTANTS s1, s2, a1, a2

MCDest == s1 :> a1 @@ s2 :> a2

\* The first stream writes and closes, the second one receives; hosts make
\* themselves known (HostAsks) or are asked.
MCMixed ==
    {[does |-> s1 :> {"write", "close", "fin"} @@ s2 :> {"data", "abort"},
      data |-> 1, known |-> {}]}

\* Two streams that write more than the window and the device take, to hosts
\* whose addresses are known.
MCWriters ==
    {[does |-> s1 :> {"write", "close"} @@ s2 :> {"write", "fin"}, data |-> 3, known |-> Addr]}

MCSetups == MCMixed \cup MCWriters
=============================================================================
