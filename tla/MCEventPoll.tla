----------------------------- MODULE MCEventPoll -----------------------------
EXTENDS EventPoll

CONSTANTS s1, s2

\* A careless server with short queues, each of which may hold a copy of one
\* event, a server and a careful client.
MCSetups ==
    {[listeners |-> {s2}, usage |-> {"late", "partial"}, size |-> 1],
     [listeners |-> {s2}, usage |-> {}, size |-> 2],
     [listeners |-> {}, usage |-> {}, size |-> 2]}

\* A server whose queues have room to spare.
MCServer == {[listeners |-> {s1}, usage |-> {}, size |-> 3]}
=============================================================================
