----------------------------- MODULE MCSipConn ------------------------------
(* SipConn for TLC: many messages and connections with silent peers, one   *)
(* or two connections with peers that send, or one with a peer that asks   *)
(* for an interval so long that the wait for the next ping wraps.          *)
EXTENDS SipConn

MCPlans ==
    {[addrs |-> {"proxy"}, conns |-> 2, msgs |-> 3, script |-> <<>>,
      flow |-> {}, out |-> 0],
     [addrs |-> {"proxy", "peer"}, conns |-> 2, msgs |-> 2, script |-> <<>>,
      flow |-> {}, out |-> 0],
     [addrs |-> {"proxy"}, conns |-> 1, msgs |-> 2,
      script |-> <<"h", "e", "b", "r", "n", "r", "n", "h", "e", "b">>,
      flow |-> {0, 1}, out |-> 8],
     [addrs |-> {"proxy"}, conns |-> 2, msgs |-> 1,
      script |-> <<"h", "e", "b", "x", "x">>, flow |-> {0, 1}, out |-> 8],
     [addrs |-> {"proxy"}, conns |-> 1, msgs |-> 1,
      script |-> <<"h", "e", "b", "r", "n">>, flow |-> {1, 8}, out |-> 6]}
=============================================================================
