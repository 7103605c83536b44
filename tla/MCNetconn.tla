--------------------------------- MODULE MCNetconn ------------------------------
EXTENDS Netconn

Mode(nonblocking, timeouts) ==
  [nonblocking |-> nonblocking, timeouts |-> timeouts, abandons |-> FALSE]
MCModes == {Mode(FALSE, FALSE), Mode(TRUE, FALSE), Mode(FALSE, TRUE)}
MCAbandons == {[nonblocking |-> FALSE, timeouts |-> FALSE, abandons |-> TRUE]}
==============================================================================
