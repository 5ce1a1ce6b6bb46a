-------------------------- MODULE MCAsyncListener --------------------------
(* The instance of AsyncListener that TLC checks: 2-bit attempts, a 3-bit  *)
(* shift, a 2-bit factor and 5-bit nanoseconds, related as the widths of   *)
(* the code are; base and max below, at and above their edges.             *)
EXTENDS AsyncListener

CONSTANTS t1, t2, t3

MCTasks == {t1, t2, t3}

Strategy(kind, base, max) == [kind |-> kind, base |-> base, max |-> max]

MCStrategies ==
  {Strategy("fixed", 7, 0),
   Strategy("exponential", 1, 40), Strategy("exponential", 3, 7), Strategy("exponential", 40, 40),
   Strategy("jitter", 1, 2), Strategy("jitter", 31, 33), Strategy("jitter", 32, 33)}

\* One listener that never retries, one that retries at once and gets no dead
\* letter, and one that backs off past every edge of the widths.
MCPolicies ==
  {[t \in MCTasks |->
      CASE t = t1 -> [maxRetries |-> 0, strategy |-> NoStrategy, deadLetter |-> TRUE]
        [] t = t2 -> [maxRetries |-> 2, strategy |-> NoStrategy, deadLetter |-> FALSE]
        [] t = t3 -> [maxRetries |-> 5, strategy |-> s, deadLetter |-> TRUE]] : s \in MCStrategies}
=============================================================================
