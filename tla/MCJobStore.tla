----------------------------- MODULE MCJobStore -----------------------------
\* Instances of JobStore for TLC: which process each actor runs in, and what
\* the jobs ask for.
EXTENDS JobStore

CONSTANTS w1, w2, c1, s1, s2

\* The default deployment, one server process with its embedded worker; and a
\* worker of its own process beside it.
OneProcess   == [a \in {w1, c1} |-> s1]
TwoProcesses == [a \in {w1, w2, c1} |-> IF a = w2 THEN s2 ELSE s1]

OpThenConn == <<"op", "conn">>
AllKinds   == <<"other", "other", "op", "ui">>
OneConn    == <<"conn">>

\* Bound: the second job is the retry of the first.
SecondIsRetry == created < 2 \/ budget.retries < MaxRetries
=============================================================================
