------------------------ MODULE MCSkipListBenchmark ------------------------
\* Every thread may make every call that a job makes.
EXTENDS SkipListBenchmarkBooks

JobCalls ==
  [t \in Thread |-> {JobCall(o, k) : o \in {"insert", "remove", "search"}, k \in Keys}]
=============================================================================
