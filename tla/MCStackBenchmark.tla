-------------------------- MODULE MCStackBenchmark --------------------------
\* The tests of StackBenchmark.c with small numbers of calls.
EXTENDS StackBenchmark

Test(push, pop, check) ==
  [num_to_push |-> push, num_to_pop |-> pop, check_correctness |-> check]

\* run_test_correctness, run_test_fairness_push and run_test_fairness_pop
BenchmarkTests == {Test(1, 1, TRUE), Test(1, 0, FALSE), Test(0, 2, FALSE)}
=============================================================================
