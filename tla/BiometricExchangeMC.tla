------------------------- MODULE BiometricExchangeMC -------------------------
(* BiometricExchange for model checking. *)
EXTENDS BiometricExchange, TLC

\* One that authenticates its chip and passes, one that fails and is only for
\* evaluation, and one that conceals what its chip supports.
Sample == {
    [dg14 |-> "no_ca", dg15 |-> "signed", caPassed |-> FALSE, aaPassed |-> TRUE,
     challengePassed |-> TRUE, othersPassed |-> TRUE, evaluationOnly |-> FALSE],
    [dg14 |-> "ca", dg15 |-> "absent", caPassed |-> TRUE, aaPassed |-> FALSE,
     challengePassed |-> FALSE, othersPassed |-> TRUE, evaluationOnly |-> TRUE],
    [dg14 |-> "ca", dg15 |-> "absent", caPassed |-> FALSE, aaPassed |-> FALSE,
     challengePassed |-> TRUE, othersPassed |-> TRUE, evaluationOnly |-> FALSE]}

Symmetric == Permutations(Requests) \cup Permutations(Workers)
=============================================================================
