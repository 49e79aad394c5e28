------------------------------- MODULE MCRetry -------------------------------
(* Retry with 6-bit durations and a 4-bit mantissa.  The longest loop goes *)
(* past the cap on the exponent; the others cover a MaxDelay that float64  *)
(* rounds beyond the largest duration, the ignored n = 0, a constant       *)
(* strategy, jitter, no RetryIf, and durations that are zero or negative.  *)
EXTENDS Retry

Shape(n, initial, max, strategy, jitter, retryIf) ==
  [n |-> n, InitialDelay |-> initial, MaxDelay |-> max,
   Strategy |-> strategy, Jitter |-> jitter, RetryIf |-> retryIf]

NoCall == Shape(0, 1, 1, "constant", FALSE, "nil")

MCConfigs ==
  {Shape(8, i, m, "exponential", j, "func") : i \in {1, 3, 19}, m \in {4, 21, 29},
                                              j \in BOOLEAN}
    \cup {Shape(8, 2, 31, "exponential", j, "func") : j \in BOOLEAN}
    \cup {Shape(n, i, m, "constant", TRUE, "func") : n \in {0, 2}, i \in {-2, 0, 5},
                                                     m \in {-1, 0, 7}}
    \cup {NoCall}
=============================================================================
