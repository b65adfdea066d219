------------------------------- MODULE Backoff -------------------------------
(***************************************************************************)
(* calculateNextRetryTime of domain/entities/sent_email.go: the delay      *)
(* before a retry is 3^RetryCount times five minutes, a time.Duration,     *)
(* which is an int64 of nanoseconds that wraps around silently.            *)
(*                                                                         *)
(* A 64-bit word is four limbs of 16 bits, the lowest first.               *)
(***************************************************************************)
EXTENDS Integers

Limb == 65536     \* 2^16

\* time.Duration(1).
One == <<1, 0, 0, 0>>

\* w * k modulo 2^64, for a k of at most 15 bits.
Times(w, k) ==
    LET Carry[i \in 0..4] == IF i = 0 THEN 0 ELSE (w[i] * k + Carry[i - 1]) \div Limb
    IN  [i \in 1..4 |-> (w[i] * k + Carry[i - 1]) % Limb]

\* Two's complement: the sign is the highest bit.
Negative(w) == w[4] >= 32768     \* 2^15

Power_Ten(retryCount) ==
    LET Delay[i \in 0..retryCount] == IF i = 0 THEN One ELSE Times(Delay[i - 1], 10)
    IN  Delay[retryCount]

\* The loop: delay *= 3, RetryCount times.
Power(retryCount) ==
    LET Delay[i \in 0..retryCount] == IF i = 0 THEN One ELSE Times(Delay[i - 1], 3)
    IN  Delay[retryCount]

\* delay * baseDelay: five minutes are 30000 * 10000 * 1000 nanoseconds.
CalculateDelay(retryCount) == Times(Times(Times(Power(retryCount), 30000), 10000), 1000)

\* Is the next retry later than now?
InFuture(retryCount) == ~Negative(CalculateDelay(retryCount))
==============================================================================
