------------------------------- MODULE Backoff -------------------------------
(***************************************************************************)
(* The waits between attempts: nextDelay of internal/cloudlink/reconnect.go *)
(* and the back-off of internal/executor/retry.go.  Both multiply a        *)
(* time.Duration, an int64 of nanoseconds, by a power of two and cap the   *)
(* product.  A word is the set of its bits, 63 being the sign, so that the *)
(* product wraps as it does in the program.                                *)
(***************************************************************************)
EXTENDS Naturals

Bits == 0..63
Sign == 63

(* reconnectInitDelay = retryInitDelay, 5 s; reconnectMaxDelay =           *)
(* retryMaxBackoff, 300 s.                                                 *)
InitDelay == {9, 12, 13, 14, 15, 16, 18, 25, 27, 29, 32}
MaxDelay == {11, 12, 13, 15, 18, 21, 22, 24, 27, 28, 30, 31, 32, 34, 38}

Shift(word, k) == {b + k : b \in word} \cap Bits
Negative(word) == Sign \in word
Positive(word) == word # {} /\ ~Negative(word)
(* The larger of two words that are not negative has the highest bit in    *)
(* which they differ.                                                      *)
Exceeds(v, w) ==
  /\ ~Negative(v)
  /\ \E b \in v \ w : \A c \in (v \cup w) \ (v \cap w) : c <= b

Cap(word) == IF Exceeds(word, MaxDelay) THEN MaxDelay ELSE word

(* -InitDelay: the lowest bit stays, those above it are flipped.           *)
MinusInit == {9} \cup ({b \in Bits : b > 9} \ InitDelay)

(* InitDelay * int64(math.Pow(2, k)).  From 2^63 on the conversion of the  *)
(* float is left to the machine: the smallest int64 (the product is 0) or  *)
(* the largest (it is -InitDelay).                                         *)
Products(k) == IF k < Sign THEN {Shift(InitDelay, k)} ELSE {{}, MinusInit}

(* nextDelay, for the attempt it has just counted.                         *)
NextDelay(attempt) == {Cap(d) : d \in Products(attempt - 1)}

(* handleRetry, for the count it has just raised, at most maxRetryCount.   *)
RetryDelay(count) == Cap(Shift(InitDelay, count - 1))

-----------------------------------------------------------------------------
(* What the delays should be: doubled from 5 s up to 300 s.                *)
Documented(n) == IF n <= 6 THEN Shift(InitDelay, n - 1) ELSE MaxDelay

LastSound == 31     \* the last attempt whose product fits
FirstIdle == 56     \* from here on every bit of the product is lost
=============================================================================
