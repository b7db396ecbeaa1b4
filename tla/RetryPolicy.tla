---------------------------- MODULE RetryPolicy ----------------------------
(***************************************************************************)
(* What src/retry.rs remembers of one kind of operation and what it        *)
(* answers: the backoff, and the blocked state that stops it.  There is no *)
(* state in this module: RetryDiscipline shares one of these records per   *)
(* kind, every registration service of Registration has one of its own.    *)
(***************************************************************************)
EXTENDS Integers

CONSTANTS
  BaseDelay, MaxDelay, Jitter,  \* RetryPolicy, in milliseconds
  MultiplierBits                \* the width of the multiplier, 32

ASSUME PolicyAssumption ==
  /\ BaseDelay \in Nat
  /\ MaxDelay \in Nat
  /\ Jitter \in Nat
  /\ MultiplierBits \in Nat \ {0}

(* `attempts' is 0 when the map has no entry; `blocked' is the last reason *)
(* to stop, or "no".                                                       *)
Reasons == {"blocked", "unsupported"}
Memory  == [attempts : Nat, blocked : Reasons \cup {"no"}]
Fresh   == [attempts |-> 0, blocked |-> "no"]

(* 2_u32.saturating_pow(attempts), and the capped delay.  The jitter is a  *)
(* constant that is added last, above the cap.  The mutant wraps instead   *)
(* of saturating.                                                          *)
MultiplierWraps(attempts) == (2 ^ attempts) % (2 ^ MultiplierBits)

Multiplier(attempts) ==
  IF attempts < MultiplierBits THEN 2 ^ attempts ELSE 2 ^ MultiplierBits - 1

retry_delay(attempts) ==
  LET delay == BaseDelay * Multiplier(attempts)
  IN  (IF delay < MaxDelay THEN delay ELSE MaxDelay) + Jitter

Ready         == [kind |-> "ready"]
RetryAfter(d) == [kind |-> "retry", delay |-> d]
Blocked(r)    == [kind |-> "blocked", reason |-> r]

(* record_failure: what it remembers of an error and what it answers.  A   *)
(* transient failure of a blocked operation is answered with the reason    *)
(* and is not counted.  The mutant takes every failure for a reason.       *)
AfterFailureBlocks(memory, error) == [memory EXCEPT !.blocked = error]

AfterFailure(memory, error) ==
  IF error \in Reasons THEN [memory EXCEPT !.blocked = error]
  ELSE IF memory.blocked # "no" THEN memory
  ELSE [memory EXCEPT !.attempts = @ + 1]

FailureAnswer(memory, error) ==
  IF error \in Reasons THEN Blocked(error)
  ELSE IF memory.blocked # "no" THEN Blocked(memory.blocked)
  ELSE RetryAfter(retry_delay(memory.attempts))

(* next_retry: the delay of the failures so far, one step further than the *)
(* delay record_failure has just answered.  The mutant repeats that delay. *)
next_retryRepeats(memory) ==
  IF memory.blocked # "no" THEN Blocked(memory.blocked)
  ELSE IF memory.attempts = 0 THEN Ready
  ELSE RetryAfter(retry_delay(memory.attempts - 1))

next_retry(memory) ==
  IF memory.blocked # "no" THEN Blocked(memory.blocked)
  ELSE IF memory.attempts = 0 THEN Ready
  ELSE RetryAfter(retry_delay(memory.attempts))

=============================================================================
