-------------------------- MODULE RetryDiscipline --------------------------
(***************************************************************************)
(* The RetryDiscipline of src/retry.rs: what it remembers per operation    *)
(* kind, and its concurrency limits, whose permits are acquired with a     *)
(* compare-and-exchange loop and dropped without a lock.                   *)
(*                                                                         *)
(* record_failure and record_success take the discipline exclusively, so   *)
(* each is one step; try_acquire shares it, so each access to the counter  *)
(* is one step.  A counter is a single atomic location: its loads, Relaxed *)
(* as they are, are taken to return its latest value.                      *)
(***************************************************************************)
EXTENDS RetryPolicy, FiniteSets

CONSTANTS
  Kinds,       \* the kinds of operation
  Limit,       \* the limit of each kind: max_*_concurrency
  Tasks,       \* who acquires permits
  Failures,    \* the errors that are recorded
  MaxAttempts  \* bound: transient failures counted of a kind

OperationKind == {"Registration", "Connection", "ExitProbe", "HealthCheck"}

ASSUME DisciplineAssumption ==
  /\ Kinds \subseteq OperationKind
  /\ Limit \in [Kinds -> Nat]
  /\ IsFiniteSet(Tasks)
  /\ Failures \subseteq Reasons \cup {"transient"}
  /\ MaxAttempts \in Nat

VARIABLES
  memory,   \* what is remembered of each kind
  answer,   \* the last OperationOutcome that was answered of each kind
  asked,    \* history: next_retry answered it
  current,  \* the counter of each limit
  pc,       \* of each task: "idle", "exchange" or "holding"
  wants,    \* the kind it acquires or holds
  seen      \* its local `current': the value it read of the counter

answerVars == <<memory, answer, asked>>
permitVars == <<current, pc, wants, seen>>
vars       == <<answerVars, permitVars>>

-----------------------------------------------------------------------------
(* The memory.                                                             *)

(* The mutant forgets that a blocked operation must not be scheduled.      *)
RecordFailureUnblocks(k, error) ==
  /\ memory[k].attempts < MaxAttempts \/ error \in Reasons
  /\ answer' = [answer EXCEPT ![k] = FailureAnswer([memory[k] EXCEPT !.blocked = "no"], error)]
  /\ memory' = [memory EXCEPT ![k] = AfterFailure([@ EXCEPT !.blocked = "no"], error)]
  /\ asked' = [asked EXCEPT ![k] = FALSE]
  /\ UNCHANGED permitVars

RecordFailure(k, error) ==
  /\ memory[k].attempts < MaxAttempts \/ error \in Reasons
  /\ answer' = [answer EXCEPT ![k] = FailureAnswer(memory[k], error)]
  /\ memory' = [memory EXCEPT ![k] = AfterFailure(@, error)]
  /\ asked' = [asked EXCEPT ![k] = FALSE]
  /\ UNCHANGED permitVars

(* The caller learns nothing new: what it knows is that it may go on.      *)
RecordSuccess(k) ==
  /\ memory' = [memory EXCEPT ![k] = Fresh]
  /\ answer' = [answer EXCEPT ![k] = Ready]
  /\ asked' = [asked EXCEPT ![k] = FALSE]
  /\ UNCHANGED permitVars

NextRetry(k) ==
  /\ answer' = [answer EXCEPT ![k] = next_retry(memory[k])]
  /\ asked' = [asked EXCEPT ![k] = TRUE]
  /\ UNCHANGED <<memory, permitVars>>

-----------------------------------------------------------------------------
(* The permits.                                                            *)

(* One turn of the loop of acquire with the value just read: give up when  *)
(* the limit is reached, otherwise try to exchange it.                     *)
TurnWith(t, k) ==
  IF current[k] >= Limit[k]
  THEN pc' = [pc EXCEPT ![t] = "idle"] /\ UNCHANGED seen
  ELSE pc' = [pc EXCEPT ![t] = "exchange"] /\ seen' = [seen EXCEPT ![t] = current[k]]

(* try_acquire: the load.                                                  *)
TryAcquire(t, k) ==
  /\ pc[t] = "idle"
  /\ wants' = [wants EXCEPT ![t] = k]
  /\ TurnWith(t, k)
  /\ UNCHANGED <<answerVars, current>>

Acquired(t) ==
  /\ current' = [current EXCEPT ![wants[t]] = @ + 1]
  /\ pc' = [pc EXCEPT ![t] = "holding"]
  /\ UNCHANGED seen

(* compare_exchange; the mutants store without comparing, give up when     *)
(* somebody else was faster, and try again with the value they had.        *)
ExchangeBlind(t) ==
  /\ pc[t] = "exchange"
  /\ Acquired(t)
  /\ UNCHANGED <<answerVars, wants>>

ExchangeOnce(t) ==
  /\ pc[t] = "exchange"
  /\ IF current[wants[t]] = seen[t]
     THEN Acquired(t)
     ELSE /\ pc' = [pc EXCEPT ![t] = "idle"]
          /\ UNCHANGED <<current, seen>>
  /\ UNCHANGED <<answerVars, wants>>

ExchangeStale(t) ==
  /\ pc[t] = "exchange"
  /\ IF current[wants[t]] = seen[t]
     THEN Acquired(t)
     ELSE UNCHANGED <<current, pc, seen>>
  /\ UNCHANGED <<answerVars, wants>>

Exchange(t) ==
  /\ pc[t] = "exchange"
  /\ IF current[wants[t]] = seen[t]
     THEN Acquired(t)
     ELSE TurnWith(t, wants[t]) /\ UNCHANGED current
  /\ UNCHANGED <<answerVars, wants>>

(* ConcurrencyPermit::drop: fetch_sub; the mutant runs it twice.           *)
DropPermitTwice(t) ==
  /\ pc[t] = "holding"
  /\ current' = [current EXCEPT ![wants[t]] = @ - 2]
  /\ pc' = [pc EXCEPT ![t] = "idle"]
  /\ UNCHANGED <<answerVars, wants, seen>>

DropPermit(t) ==
  /\ pc[t] = "holding"
  /\ current' = [current EXCEPT ![wants[t]] = @ - 1]
  /\ pc' = [pc EXCEPT ![t] = "idle"]
  /\ UNCHANGED <<answerVars, wants, seen>>

-----------------------------------------------------------------------------

Init ==
  /\ memory = [k \in Kinds |-> Fresh]
  /\ answer = [k \in Kinds |-> Ready]
  /\ asked = [k \in Kinds |-> FALSE]
  /\ current = [k \in Kinds |-> 0]
  /\ pc = [t \in Tasks |-> "idle"]
  /\ wants \in [Tasks -> Kinds]
  /\ seen = [t \in Tasks |-> 0]

Next ==
  \/ \E k \in Kinds :
       \/ \E error \in Failures : RecordFailure(k, error)
       \/ RecordSuccess(k)
       \/ NextRetry(k)
  \/ \E t \in Tasks :
       \/ \E k \in Kinds : TryAcquire(t, k)
       \/ Exchange(t)
       \/ DropPermit(t)

Spec == Init /\ [][Next]_vars

(* A thread in the middle of acquire is scheduled: the loop has no wait.   *)
FairSpec == Spec /\ \A t \in Tasks : WF_vars(Exchange(t))

-----------------------------------------------------------------------------
(* Properties.                                                             *)

(* The type of the state.                                                  *)
DisciplineTypeOK ==
  /\ memory \in [Kinds -> Memory]
  /\ answer \in [Kinds -> {Ready} \cup [kind : {"retry"}, delay : Nat]
                                  \cup [kind : {"blocked"}, reason : Reasons]]
  /\ asked \in [Kinds -> BOOLEAN]
  /\ current \in [Kinds -> Nat]
  /\ pc \in [Tasks -> {"idle", "exchange", "holding"}]
  /\ wants \in [Tasks -> Kinds]
  /\ seen \in [Tasks -> Nat]

PermitsOf(k) == {t \in Tasks : pc[t] = "holding" /\ wants[t] = k}

(* The counter of a limit is the number of permits in flight and is never  *)
(* above the limit, whatever the order of loads, exchanges and drops.  The *)
(* unchecked subtraction of drop never wraps.                              *)
PermitsCounted ==
  \A k \in Kinds : current[k] = Cardinality(PermitsOf(k)) /\ current[k] <= Limit[k]

(* A task is refused only when every permit is in flight: losing a race is *)
(* never taken for a full limit.                                           *)
RefusedOnlyWhenFull ==
  [][\A t \in Tasks, k \in Kinds :
       /\ TryAcquire(t, k) \/ (Exchange(t) /\ wants[t] = k)
       /\ pc'[t] = "idle"
       => Cardinality(PermitsOf(k)) = Limit[k]]_vars

(* A task keeps losing the exchange only while others keep winning it.     *)
LostOnlyToWinners ==
  \A t \in Tasks :
    <>[](pc[t] = "exchange") =>
      []<><<\E u \in Tasks : Exchange(u) /\ pc'[u] = "holding">>_vars

(* How often a task that is about to exchange can still lose: once if the  *)
(* value it has is old, and twice for every permit that can be dropped.    *)
LossesLeft(t) ==
  2 * current[wants[t]] + (IF seen[t] = current[wants[t]] THEN 0 ELSE 1)

(* The reason for it: while nobody takes a permit of its kind, a task that *)
(* loses the exchange has one loss less left, and nothing that others do   *)
(* gives it one back (a loss reads the counter anew, and counters that     *)
(* nobody raises only fall).                                               *)
LosingRunsOut ==
  [][\A t \in Tasks :
       /\ pc[t] = "exchange" /\ pc'[t] = "exchange"
       /\ ~\E u \in Tasks : Exchange(u) /\ pc'[u] = "holding" /\ wants[u] = wants[t]
       => /\ LossesLeft(t)' <= LossesLeft(t)
          /\ Exchange(t) => LossesLeft(t)' < LossesLeft(t)]_vars

(* Once an operation was answered "blocked" nothing schedules a retry of   *)
(* it: no later transient failure, no question, only a success clears it.  *)
BlockedStopsRetry ==
  [][\A k \in Kinds : answer[k].kind = "blocked" => answer'[k].kind # "retry"]_vars

(* A caller that asks what is next is told what it will be told of the     *)
(* next transient failure, the delay or the reason, however often it asks: *)
(* the answer of next_retry is one step ahead of the last one, and asking  *)
(* is no step (the attempts are counted after the delay is computed).      *)
NextRetryPredicts ==
  [][\A k \in Kinds :
       asked[k] /\ answer[k] # Ready /\ RecordFailure(k, "transient") =>
         answer'[k] = answer[k]]_vars

(* The answered delays never shrink between two successes, and they stay   *)
(* between the jitter and the cap plus the jitter, where the multiplier    *)
(* saturates too.                                                          *)
BackoffGrows ==
  [][\A k \in Kinds :
       answer'[k].kind = "retry" =>
         /\ answer'[k].delay \in Jitter..(MaxDelay + Jitter)
         /\ answer[k].kind = "retry" => answer[k].delay <= answer'[k].delay]_vars

=============================================================================
