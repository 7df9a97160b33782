----------------------------- MODULE CircuitBreaker -----------------------------
(***************************************************************************)
(* core/circuit_breaker.py around one service.  AsyncCircuitBreaker runs a *)
(* call itself and hands only its outcome to the state machine of          *)
(* pybreaker, after the fact: a success or an error that is excluded by a  *)
(* call of a function that returns, an error by one that raises.           *)
(*                                                                         *)
(* pybreaker is half open only while it is handed an outcome, so that      *)
(* state is never seen between two steps.  Time passes in ticks.           *)
(***************************************************************************)
EXTENDS Naturals

CONSTANTS
    Callers,        \* users of breaker.call or of the decorator
    Blocks,         \* those of them that use the context manager instead
    FailMax,        \* fail_max
    ResetTimeout,   \* reset_timeout, in ticks
    ExcludesTimeouts,               \* exclude = (TimeoutError,)
    MaxTurns, MaxResets             \* bounds

BreakerParameters ==
    /\ Blocks \subseteq Callers
    /\ {FailMax, ResetTimeout} \subseteq Nat \ {0}
    /\ ExcludesTimeouts \in BOOLEAN
    /\ {MaxTurns, MaxResets} \subseteq Nat

VARIABLES
    state,      \* the breaker is "closed" or "open",
    fails,      \* with this fail_counter,
    elapsed,    \* opened so many ticks ago
    calls,      \* is the caller in a call?
    healthy,    \* does the service answer?
    streak,     \* failures reported since the last success or reset (history)
    turns, resets

breakerVars == <<state, fails, elapsed, calls, healthy, streak, turns, resets>>

-----------------------------------------------------------------------------
\* The counter keeps counting where nothing opens the breaker: its value past the
\* threshold tells nothing more.
Counts == 0..FailMax

Init ==
    /\ state = "closed" /\ fails = 0 /\ elapsed = 0
    /\ calls = [c \in Callers |-> "idle"]
    /\ healthy = TRUE
    /\ streak = 0 /\ turns = 0 /\ resets = 0

NextCount(n) == IF n = FailMax THEN n ELSE n + 1

Counted == NextCount(fails)

Closed == state' = "closed" /\ fails' = 0 /\ elapsed' = 0 /\ streak' = 0

\* pybreaker refuses even the report of an outcome while the time-out runs.
Deaf == state = "open" /\ elapsed < ResetTimeout

RecordSuccess ==
    IF Deaf THEN UNCHANGED <<state, fails, elapsed, streak>> ELSE Closed

\* Wrong variant of RecordFailure: the threshold is only compared.
RecordFailure_NeverOpens ==
    /\ fails' = Counted /\ streak' = NextCount(streak)
    /\ UNCHANGED <<state, elapsed>>

RecordFailure ==
    IF Deaf THEN UNCHANGED <<state, fails, elapsed, streak>>
    ELSE /\ fails' = Counted /\ streak' = NextCount(streak)
         /\ state' = IF state = "open" \/ Counted = FailMax THEN "open" ELSE "closed"
         /\ elapsed' = 0

Ends(c) ==
    /\ calls' = [calls EXCEPT ![c] = "idle"]
    /\ UNCHANGED <<healthy, turns, resets>>

-----------------------------------------------------------------------------
\* An open breaker answers CircuitBreakerOpen, whatever time has passed since it opened.
Call(c) ==
    /\ c \notin Blocks
    /\ calls[c] = "idle" /\ state = "closed"
    /\ calls' = [calls EXCEPT ![c] = "call"]
    /\ UNCHANGED <<state, fails, elapsed, healthy, streak, turns, resets>>

Returns(c) == calls[c] = "call" /\ healthy /\ RecordSuccess /\ Ends(c)

Raises(c) ==
    /\ calls[c] = "call" /\ ~healthy
    /\ IF ExcludesTimeouts THEN RecordFailure \/ RecordSuccess ELSE RecordFailure
    /\ Ends(c)

\* async with get_circuit_breaker(...): nothing is reported, only the counter moves.
Enter(c) ==
    /\ c \in Blocks
    /\ calls[c] = "idle" /\ state = "closed"
    /\ calls' = [calls EXCEPT ![c] = "block"]
    /\ UNCHANGED <<state, fails, elapsed, healthy, streak, turns, resets>>

Leave(c) ==
    /\ calls[c] = "block"
    /\ fails' = IF healthy THEN fails ELSE Counted
    /\ UNCHANGED <<state, elapsed, streak>>
    /\ Ends(c)

Reset ==
    /\ resets < MaxResets
    /\ resets' = resets + 1
    /\ Closed
    /\ UNCHANGED <<calls, healthy, turns>>

\* The service breaks down or comes back.
Turn ==
    /\ turns < MaxTurns
    /\ turns' = turns + 1
    /\ healthy' = ~healthy
    /\ UNCHANGED <<state, fails, elapsed, calls, streak, resets>>

Tick ==
    /\ Deaf
    /\ elapsed' = elapsed + 1
    /\ UNCHANGED <<state, fails, calls, healthy, streak, turns, resets>>

Next ==
    \/ \E c \in Callers : Call(c) \/ Returns(c) \/ Raises(c) \/ Enter(c) \/ Leave(c)
    \/ Reset \/ Turn \/ Tick

Spec == Init /\ [][Next]_breakerVars

-----------------------------------------------------------------------------
TypeOK ==
    /\ state \in {"closed", "open"}
    /\ fails \in Counts /\ elapsed \in 0..ResetTimeout
    /\ calls \in [Callers -> {"idle", "call", "block"}]
    /\ healthy \in BOOLEAN
    /\ streak \in Counts
    /\ turns \in 0..MaxTurns /\ resets \in 0..MaxResets

(* "Detecting failures and preventing cascading failures"                   *)
(* (circuit_breaker.py): after fail_max failures in a row the breaker is    *)
(* open, whoever else uses it in a block, whatever calls were on their way  *)
(* and however often it was reset.                                          *)
OutagesOpen == streak = FailMax => state = "open"
=============================================================================
