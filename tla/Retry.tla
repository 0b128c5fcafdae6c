-------------------------------- MODULE Retry --------------------------------
(***************************************************************************)
(* retry.Retry (pkg/retry/retry.go): call a function until it succeeds, it *)
(* fails, or it has been called MaxRetries times, once per tick.           *)
(*                                                                         *)
(* Time is a number of units.  It passes while a call takes its time and   *)
(* while Retry waits for a tick; everything else takes none.               *)
(***************************************************************************)
EXTENDS Integers

CONSTANTS
  Interval,     \* between two ticks; NewTicker panics unless it is positive
  MaxRetries,   \* the number of calls
  MaxCall       \* how long a call takes at most: bounds the behaviours

ASSUME RetryAssumption == /\ Interval \in Nat \ {0}
                          /\ MaxRetries \in Int
                          /\ MaxCall \in Nat

VARIABLES
  rpc,          \* "idle", "calling" f or "waiting" for a tick
  attempt,      \* i
  elapsed,      \* the time since the ticker was made
  since,        \* the part of it since the last call began
  due,          \* the time until the next tick
  tick,         \* does tick.C hold a tick?  It has room for one
  outcome       \* what Retry returns

retryVars == <<rpc, attempt, elapsed, since, due, tick, outcome>>

Outcomes == {"ok", "error", "exhausted", "invalid"}

RetryTypeOK ==
  /\ rpc \in {"idle", "calling", "waiting"}
  /\ attempt \in Nat
  /\ elapsed \in Nat
  /\ since \in Nat
  /\ due \in 1..Interval
  /\ tick \in BOOLEAN
  /\ outcome \in Outcomes \cup {"none"}

RetryInit ==
  /\ rpc = "idle"
  /\ attempt = 0
  /\ elapsed = 0
  /\ since = 0
  /\ due = Interval
  /\ tick = FALSE
  /\ outcome = "none"

Start ==
  /\ rpc = "idle"
  /\ attempt' = 0
  /\ elapsed' = 0
  /\ since' = 0
  /\ due' = Interval
  /\ tick' = FALSE
  /\ IF MaxRetries <= 0 THEN rpc' = "idle" /\ outcome' = "invalid"
                        ELSE rpc' = "calling" /\ outcome' = "none"

\* A mutant: a timer that fires once instead of a ticker.
PassTimer ==
  /\ \/ rpc = "calling" /\ since < MaxCall
     \/ rpc = "waiting" /\ ~tick
  /\ elapsed' = elapsed + 1
  /\ since' = since + 1
  /\ due' = due - 1
  /\ tick' = (tick \/ due = 1)
  /\ UNCHANGED <<rpc, attempt, outcome>>

\* A tick is dropped if nobody has taken the one before.
Pass ==
  /\ \/ rpc = "calling" /\ since < MaxCall
     \/ rpc = "waiting" /\ ~tick
  /\ elapsed' = elapsed + 1
  /\ since' = since + 1
  /\ due' = IF due = 1 THEN Interval ELSE due - 1
  /\ tick' = (tick \/ due = 1)
  /\ UNCHANGED <<rpc, attempt, outcome>>

\* A mutant: the ticker is waited for before the last failure is noticed.
CallReturnsLate ==
  /\ rpc = "calling"
  /\ IF attempt = MaxRetries
       THEN rpc' = "idle" /\ outcome' = "exhausted"
       ELSE \/ rpc' = "idle" /\ outcome' \in {"ok", "error"}
            \/ rpc' = "waiting" /\ UNCHANGED outcome
  /\ UNCHANGED <<attempt, elapsed, since, due, tick>>

CallReturns ==
  /\ rpc = "calling"
  /\ \/ rpc' = "idle" /\ outcome' \in {"ok", "error"}
     \/ IF attempt + 1 = MaxRetries
          THEN rpc' = "idle" /\ outcome' = "exhausted"
          ELSE rpc' = "waiting" /\ UNCHANGED outcome
  /\ UNCHANGED <<attempt, elapsed, since, due, tick>>

\* A mutant: the tick is looked at and not taken.
NextTickKept ==
  /\ rpc = "waiting"
  /\ tick
  /\ rpc' = "calling"
  /\ attempt' = attempt + 1
  /\ since' = 0
  /\ UNCHANGED <<elapsed, due, tick, outcome>>

NextTick ==
  /\ rpc = "waiting"
  /\ tick
  /\ tick' = FALSE
  /\ rpc' = "calling"
  /\ attempt' = attempt + 1
  /\ since' = 0
  /\ UNCHANGED <<elapsed, due, outcome>>

-----------------------------------------------------------------------------
(* Properties.                                                             *)

\* The longest time between the beginnings of two calls.
Longer == IF Interval > MaxCall THEN Interval ELSE MaxCall

\* "Every interval", and delayed if f takes longer: the call after i others
\* begins no earlier than the ith tick, and calls that took too long put it off
\* by no more than they took too long, a tick that was missed being made up for.
PacedCalls ==
  rpc = "calling" => /\ attempt * Interval <= elapsed - since
                     /\ elapsed - since <= attempt * Longer

\* The longest time that Retry takes.
Limit == IF MaxRetries <= 0 THEN 0 ELSE (MaxRetries - 1) * Longer + MaxCall

=============================================================================
