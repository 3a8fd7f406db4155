----------------------------- MODULE Gatekeeper -----------------------------
(***************************************************************************)
(* The three gates of infra/gatekeeper.py in front of the e-mail sender of *)
(* infra/email.py, which has an hourly limit of its own.                   *)
(*                                                                         *)
(* Every stored instant is kept as its age, so that time is a tick that    *)
(* makes all of them older.  Tokens are counted in fractions of 1 / Cost.  *)
(* The guarded call takes time; calls do not overlap (no lock guards the   *)
(* gates, and the code makes its calls one by one).                        *)
(***************************************************************************)
EXTENDS Integers, Sequences, FiniteSets

CONSTANTS
    DailyQuota, Day,      \* daily_quota per rolling _DAY_SECONDS
    Capacity, Refill,     \* bucket_capacity; fractions of a token per tick
    Cost,                 \* fractions that make one token
    Threshold, Cooldown,  \* breaker_threshold, breaker_cooldown
    MaxPerHour, Hour,     \* the limiter of GmailSender
    MaxFailures,          \* bound: failures counted in a row
    Never                 \* no instant

ASSUME GatekeeperAssumption ==
    /\ DailyQuota \in Nat \ {0} /\ Day \in Nat \ {0}
    /\ Capacity \in Nat \ {0} /\ Refill \in Nat \ {0} /\ Cost \in Nat \ {0}
    /\ Threshold \in Nat \ {0} /\ Cooldown \in Nat \ {0}
    /\ MaxPerHour \in Nat \ {0} /\ Hour \in Nat \ {0}
    /\ MaxFailures \in Nat /\ Never \notin Nat

VARIABLES
    calls,     \* _calls: ages of the counted calls, the oldest first
    tokens,    \* _tokens, as of the last refill
    stale,     \* ticks since _last_refill
    failures,  \* _failures
    opened,    \* age of _opened_at, or Never
    halfOpen,  \* _half_open
    busy,      \* the guarded call is running
    mails,     \* _RateLimiter._q: ages of the allowed e-mails
    starts,    \* history: ages of the calls that were let through
    passed,    \* history: ages of the e-mails that were let through
    streak,    \* history: calls that failed in a row, at most Threshold of them
    rest       \* history: ticks since the last failure

gates == <<calls, tokens, stale, failures, opened, halfOpen>>
history == <<starts, passed, streak, rest>>
gateVars == <<gates, busy, mails, history>>

GateInit ==
    /\ calls = <<>> /\ tokens = Capacity * Cost /\ stale = 0
    /\ failures = 0 /\ opened = Never /\ halfOpen = FALSE
    /\ busy = FALSE /\ mails = <<>>
    /\ starts = <<>> /\ passed = <<>> /\ streak = 0 /\ rest = 0

\* A rolling window forgets its oldest calls, up to the first that is young.
Within(ages, window) ==
    LET gone == CHOOSE n \in 0 .. Len(ages) :
                    /\ \A i \in 1 .. n : ages[i] >= window
                    /\ n < Len(ages) => ages[n + 1] < window
    IN  SubSeq(ages, gone + 1, Len(ages))

-----------------------------------------------------------------------------
(* execute(): breaker, quota, token, then the call.                        *)

BreakerOpen == opened # Never /\ opened < Cooldown

\* _check_breaker: after the cooldown the next call is a probe.
Probing == IF opened # Never THEN TRUE ELSE halfOpen

\* What _check_quota leaves in the window.
Counted == Within(calls, Day)

LesserOf(a, b) == IF a < b THEN a ELSE b

\* Mutant: the bucket holds more than its capacity.
LevelUncapped == tokens + stale * Refill

\* _tokens after the refill of _consume_token.
Level == LesserOf(Capacity * Cost, tokens + stale * Refill)

\* The breaker is open: nothing else is looked at.
FastRefused ==
    /\ ~busy /\ BreakerOpen
    /\ UNCHANGED gateVars

OverQuota ==
    /\ ~busy /\ ~BreakerOpen
    /\ Len(Counted) >= DailyQuota
    /\ calls' = Counted /\ halfOpen' = Probing
    /\ UNCHANGED <<tokens, stale, failures, opened, busy, mails, history>>

\* The call was counted and is un-counted again: calls.pop().
OutOfTokens ==
    /\ ~busy /\ ~BreakerOpen
    /\ Len(Counted) < DailyQuota
    /\ Level < Cost
    /\ calls' = Counted /\ halfOpen' = Probing
    /\ tokens' = Level /\ stale' = 0
    /\ UNCHANGED <<failures, opened, busy, mails, history>>

\* Every gate lets the call through; send_result asks its own limiter first.
LetThrough ==
    /\ ~busy /\ ~BreakerOpen
    /\ Len(Counted) < DailyQuota
    /\ Level >= Cost
    /\ calls' = Append(Counted, 0) /\ halfOpen' = Probing
    /\ tokens' = Level - Cost /\ stale' = 0
    /\ busy' = TRUE
    /\ starts' = Append(starts, 0)
    /\ UNCHANGED <<failures, opened, mails, passed, streak, rest>>

-----------------------------------------------------------------------------
(* send_result() and what execute() makes of it.                           *)

\* _on_failure
Failed ==
    /\ failures' = failures + 1
    /\ IF halfOpen \/ failures + 1 >= Threshold
         THEN opened' = 0 /\ halfOpen' = FALSE
         ELSE UNCHANGED <<opened, halfOpen>>

\* _on_success
Succeeded == failures' = 0 /\ opened' = Never /\ halfOpen' = FALSE

\* What _RateLimiter.allow leaves in its window, closed at the far end.
Recent == Within(mails, Hour + 1)
Allowed == Len(Recent) < MaxPerHour

\* The sender raises, which it can only once its limiter has let it try.
Raises ==
    /\ busy /\ Allowed /\ failures < MaxFailures
    /\ busy' = FALSE
    /\ mails' = Append(Recent, 0) /\ passed' = Append(passed, 0)
    /\ Failed
    /\ streak' = LesserOf(Threshold, streak + 1) /\ rest' = 0
    /\ UNCHANGED <<calls, tokens, stale, starts>>

\* It returns: the mail is out, or {"sent": False} tells that the limiter or
\* the provider refused it, which the breaker takes for a success.
Returns ==
    /\ busy
    /\ busy' = FALSE
    /\ IF Allowed THEN mails' = Append(Recent, 0) /\ passed' = Append(passed, 0)
                  ELSE mails' = Recent /\ UNCHANGED passed
    /\ Succeeded
    /\ streak' = 0
    /\ UNCHANGED <<calls, tokens, stale, starts, rest>>

-----------------------------------------------------------------------------
(* Time.                                                                   *)

\* Ages grow; nothing tells the ones at the cap apart.
Older(ages, cap) == [i \in DOMAIN ages |-> LesserOf(cap, ages[i] + 1)]

Elapses ==
    /\ calls' = Older(calls, Day)
    /\ mails' = Older(mails, Hour + 1)
    /\ stale' = IF stale * Refill >= Capacity * Cost THEN stale ELSE stale + 1
    /\ opened' = IF opened = Never THEN Never ELSE LesserOf(Cooldown, opened + 1)
    /\ starts' = Within(Older(starts, Day), Day)
    /\ passed' = Within(Older(passed, Hour + 1), Hour + 1)
    /\ rest' = LesserOf(Cooldown, rest + 1)
    /\ UNCHANGED <<tokens, failures, halfOpen, busy, streak>>

GateNext == \/ FastRefused \/ OverQuota \/ OutOfTokens \/ LetThrough
            \/ Raises \/ Returns \/ Elapses

GateSpec == GateInit /\ [][GateNext]_gateVars

-----------------------------------------------------------------------------
(* Properties.                                                             *)

\* No limit is exceeded in any window, wherever it starts and however calls,
\* refusals and pauses alternate: the quota of a rolling day, the burst and
\* the rate of the bucket, the hourly limit of the sender; and the quota is
\* spent by the calls that were made, never by one that was refused
\* (gatekeeper.py, "un-count: call refused, not attempted").
LimitsExact ==
    /\ Len(starts) = Len(Counted) /\ Len(starts) <= DailyQuota
    /\ \A i, j \in DOMAIN starts : i <= j =>
           (j - i + 1) * Cost <= Capacity * Cost + (starts[i] - starts[j]) * Refill
    /\ Len(passed) <= MaxPerHour

\* After a run of failures the service is left alone: as long as no call
\* succeeds, no call starts within a cooldown of the last failure, the
\* half-open probe that fails included.
BreakerRests ==
    [][~busy /\ busy' /\ streak >= Threshold => rest >= Cooldown]_gateVars

=============================================================================
