------------------------------ MODULE TurnClock -----------------------------
(***************************************************************************)
(* The timed side of one sub-game: every deadline of the two turn loops    *)
(* and the watchdog thread of one of them.                                 *)
(*                                                                         *)
(* A peer decides under the brain deadline of peer/brain_clock.py, sends   *)
(* under the call deadline of infra/transport.py, one attempt after the    *)
(* other, and waits under the opponent-turn deadline it arms anew for      *)
(* every message (peer/deadlines.py, peer/runtime.py).  The watchdog       *)
(* (peer/watchdog.py) scans the heartbeats under its lock and calls back   *)
(* after releasing it, while the turn loop goes on kicking.                *)
(*                                                                         *)
(* Time is discrete; a tick waits for whatever a thread has to do at this  *)
(* very instant.  What a turn says is left to PeerGame.                    *)
(***************************************************************************)
EXTENDS Integers, Sequences

CONSTANTS
    BrainDeadline,  \* network.brain_deadline_seconds
    TurnTimeout,    \* network.turn_timeout_seconds
    SendBudget,     \* network.connect_timeout_seconds, the deadline of receive_turn
    RetryInterval,  \* network.retry_interval_seconds
    Stall,          \* the watchdog's threshold_sec
    Poll,           \* its poll interval, a tenth of the threshold
    Watched,        \* the peer whose watchdog is modelled
    Turns,          \* thief steps after which it claims its survival
    MaxOutage,      \* bound: ticks one outage of the link lasts
    MaxOutages,     \* bound: outages of one sub-game
    MaxHangs        \* bound: requests that get no answer at all

Roles == {"police", "thief"}
Opp(r) == IF r = "police" THEN "thief" ELSE "police"
LoopPhases == {"decide", "send", "wait", "over"}
LoopEndings == {"none", "finished", "timeout", "unreachable"}

ASSUME TurnClockAssumption ==
    /\ BrainDeadline \in Nat \ {0} /\ TurnTimeout \in Nat \ {0}
    /\ SendBudget \in Nat \ {0} /\ RetryInterval \in Nat \ {0}
    /\ Stall \in Nat \ {0} /\ Poll \in Nat \ {0}
    /\ Watched \in Roles /\ Turns \in Nat \ {0}
    /\ MaxOutage \in Nat \ {0} /\ MaxOutages \in Nat /\ MaxHangs \in Nat

VARIABLES
    phase,    \* where a peer's turn loop is
    left,     \* ticks left of the deadline it is under
    pause,    \* ticks until its next attempt to send
    ended,    \* how its turn loop ended
    sent,     \* steps it has taken
    applied,  \* steps of the opponent it has applied: last_step
    inbox,    \* PeerInboxes.turns: the steps of the messages that wait
    outage,   \* ticks the link stays down
    outages, hangs,  \* how many there have been
    age,      \* the age of the watched loop's heartbeat
    fired,    \* Watchdog._fired holds it
    due,      \* ticks until the next scan
    calling,  \* on_freeze is about to be called
    rung,     \* callbacks so far
    stalls,   \* heartbeats that grew older than Stall
    silences  \* heartbeats that grew older than Stall + Poll

loops == <<phase, left, pause, ended, sent, applied, inbox>>
link == <<outage, outages, hangs>>
watch == <<age, fired, due, calling, rung, stalls, silences>>
clockVars == <<loops, link, watch>>

ClockInit ==
    /\ phase = [r \in Roles |-> IF r = "thief" THEN "decide" ELSE "wait"]
    /\ left = [r \in Roles |-> IF r = "thief" THEN BrainDeadline ELSE TurnTimeout]
    /\ pause = [r \in Roles |-> 0]
    /\ ended = [r \in Roles |-> "none"]
    /\ sent = [r \in Roles |-> 0]
    /\ applied = [r \in Roles |-> 0]
    /\ inbox = [r \in Roles |-> <<>>]
    /\ outage = 0 /\ outages = 0 /\ hangs = 0
    /\ age = 0 /\ fired = FALSE /\ due = Poll /\ calling = FALSE
    /\ rung = 0 /\ stalls = 0 /\ silences = 0

-----------------------------------------------------------------------------
(* The watchdog.                                                           *)

\* Mutant: a live beat does not re-arm a fired alarm.
KickUnarmed(r) ==
    /\ age' = IF r = Watched THEN 0 ELSE age
    /\ UNCHANGED <<fired, due, calling, rung, stalls, silences>>

\* The heartbeat at the top of r's loop.
Kick(r) ==
    /\ age' = IF r = Watched THEN 0 ELSE age
    /\ fired' = IF r = Watched THEN FALSE ELSE fired
    /\ UNCHANGED <<due, calling, rung, stalls, silences>>

\* Under the lock: a heartbeat that is newly frozen is marked.
Scan ==
    /\ due = 0 /\ ~calling
    /\ LET frozen == ~fired /\ age > Stall
       IN  /\ fired' = (fired \/ frozen)
           /\ calling' = frozen
           /\ due' = IF frozen THEN 0 ELSE Poll
    /\ UNCHANGED <<loops, link, age, rung, stalls, silences>>

\* After the lock: a kick may have come in between.
OnFreeze ==
    /\ calling
    /\ calling' = FALSE /\ due' = Poll
    /\ rung' = rung + 1
    /\ UNCHANGED <<loops, link, age, fired, stalls, silences>>

-----------------------------------------------------------------------------
(* The turn loops.                                                         *)

\* r leaves its loop: no deadline is armed and nothing kicks any more.
Leaves(r, how) ==
    /\ phase' = [phase EXCEPT ![r] = "over"]
    /\ ended' = [ended EXCEPT ![r] = how]
    /\ left' = [left EXCEPT ![r] = 0]
    /\ pause' = [pause EXCEPT ![r] = 0]

Enters(r, p, budget) ==
    /\ phase' = [phase EXCEPT ![r] = p]
    /\ left' = [left EXCEPT ![r] = budget]
    /\ pause' = [pause EXCEPT ![r] = 0]
    /\ UNCHANGED ended

\* Mutant: the peer waits for a brain that overran.
DecideUnbounded(r) ==
    /\ phase[r] = "decide"
    /\ \/ left[r] > 0 /\ sent' = [sent EXCEPT ![r] = @ + 1] /\ Enters(r, "send", SendBudget)
       \/ left[r] = 0 /\ UNCHANGED sent /\ Enters(r, "decide", BrainDeadline)
    /\ UNCHANGED <<applied, inbox, link, watch>>

\* The brain's answer or, once its deadline is spent, the safe HOLD: the
\* message goes out either way.
Decide(r) ==
    /\ phase[r] = "decide"
    /\ sent' = [sent EXCEPT ![r] = @ + 1]
    /\ Enters(r, "send", SendBudget)
    /\ UNCHANGED <<applied, inbox, link, watch>>

\* The thief's step that claims its survival ends both loops.
Last(r, n) == r = "thief" /\ n = Turns

Arrives(r) == inbox' = [inbox EXCEPT ![Opp(r)] = Append(@, sent[r])]

\* An attempt is due.
Attempts(r) == phase[r] = "send" /\ pause[r] = 0 /\ left[r] > 0

\* The attempt is acknowledged: the loop comes round and waits.
Acknowledged(r) ==
    /\ Attempts(r) /\ outage = 0
    /\ Arrives(r)
    /\ IF Last(r, sent[r])
         THEN Leaves(r, "finished") /\ UNCHANGED watch
         ELSE Enters(r, "wait", TurnTimeout) /\ Kick(r)
    /\ UNCHANGED <<sent, applied, link>>

\* A failed attempt: another one after the interval, if the budget allows.
Fails(r) ==
    /\ IF left[r] <= RetryInterval
         THEN Leaves(r, "unreachable")
         ELSE pause' = [pause EXCEPT ![r] = RetryInterval] /\ UNCHANGED <<phase, left, ended>>
    /\ UNCHANGED <<sent, applied, watch>>

Refused(r) ==
    /\ Attempts(r) /\ outage > 0
    /\ Fails(r)
    /\ UNCHANGED <<inbox, link>>

Breaks(n) == /\ outage = 0 /\ outages < MaxOutages
             /\ outage' = n /\ outages' = outages + 1
             /\ UNCHANGED hangs

\* The link goes down between the delivery and the reply.
AckLost(r) ==
    /\ Attempts(r)
    /\ \E n \in 1 .. MaxOutage : Breaks(n)
    /\ Arrives(r)
    /\ Fails(r)

LinkBreaks ==
    /\ \E n \in 1 .. MaxOutage : Breaks(n)
    /\ UNCHANGED <<loops, watch>>

\* Nobody answers the request, which may have arrived: the attempt lasts as
\* long as the call may.
Hangs(r) ==
    /\ Attempts(r) /\ outage = 0 /\ hangs < MaxHangs
    /\ hangs' = hangs + 1
    /\ pause' = [pause EXCEPT ![r] = left[r]]
    /\ Arrives(r) \/ UNCHANGED inbox
    /\ UNCHANGED <<phase, left, ended, sent, applied, outage, outages, watch>>

HangEnds(r) ==
    /\ phase[r] = "send" /\ pause[r] = 0 /\ left[r] = 0
    /\ Leaves(r, "unreachable")
    /\ UNCHANGED <<sent, applied, inbox, link, watch>>

\* A message is read: a duplicate re-arms the wait, a fresh one ends it.
Reads(r) ==
    /\ phase[r] = "wait" /\ inbox[r] # <<>>
    /\ inbox' = [inbox EXCEPT ![r] = Tail(@)]
    /\ LET n == Head(inbox[r])
       IN  \/ /\ n <= applied[r]
              /\ Enters(r, "wait", TurnTimeout) /\ Kick(r)
              /\ UNCHANGED applied
           \/ /\ n > applied[r]
              /\ applied' = [applied EXCEPT ![r] = n]
              /\ IF Last(Opp(r), n)
                   THEN Leaves(r, "finished") /\ UNCHANGED watch
                   ELSE Enters(r, "decide", BrainDeadline) /\ Kick(r)
    /\ UNCHANGED <<sent, link>>

TimesOut(r) ==
    /\ phase[r] = "wait" /\ inbox[r] = <<>> /\ left[r] = 0
    /\ Leaves(r, "timeout")
    /\ UNCHANGED <<sent, applied, inbox, link, watch>>

-----------------------------------------------------------------------------
(* Time.                                                                   *)

\* Some thread has something to do before time may pass.
Urgent ==
    \/ due = 0
    \/ \E r \in Roles :
          \/ phase[r] = "decide" /\ left[r] = 0
          \/ phase[r] = "send" /\ pause[r] = 0
          \/ phase[r] = "wait" /\ (left[r] = 0 \/ inbox[r] # <<>>)

Down(n) == IF n = 0 THEN 0 ELSE n - 1

\* Nothing tells an age above this from an older one.
Oldest == Stall + Poll + 1

Tick ==
    /\ ~Urgent
    /\ left' = [r \in Roles |-> Down(left[r])]
    /\ pause' = [r \in Roles |-> Down(pause[r])]
    /\ outage' = Down(outage)
    /\ due' = due - 1
    /\ age' = IF age = Oldest THEN age ELSE age + 1
    /\ stalls' = IF age = Stall THEN stalls + 1 ELSE stalls
    /\ silences' = IF age = Stall + Poll THEN silences + 1 ELSE silences
    /\ UNCHANGED <<phase, ended, sent, applied, inbox, outages, hangs,
                   fired, calling, rung>>

Loop(r) == \/ Decide(r) \/ Acknowledged(r) \/ Refused(r) \/ AckLost(r)
           \/ Hangs(r) \/ HangEnds(r) \/ Reads(r) \/ TimesOut(r)

ClockNext == \/ \E r \in Roles : Loop(r)
        \/ LinkBreaks \/ Scan \/ OnFreeze \/ Tick

ClockSpec == ClockInit /\ [][ClockNext]_clockVars

-----------------------------------------------------------------------------
(* Properties.                                                             *)

Calls == IF calling THEN rung + 1 ELSE rung

\* One alarm per freeze episode, whatever the kicks of the turn loop do
\* between a scan and its callback: every heartbeat that stays silent for a
\* poll longer than the threshold rings, and no heartbeat rings twice or
\* before the threshold (watchdog.py, "exactly ONCE per freeze episode").
AlarmsMatchStalls == silences <= Calls /\ Calls <= stalls

\* What the outages of one sub-game can cost a message: each its length and
\* the attempt that comes too late (in whole ticks, one tick less).
Downtime == MaxOutages * (MaxOutage + RetryInterval - 1)

\* Two live peers never lose each other to a deadline: slow brains, refused
\* attempts, lost replies and the duplicates they cause end no sub-game, as
\* long as the opponent-turn deadline outlasts a brain deadline and the
\* downtime, the call deadline the downtime, and no request hangs.
NobodyImpatient ==
    /\ TurnTimeout > BrainDeadline + Downtime
    /\ SendBudget > Downtime
    /\ hangs = 0
    => \A r \in Roles : ended[r] \in {"none", "finished"}

=============================================================================
