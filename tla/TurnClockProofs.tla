--------------------------- MODULE TurnClockProofs ---------------------------
(***************************************************************************)
(* The alarm of TurnClock rings once per freeze, for every threshold and   *)
(* poll interval, every deadline and any behaviour of the two turn loops   *)
(* and their link: they only kick, or leave the watchdog alone.  And the   *)
(* deadlines suffice: two live peers whose values stand in the order the   *)
(* configuration gives them never time each other out.                     *)
(***************************************************************************)
EXTENDS TurnClock, TLAPS

\* What the watchdog counts.
WatchCounts ==
    /\ age \in 0 .. Oldest /\ due \in 0 .. Poll
    /\ rung \in Nat /\ stalls \in Nat /\ silences \in Nat

\* A heartbeat that is not marked was scanned when it was no older than the
\* threshold.
Scanned == ~fired => age + due <= Stall + Poll

\* Between a scan and its callback no time passes: the mark is still there, or
\* a kick has just come in between.
MidCallback == calling => due = 0 /\ (fired \/ age = 0)

\* A freeze that has not been marked has not been called about.
Unmarked == IF age > Stall /\ ~fired THEN 1 ELSE 0

\* One that is marked and may yet grow silent has.
Marked == IF fired /\ age <= Stall + Poll THEN 1 ELSE 0

AlarmInv ==
    /\ WatchCounts
    /\ fired => age > Stall
    /\ Scanned
    /\ MidCallback
    /\ Calls + Unmarked <= stalls
    /\ silences + Marked <= Calls

\* The invariant implies the property.
LEMMA AlarmInvEnough == AlarmInv => AlarmsMatchStalls
  BY DEF AlarmInv, AlarmsMatchStalls, WatchCounts, Calls, Unmarked, Marked

\* It holds when the sub-game starts.
LEMMA AlarmInit == ASSUME ClockInit PROVE AlarmInv
  <1>1. /\ age = 0 /\ fired = FALSE /\ due = Poll /\ calling = FALSE
        /\ rung = 0 /\ stalls = 0 /\ silences = 0
    BY DEF ClockInit
  <1>2. Stall \in Nat /\ Poll \in Nat
    BY TurnClockAssumption
  <1>3. WatchCounts
    BY <1>1, <1>2 DEF WatchCounts, Oldest
  <1>4. Unmarked = 0 /\ Marked = 0 /\ Calls = 0
    BY <1>1, <1>2 DEF Unmarked, Marked, Calls
  <1>. QED
    BY <1>1, <1>2, <1>3, <1>4 DEF AlarmInv, Scanned, MidCallback

\* A step that leaves the watchdog alone.
LEMMA AlarmSame == ASSUME AlarmInv, UNCHANGED watch PROVE AlarmInv'
  BY DEF AlarmInv, WatchCounts, Scanned, MidCallback, Calls, Unmarked, Marked, Oldest, watch

\* A heartbeat, at any moment, in particular between a scan and its callback.
LEMMA AlarmKick == ASSUME NEW r \in Roles, AlarmInv, Kick(r) PROVE AlarmInv'
  <1>1. CASE r # Watched
    BY <1>1, AlarmSame DEF Kick, watch
  <1>2. CASE r = Watched
    <2>1. /\ age' = 0 /\ fired' = FALSE
          /\ UNCHANGED <<due, calling, rung, stalls, silences>>
      BY <1>2 DEF Kick
    <2>2. Stall \in Nat /\ Poll \in Nat
      BY TurnClockAssumption
    <2>3. WatchCounts'
      BY <2>1, <2>2 DEF AlarmInv, WatchCounts, Oldest
    <2>4. Unmarked' = 0 /\ Marked' = 0 /\ Calls' = Calls
      BY <2>1, <2>2 DEF Unmarked, Marked, Calls
    <2>5. Calls <= stalls /\ silences <= Calls
      BY AlarmInvEnough DEF AlarmInv, AlarmsMatchStalls
    <2>6. Calls \in Nat /\ stalls' \in Nat /\ silences' \in Nat
      BY <2>1 DEF AlarmInv, WatchCounts, Calls
    <2>. QED
      BY <2>1, <2>2, <2>3, <2>4, <2>5, <2>6
         DEF AlarmInv, Scanned, MidCallback, WatchCounts
  <1>. QED  BY <1>1, <1>2

\* The scan marks what is newly frozen.
LEMMA AlarmScan == ASSUME AlarmInv, Scan PROVE AlarmInv'
  <1>1. due = 0 /\ ~calling /\ UNCHANGED <<age, rung, stalls, silences>>
    BY DEF Scan
  <1>2. Stall \in Nat /\ Poll \in Nat
    BY TurnClockAssumption
  <1>3. CASE ~fired /\ age > Stall
    <2>1. fired' /\ calling' /\ due' = 0
      BY <1>3 DEF Scan
    <2>2. Unmarked = 1 /\ Unmarked' = 0 /\ Marked = 0 /\ Marked' <= 1
      BY <1>1, <1>2, <1>3, <2>1 DEF Unmarked, Marked
    <2>3. Calls' = Calls + 1
      BY <1>1, <2>1 DEF Calls
    <2>. QED
      BY <1>1, <1>2, <1>3, <2>1, <2>2, <2>3
         DEF AlarmInv, WatchCounts, Scanned, MidCallback, Calls, Marked
  <1>4. CASE ~(~fired /\ age > Stall)
    <2>1. (fired' <=> fired) /\ ~calling' /\ due' = Poll
      BY <1>4 DEF Scan
    <2>2. Unmarked' = Unmarked /\ Marked' = Marked /\ Calls' = Calls
      BY <1>1, <2>1 DEF Unmarked, Marked, Calls
    <2>. QED
      BY <1>1, <1>2, <1>4, <2>1, <2>2
         DEF AlarmInv, WatchCounts, Scanned, MidCallback
  <1>. QED  BY <1>3, <1>4

\* The callback was counted when it was decided.
LEMMA AlarmRings == ASSUME AlarmInv, OnFreeze PROVE AlarmInv'
  <1>1. /\ calling /\ calling' = FALSE /\ due' = Poll /\ rung' = rung + 1
        /\ UNCHANGED <<age, fired, stalls, silences>>
    BY DEF OnFreeze, AlarmInv, WatchCounts
  <1>2. Stall \in Nat /\ Poll \in Nat
    BY TurnClockAssumption
  <1>3. WatchCounts'
    BY <1>1, <1>2 DEF AlarmInv, WatchCounts
  <1>4. Unmarked' = Unmarked /\ Marked' = Marked /\ Calls' = Calls
    BY <1>1 DEF Unmarked, Marked, Calls
  <1>5. Scanned'
    BY <1>1, <1>2 DEF AlarmInv, Scanned, MidCallback
  <1>. QED
    BY <1>1, <1>3, <1>4, <1>5 DEF AlarmInv, MidCallback

\* Time passes only while no scan is due: an unmarked heartbeat cannot grow
\* silent.
LEMMA AlarmTick == ASSUME AlarmInv, Tick PROVE AlarmInv'
  <1>1. due > 0 /\ ~calling /\ due' = due - 1
    BY DEF Tick, Urgent, AlarmInv, MidCallback, WatchCounts
  <1>2. age = Stall + Poll => fired
    BY <1>1, TurnClockAssumption DEF AlarmInv, Scanned, WatchCounts
  <1>. QED
    BY <1>1, <1>2, TurnClockAssumption
       DEF Tick, AlarmInv, WatchCounts, Scanned, MidCallback, Calls, Unmarked, Marked, Oldest

\* All a turn loop can do to the watchdog.
LEMMA LoopKicks == ASSUME NEW r \in Roles, Loop(r) PROVE Kick(r) \/ UNCHANGED watch
  <1>1. Decide(r) \/ Refused(r) \/ AckLost(r) \/ Hangs(r) \/ HangEnds(r) \/ TimesOut(r)
          => UNCHANGED watch
    BY DEF Decide, Refused, AckLost, Hangs, HangEnds, TimesOut, Fails
  <1>2. Acknowledged(r) => Kick(r) \/ UNCHANGED watch
    BY DEF Acknowledged
  <1>3. Reads(r) => Kick(r) \/ UNCHANGED watch
    BY DEF Reads
  <1>. QED  BY <1>1, <1>2, <1>3 DEF Loop

\* Every step keeps the invariant.
LEMMA AlarmStep == ASSUME AlarmInv, [ClockNext]_clockVars PROVE AlarmInv'
  <1>1. CASE \E r \in Roles : Loop(r)
    BY <1>1, LoopKicks, AlarmKick, AlarmSame
  <1>2. CASE LinkBreaks
    BY <1>2, AlarmSame DEF LinkBreaks
  <1>3. CASE Scan
    BY <1>3, AlarmScan
  <1>4. CASE OnFreeze
    BY <1>4, AlarmRings
  <1>5. CASE Tick
    BY <1>5, AlarmTick
  <1>6. CASE UNCHANGED clockVars
    BY <1>6, AlarmSame DEF clockVars
  <1>. QED  BY <1>1, <1>2, <1>3, <1>4, <1>5, <1>6 DEF ClockNext

\* The watchdog rings exactly once per freeze: for every heartbeat that stays
\* silent a poll longer than the threshold, and never twice or early
\* (watchdog.py, check_now and kick).
THEOREM OneAlarmPerFreeze == ClockSpec => []AlarmsMatchStalls
  <1>1. ClockInit => AlarmInv
    BY AlarmInit
  <1>2. AlarmInv /\ [ClockNext]_clockVars => AlarmInv'
    BY AlarmStep
  <1>. QED  BY <1>1, <1>2, AlarmInvEnough, PTL DEF ClockSpec

-----------------------------------------------------------------------------
(* Nobody is impatient, whatever the deadlines are, as long as they leave  *)
(* room for one another.  The argument follows one delay: what a message   *)
(* can lose to the outages so far is bounded by their number; a waiting    *)
(* peer has waited no longer than its opponent has decided and retried;    *)
(* and a peer that waits for nothing is waited for by nobody.              *)

\* The hypotheses of NobodyImpatient on the deadlines.
Lenient == TurnTimeout > BrainDeadline + Downtime /\ SendBudget > Downtime

\* What one outage can cost a message, and what those so far can have cost.
Setback == MaxOutage + RetryInterval - 1
Lost == outages * Setback

LoopTypes ==
    /\ phase \in [Roles -> LoopPhases] /\ ended \in [Roles -> LoopEndings]
    /\ left \in [Roles -> Nat] /\ pause \in [Roles -> Nat]
    /\ sent \in [Roles -> Nat] /\ applied \in [Roles -> Nat]
    /\ inbox \in [Roles -> Seq(Nat)]

LinkTypes == outage \in 0 .. MaxOutage /\ outages \in 0 .. MaxOutages /\ hangs \in Nat

\* The thief is one step ahead of what it has applied, from the time it sends.
Ahead(r) == IF r = "thief" THEN 1 ELSE 0
Behind(r) == IF phase[r] = "decide" \/ (phase[r] = "over" /\ r = "police") THEN 1 ELSE 0

Counted(r) ==
    /\ sent[r] + Behind(r) = applied[r] + Ahead(r)
    /\ applied[r] <= sent[Opp(r)]
    /\ \A i \in DOMAIN inbox[r] : inbox[r][i] <= sent[Opp(r)]

\* The thief's last step is the last of both.
Bounded ==
    /\ sent["thief"] <= Turns
    /\ phase["thief"] \in {"decide", "wait"} => sent["thief"] < Turns
    /\ phase["thief"] = "over" => sent["thief"] = Turns
    /\ phase["police"] = "over" <=> applied["police"] = Turns

\* What was acknowledged has arrived.
Delivered(r) ==
    phase[r] \in {"wait", "over"} =>
        \/ sent[r] <= applied[Opp(r)]
        \/ \E i \in DOMAIN inbox[Opp(r)] : inbox[Opp(r)][i] = sent[r]

\* An outage that lasts costs what is left of it, and an attempt too late.
Outlasts == outage > 0 => outage + RetryInterval - 1 <= Lost

InTime(r) ==
    /\ phase[r] = "decide" => left[r] <= BrainDeadline
    /\ phase[r] = "send" =>
          /\ left[r] <= SendBudget /\ pause[r] <= RetryInterval
          /\ (SendBudget - left[r])
                + (IF outage > 0 THEN outage + RetryInterval - 1 ELSE pause[r]) <= Lost

\* How long r has waited, and that this is its opponent's time.
Waited(r) == TurnTimeout - left[r]

Waits(r) ==
    phase[r] = "wait" /\ inbox[r] = <<>> =>
        /\ phase[Opp(r)] = "decide" => Waited(r) <= BrainDeadline - left[Opp(r)]
        /\ phase[Opp(r)] = "send" => Waited(r) <= BrainDeadline + (SendBudget - left[Opp(r)])
        /\ phase[Opp(r)] = "wait" => Waited(r) = 0

Unhurried == \A r \in Roles : ended[r] \in {"none", "finished"}

Punctual ==
    /\ Bounded /\ Outlasts /\ Unhurried
    /\ \A r \in Roles : Counted(r) /\ Delivered(r) /\ InTime(r) /\ Waits(r)

PunctualInv ==
    /\ LoopTypes /\ LinkTypes
    /\ Lenient /\ hangs = 0 => Punctual

\* The peers are two.
LEMMA TwoRoles ==
    ASSUME NEW r \in Roles
    PROVE  /\ Opp(r) \in Roles /\ Opp(r) # r /\ Opp(Opp(r)) = r
           /\ \A q \in Roles : q = r \/ q = Opp(r)
  BY DEF Roles, Opp

\* A sum of outages: products grow with their factors.
LEMMA ProductGrows ==
    ASSUME NEW a \in Nat, NEW b \in Nat, NEW c \in Nat, a <= b
    PROVE  a * c \in Nat /\ a * c <= b * c /\ (a + 1) * c = a * c + c
  OBVIOUS

\* The outages so far cost no more than all there may be.
LEMMA LostBounded ==
    ASSUME LinkTypes
    PROVE  Setback \in Nat /\ Lost \in Nat /\ Downtime \in Nat /\ Lost <= Downtime
  <1>1. Setback \in Nat /\ outages \in Nat /\ MaxOutages \in Nat /\ outages <= MaxOutages
    BY TurnClockAssumption DEF LinkTypes, Setback
  <1>2. outages * Setback \in Nat /\ outages * Setback <= MaxOutages * Setback
    BY <1>1, ProductGrows
  <1>3. MaxOutages * Setback \in Nat
    BY <1>1, ProductGrows
  <1>4. Downtime = MaxOutages * Setback
    BY DEF Downtime, Setback
  <1>. QED  BY <1>1, <1>2, <1>3, <1>4 DEF Lost

\* One more of them costs one setback more, and is still among those.
LEMMA LostGrows ==
    ASSUME LinkTypes, outages < MaxOutages, outages' = outages + 1
    PROVE  Lost' = Lost + Setback /\ Lost + Setback <= Downtime
  <1>1. Setback \in Nat /\ outages \in Nat /\ MaxOutages \in Nat
    BY TurnClockAssumption DEF LinkTypes, Setback
  <1>2. (outages + 1) * Setback = outages * Setback + Setback
    BY <1>1, ProductGrows
  <1>3. (outages + 1) * Setback <= MaxOutages * Setback
    <2>1. outages + 1 \in Nat /\ outages + 1 <= MaxOutages
      BY <1>1
    <2>. QED  BY <1>1, <2>1, ProductGrows
  <1>4. Setback' = Setback /\ Downtime = MaxOutages * Setback
    BY DEF Setback, Downtime
  <1>. QED  BY <1>2, <1>3, <1>4 DEF Lost

\* What a message appended to an inbox, and the first one taken from it, leave.
LEMMA Appended ==
    ASSUME NEW s \in Seq(Nat), NEW n \in Nat, NEW t, t = Append(s, n)
    PROVE  /\ t \in Seq(Nat) /\ t # <<>>
           /\ \A i \in DOMAIN t : t[i] = n \/ (i \in DOMAIN s /\ t[i] = s[i])
           /\ \A i \in DOMAIN s : i \in DOMAIN t /\ t[i] = s[i]
           /\ \E i \in DOMAIN t : t[i] = n
  <1>1. /\ Len(t) = Len(s) + 1 /\ t[Len(s) + 1] = n /\ t \in Seq(Nat)
        /\ \A i \in 1 .. Len(s) : t[i] = s[i]
    OBVIOUS
  <1>2. DOMAIN s = 1 .. Len(s) /\ DOMAIN t = 1 .. Len(s) + 1 /\ Len(s) \in Nat
    BY <1>1
  <1>3. Len(s) + 1 \in DOMAIN t
    BY <1>2
  <1>. QED  BY <1>1, <1>2, <1>3

LEMMA TailTaken ==
    ASSUME NEW s \in Seq(Nat), s # <<>>
    PROVE  /\ Tail(s) \in Seq(Nat) /\ Head(s) \in Nat /\ 1 \in DOMAIN s /\ Head(s) = s[1]
           /\ DOMAIN s = 1 .. Len(s) /\ DOMAIN Tail(s) = 1 .. Len(s) - 1 /\ Len(s) \in Nat
           /\ \A i \in 1 .. Len(s) - 1 : Tail(s)[i] = s[i + 1]
  OBVIOUS

LEMMA TakenFrom ==
    ASSUME NEW s \in Seq(Nat), s # <<>>, NEW i \in DOMAIN Tail(s)
    PROVE  \E j \in DOMAIN s : Tail(s)[i] = s[j]
  <1>1. i \in 1 .. Len(s) - 1 /\ i + 1 \in DOMAIN s /\ Tail(s)[i] = s[i + 1]
    BY TailTaken
  <1>. QED  BY <1>1

LEMMA TakenLeaves ==
    ASSUME NEW s \in Seq(Nat), s # <<>>, NEW j \in DOMAIN s, j # 1
    PROVE  \E i \in DOMAIN Tail(s) : Tail(s)[i] = s[j]
  <1>1. j \in 1 .. Len(s) /\ Len(s) \in Nat
    BY TailTaken
  <1>2. j - 1 \in 1 .. Len(s) - 1 /\ j - 1 + 1 = j
    BY <1>1
  <1>3. j - 1 \in DOMAIN Tail(s) /\ Tail(s)[j - 1] = s[j - 1 + 1]
    BY <1>2, TailTaken
  <1>. QED  BY <1>2, <1>3

\* It holds when the sub-game starts.
LEMMA PunctualInit == ASSUME ClockInit PROVE PunctualInv
  <1>1. LoopTypes
    BY TurnClockAssumption DEF ClockInit, LoopTypes, Roles, LoopPhases, LoopEndings
  <1>2. LinkTypes
    BY TurnClockAssumption DEF ClockInit, LinkTypes
  <1>3. Bounded
    BY TurnClockAssumption DEF ClockInit, Bounded, Roles
  <1>4. outage = 0 /\ Lost \in Nat
    BY <1>2, LostBounded DEF ClockInit
  <1>5. Outlasts
    BY <1>4 DEF Outlasts
  <1>6. ASSUME NEW r \in Roles PROVE Counted(r) /\ Delivered(r) /\ InTime(r) /\ Waits(r)
    <2>1. /\ phase[r] = IF r = "thief" THEN "decide" ELSE "wait"
          /\ left[r] = IF r = "thief" THEN BrainDeadline ELSE TurnTimeout
          /\ sent[r] = 0 /\ applied[r] = 0 /\ inbox[r] = <<>>
      BY DEF ClockInit
    <2>2. sent[Opp(r)] = 0 /\ applied[Opp(r)] = 0 /\ inbox[Opp(r)] = <<>>
      BY TwoRoles DEF ClockInit
    <2>3. r = "police" => phase[Opp(r)] = "decide" /\ left[Opp(r)] = BrainDeadline
      BY DEF ClockInit, Roles, Opp
    <2>4. r = "thief" \/ r = "police"
      BY DEF Roles
    <2>5. Counted(r)
      BY <2>1, <2>2, <2>4 DEF Counted, Ahead, Behind
    <2>6. Delivered(r)
      BY <2>1, <2>2 DEF Delivered
    <2>7. InTime(r)
      BY <2>1, TurnClockAssumption DEF InTime
    <2>8. Waits(r)
      BY <2>1, <2>3, <2>4, TurnClockAssumption DEF Waits, Waited
    <2>. QED  BY <2>5, <2>6, <2>7, <2>8
  <1>7. Unhurried
    BY DEF ClockInit, Unhurried
  <1>. QED  BY <1>1, <1>2, <1>3, <1>5, <1>6, <1>7 DEF PunctualInv, Punctual

\* The types, action by action.
LEMMA EntersTypes ==
    ASSUME LoopTypes, NEW r \in Roles, NEW p \in LoopPhases, NEW b \in Nat, Enters(r, p, b)
    PROVE  /\ phase' \in [Roles -> LoopPhases] /\ ended' \in [Roles -> LoopEndings]
           /\ left' \in [Roles -> Nat] /\ pause' \in [Roles -> Nat]
           /\ phase'[r] = p /\ left'[r] = b /\ pause'[r] = 0 /\ UNCHANGED ended
           /\ \A q \in Roles : q # r =>
                 phase'[q] = phase[q] /\ left'[q] = left[q] /\ pause'[q] = pause[q]
  BY DEF Enters, LoopTypes

LEMMA LeavesTypes ==
    ASSUME LoopTypes, NEW r \in Roles, NEW how \in LoopEndings, Leaves(r, how)
    PROVE  /\ phase' \in [Roles -> LoopPhases] /\ ended' \in [Roles -> LoopEndings]
           /\ left' \in [Roles -> Nat] /\ pause' \in [Roles -> Nat]
           /\ phase'[r] = "over" /\ ended'[r] = how
           /\ \A q \in Roles : q # r =>
                 /\ phase'[q] = phase[q] /\ left'[q] = left[q] /\ pause'[q] = pause[q]
                 /\ ended'[q] = ended[q]
  BY DEF Leaves, LoopTypes, LoopPhases

LEMMA FailsTypes ==
    ASSUME LoopTypes, NEW r \in Roles, Fails(r)
    PROVE  /\ phase' \in [Roles -> LoopPhases] /\ ended' \in [Roles -> LoopEndings]
           /\ left' \in [Roles -> Nat] /\ pause' \in [Roles -> Nat]
  <1>1. CASE Leaves(r, "unreachable")
    BY <1>1, LeavesTypes DEF LoopEndings
  <1>2. CASE pause' = [pause EXCEPT ![r] = RetryInterval] /\ UNCHANGED <<phase, left, ended>>
    BY <1>2, TurnClockAssumption DEF LoopTypes
  <1>. QED  BY <1>1, <1>2 DEF Fails

LEMMA ArrivesTypes ==
    ASSUME LoopTypes, NEW r \in Roles, Arrives(r)
    PROVE  /\ inbox' \in [Roles -> Seq(Nat)]
           /\ inbox'[Opp(r)] = Append(inbox[Opp(r)], sent[r])
           /\ inbox'[r] = inbox[r]
  BY TwoRoles DEF Arrives, LoopTypes

LEMMA ClockTypes == ASSUME LoopTypes, LinkTypes, [ClockNext]_clockVars PROVE LoopTypes' /\ LinkTypes'
  <1>. USE TurnClockAssumption
  <1>1. ASSUME NEW r \in Roles, Decide(r) PROVE LoopTypes' /\ LinkTypes'
    <2>1. Enters(r, "send", SendBudget) /\ sent' = [sent EXCEPT ![r] = @ + 1]
          /\ UNCHANGED <<applied, inbox, link>>
      BY <1>1 DEF Decide
    <2>2. sent' \in [Roles -> Nat]
      BY <2>1 DEF LoopTypes
    <2>. QED  BY <2>1, <2>2, EntersTypes DEF LoopTypes, LinkTypes, LoopPhases, link
  <1>2. ASSUME NEW r \in Roles, Acknowledged(r) PROVE LoopTypes' /\ LinkTypes'
    <2>1. /\ Arrives(r) /\ UNCHANGED <<sent, applied, link>>
          /\ Leaves(r, "finished") \/ Enters(r, "wait", TurnTimeout)
      BY <1>2 DEF Acknowledged
    <2>2. inbox' \in [Roles -> Seq(Nat)]
      BY <2>1, ArrivesTypes
    <2>3. LinkTypes' /\ sent' \in [Roles -> Nat] /\ applied' \in [Roles -> Nat]
      BY <2>1 DEF LoopTypes, LinkTypes, link
    <2>4. CASE Leaves(r, "finished")
      BY <2>2, <2>3, <2>4, LeavesTypes DEF LoopTypes, LoopEndings
    <2>5. CASE Enters(r, "wait", TurnTimeout)
      BY <2>2, <2>3, <2>5, EntersTypes DEF LoopTypes, LoopPhases
    <2>. QED  BY <2>1, <2>4, <2>5
  <1>3. ASSUME NEW r \in Roles, Refused(r) PROVE LoopTypes' /\ LinkTypes'
    <2>1. Fails(r) /\ UNCHANGED <<inbox, link>> /\ UNCHANGED <<sent, applied>>
      BY <1>3 DEF Refused, Fails
    <2>. QED  BY <2>1, FailsTypes DEF LoopTypes, LinkTypes, link
  <1>4. ASSUME NEW r \in Roles, AckLost(r) PROVE LoopTypes' /\ LinkTypes'
    <2>1. Fails(r) /\ Arrives(r) /\ UNCHANGED <<sent, applied>>
      BY <1>4 DEF AckLost, Fails
    <2>2. LinkTypes'
      BY <1>4 DEF AckLost, Breaks, LinkTypes
    <2>. QED  BY <2>1, <2>2, FailsTypes, ArrivesTypes DEF LoopTypes
  <1>5. ASSUME NEW r \in Roles, Hangs(r) PROVE LoopTypes' /\ LinkTypes'
    <2>1. /\ pause' = [pause EXCEPT ![r] = left[r]] /\ hangs' = hangs + 1
          /\ Arrives(r) \/ UNCHANGED inbox
          /\ UNCHANGED <<phase, left, ended, sent, applied, outage, outages>>
      BY <1>5 DEF Hangs
    <2>2. pause' \in [Roles -> Nat]
      BY <2>1 DEF LoopTypes
    <2>3. inbox' \in [Roles -> Seq(Nat)]
      BY <2>1, ArrivesTypes DEF LoopTypes
    <2>4. LinkTypes'
      BY <2>1 DEF LinkTypes
    <2>. QED  BY <2>1, <2>2, <2>3, <2>4 DEF LoopTypes
  <1>6. ASSUME NEW r \in Roles, HangEnds(r) \/ TimesOut(r) PROVE LoopTypes' /\ LinkTypes'
    <2>1. /\ Leaves(r, "unreachable") \/ Leaves(r, "timeout")
          /\ UNCHANGED <<sent, applied, inbox, link>>
      BY <1>6 DEF HangEnds, TimesOut
    <2>. QED  BY <2>1, LeavesTypes DEF LoopTypes, LinkTypes, LoopEndings, link
  <1>7. ASSUME NEW r \in Roles, Reads(r) PROVE LoopTypes' /\ LinkTypes'
    <2>1. /\ inbox[r] # <<>> /\ inbox' = [inbox EXCEPT ![r] = Tail(@)]
          /\ \/ UNCHANGED applied
             \/ applied' = [applied EXCEPT ![r] = Head(inbox[r])]
          /\ \/ Leaves(r, "finished")
             \/ Enters(r, "wait", TurnTimeout) \/ Enters(r, "decide", BrainDeadline)
          /\ UNCHANGED <<sent, link>>
      BY <1>7 DEF Reads
    <2>2. inbox[r] \in Seq(Nat)
      BY DEF LoopTypes
    <2>3. Tail(inbox[r]) \in Seq(Nat) /\ Head(inbox[r]) \in Nat
      BY <2>1, <2>2, TailTaken
    <2>4. inbox' \in [Roles -> Seq(Nat)] /\ applied' \in [Roles -> Nat]
      BY <2>1, <2>3 DEF LoopTypes
    <2>5. LinkTypes' /\ sent' \in [Roles -> Nat]
      BY <2>1 DEF LoopTypes, LinkTypes, link
    <2>6. CASE Leaves(r, "finished")
      BY <2>4, <2>5, <2>6, LeavesTypes DEF LoopTypes, LoopEndings
    <2>7. CASE Enters(r, "wait", TurnTimeout)
      BY <2>4, <2>5, <2>7, EntersTypes DEF LoopTypes, LoopPhases
    <2>8. CASE Enters(r, "decide", BrainDeadline)
      BY <2>4, <2>5, <2>8, EntersTypes DEF LoopTypes, LoopPhases
    <2>. QED  BY <2>1, <2>6, <2>7, <2>8
  <1>8. ASSUME LinkBreaks PROVE LoopTypes' /\ LinkTypes'
    BY <1>8 DEF LinkBreaks, Breaks, loops, LoopTypes, LinkTypes
  <1>9. ASSUME Scan \/ OnFreeze \/ UNCHANGED clockVars PROVE LoopTypes' /\ LinkTypes'
    BY <1>9 DEF Scan, OnFreeze, clockVars, loops, link, LoopTypes, LinkTypes
  <1>10. ASSUME Tick PROVE LoopTypes' /\ LinkTypes'
    <2>1. /\ left' = [r \in Roles |-> Down(left[r])] /\ pause' = [r \in Roles |-> Down(pause[r])]
          /\ outage' = Down(outage)
          /\ UNCHANGED <<phase, ended, sent, applied, inbox, outages, hangs>>
      BY <1>10 DEF Tick
    <2>2. \A n \in Nat : Down(n) \in Nat /\ Down(n) <= n
      BY DEF Down
    <2>3. left' \in [Roles -> Nat] /\ pause' \in [Roles -> Nat]
      BY <2>1, <2>2 DEF LoopTypes
    <2>4. outage' \in 0 .. MaxOutage
      <3>1. outage \in Nat /\ outage <= MaxOutage
        BY DEF LinkTypes
      <3>2. Down(outage) \in Nat /\ Down(outage) <= outage
        BY <3>1, <2>2
      <3>. QED  BY <2>1, <3>1, <3>2
    <2>. QED  BY <2>1, <2>3, <2>4 DEF LoopTypes, LinkTypes
  <1>11. ASSUME NEW r \in Roles, Loop(r) PROVE LoopTypes' /\ LinkTypes'
    BY <1>1, <1>2, <1>3, <1>4, <1>5, <1>6, <1>7, <1>11 DEF Loop
  <1>. QED  BY <1>8, <1>9, <1>10, <1>11 DEF ClockNext

\* What the steps below start from.
OnTime == LoopTypes /\ LinkTypes /\ Lenient /\ hangs = 0 /\ Punctual

\* The variables at one peer.
LEMMA AtPeer ==
    ASSUME LoopTypes, NEW r \in Roles
    PROVE  /\ phase[r] \in LoopPhases /\ ended[r] \in LoopEndings
           /\ left[r] \in Nat /\ pause[r] \in Nat /\ sent[r] \in Nat /\ applied[r] \in Nat
           /\ inbox[r] \in Seq(Nat)
  BY DEF LoopTypes

\* The invariant, taken apart at one peer and put together from the two.
LEMMA Apart ==
    ASSUME OnTime, NEW r \in Roles
    PROVE  /\ Counted(r) /\ Delivered(r) /\ InTime(r) /\ Waits(r)
           /\ Bounded /\ Outlasts /\ Unhurried
           /\ LoopTypes /\ LinkTypes /\ Lenient
  BY DEF OnTime, Punctual

LEMMA Together ==
    ASSUME NEW r \in Roles, Bounded', Outlasts', Unhurried',
           Counted(r)', Delivered(r)', InTime(r)', Waits(r)',
           Counted(Opp(r))', Delivered(Opp(r))', InTime(Opp(r))', Waits(Opp(r))'
    PROVE  Punctual'
  <1>1. ASSUME NEW q \in Roles
        PROVE  Counted(q)' /\ Delivered(q)' /\ InTime(q)' /\ Waits(q)'
    <2>1. q = r \/ q = Opp(r)
      BY TwoRoles
    <2>. QED  BY <2>1
  <1>. QED  BY <1>1 DEF Punctual

\* A step that leaves the link alone.
LEMMA SameLink ==
    ASSUME Outlasts, UNCHANGED link
    PROVE  Outlasts' /\ Lost' = Lost /\ outage' = outage
  BY DEF Outlasts, Lost, Setback, link

\* What left in time: a peer that sends has budget left, and an attempt more.
LEMMA BudgetLeft ==
    ASSUME OnTime, NEW r \in Roles, phase[r] = "send"
    PROVE  left[r] > 0 /\ (outage > 0 => left[r] > RetryInterval)
  <1>1. /\ left[r] \in Nat /\ pause[r] \in Nat
    BY Apart, AtPeer
  <1>2. Lost \in Nat /\ Downtime \in Nat /\ Lost <= Downtime /\ SendBudget > Downtime
    BY Apart, LostBounded DEF Lenient
  <1>3. outage \in Nat /\ RetryInterval \in Nat \ {0} /\ SendBudget \in Nat
    BY Apart, TurnClockAssumption DEF LinkTypes
  <1>4. (SendBudget - left[r])
           + (IF outage > 0 THEN outage + RetryInterval - 1 ELSE pause[r]) <= Lost
    BY Apart DEF InTime
  <1>5. CASE outage > 0
    BY <1>1, <1>2, <1>3, <1>4, <1>5
  <1>6. CASE ~(outage > 0)
    BY <1>1, <1>2, <1>3, <1>4, <1>6
  <1>. QED  BY <1>5, <1>6

\* A decision is sent at once.
LEMMA PunctualDecide == ASSUME OnTime, NEW r \in Roles, Decide(r) PROVE Punctual'
  <1>. DEFINE o == Opp(r)
  <1>0. o \in Roles /\ o # r /\ Opp(o) = r
    BY TwoRoles
  <1>1. /\ phase[r] = "decide" /\ sent' = [sent EXCEPT ![r] = @ + 1]
        /\ Enters(r, "send", SendBudget) /\ UNCHANGED <<applied, inbox>> /\ UNCHANGED link
    BY DEF Decide
  <1>2. /\ phase'[r] = "send" /\ left'[r] = SendBudget /\ pause'[r] = 0 /\ UNCHANGED ended
        /\ phase'[o] = phase[o] /\ left'[o] = left[o] /\ pause'[o] = pause[o]
    <2>1. "send" \in LoopPhases /\ SendBudget \in Nat
      BY TurnClockAssumption DEF LoopPhases
    <2>. QED  BY <1>0, <1>1, <2>1, Apart, EntersTypes
  <1>3. sent'[r] = sent[r] + 1 /\ sent'[o] = sent[o] /\ applied'[r] = applied[r]
        /\ applied'[o] = applied[o] /\ inbox'[r] = inbox[r] /\ inbox'[o] = inbox[o]
    BY <1>0, <1>1, Apart DEF LoopTypes
  <1>4. /\ sent[r] \in Nat /\ sent[o] \in Nat /\ applied[r] \in Nat /\ applied[o] \in Nat
        /\ left[r] \in Nat /\ left[o] \in Nat /\ pause[o] \in Nat
    BY <1>0, Apart, AtPeer
  <1>5. Outlasts' /\ Lost' = Lost /\ outage' = outage
    BY <1>1, Apart, SameLink
  <1>6. r = "thief" \/ r = "police"
    BY DEF Roles
  <1>7. Counted(r)'
    BY <1>0, <1>1, <1>2, <1>3, <1>4, Apart DEF Counted, Ahead, Behind
  <1>8. Counted(o)'
    <2>1. Counted(o)
      BY <1>0, Apart
    <2>2. \A i \in DOMAIN inbox[o] : inbox[o][i] <= sent[r] + 1
      <3>1. \A i \in DOMAIN inbox[o] : inbox[o][i] \in Nat /\ inbox[o][i] <= sent[r]
        BY <1>0, <2>1, Apart, AtPeer DEF Counted
      <3>. QED  BY <1>4, <3>1
    <2>. QED  BY <1>0, <1>2, <1>3, <1>4, <2>1, <2>2 DEF Counted, Ahead, Behind
  <1>9. Delivered(r)' /\ Delivered(o)'
    BY <1>0, <1>2, <1>3, Apart DEF Delivered
  <1>10. InTime(r)'
    <2>1. Lost \in Nat
      BY Apart, LostBounded
    <2>2. outage > 0 => outage + RetryInterval - 1 <= Lost
      BY Apart DEF Outlasts
    <2>. QED
      BY <1>2, <1>5, <2>1, <2>2, Apart, TurnClockAssumption DEF InTime, LinkTypes
  <1>11. InTime(o)'
    BY <1>0, <1>2, <1>5, Apart DEF InTime
  <1>12. Waits(r)'
    BY <1>2 DEF Waits
  <1>13. Waits(o)'
    <2>1. phase[o] = "wait" /\ inbox[o] = <<>> => Waited(o) <= BrainDeadline - left[r]
      BY <1>0, <1>1, Apart DEF Waits
    <2>2. Waited(o)' = Waited(o) /\ Waited(o) \in Int
      BY <1>2, <1>4, TurnClockAssumption DEF Waited
    <2>. QED
      BY <1>0, <1>2, <1>3, <1>4, <2>1, <2>2, TurnClockAssumption DEF Waits
  <1>14. Bounded'
    <2>1. Bounded
      BY Apart
    <2>2. CASE r = "thief"
      <3>1. o = "police"
        BY <2>2 DEF Opp
      <3>2. sent["thief"] < Turns
        BY <1>1, <2>1, <2>2 DEF Bounded
      <3>. QED
        BY <1>2, <1>3, <1>4, <2>1, <2>2, <3>1, <3>2, TurnClockAssumption DEF Bounded
    <2>3. CASE r = "police"
      <3>1. o = "thief"
        BY <2>3 DEF Opp
      <3>. QED  BY <1>1, <1>2, <1>3, <2>1, <2>3, <3>1 DEF Bounded
    <2>. QED  BY <1>6, <2>2, <2>3
  <1>15. Unhurried'
    BY <1>2, Apart DEF Unhurried
  <1>. QED
    BY <1>0, <1>5, <1>7, <1>8, <1>9, <1>10, <1>11, <1>12, <1>13, <1>14, <1>15, Together

\* The link goes down: a message on its way may lose that much more, and still
\* has the time for an attempt.
LEMMA BreakCosts ==
    ASSUME OnTime, NEW n \in 1 .. MaxOutage, Breaks(n), NEW q \in Roles,
           phase'[q] = phase[q], left'[q] = left[q],
           pause'[q] = pause[q] \/ pause'[q] = RetryInterval
    PROVE  Outlasts' /\ InTime(q)' /\ (phase[q] = "send" => left[q] > RetryInterval)
  <1>1. /\ outage = 0 /\ outages < MaxOutages /\ outage' = n /\ outages' = outages + 1
    BY DEF Breaks
  <1>2. /\ Lost' = Lost + Setback /\ Lost + Setback <= Downtime
        /\ Lost \in Nat /\ Setback \in Nat /\ Downtime \in Nat
    BY <1>1, Apart, LostGrows, LostBounded
  <1>3. /\ n \in Nat /\ n > 0 /\ RetryInterval \in Nat \ {0} /\ SendBudget \in Nat
        /\ MaxOutage \in Nat /\ n <= MaxOutage /\ Setback = MaxOutage + RetryInterval - 1
    BY TurnClockAssumption DEF Setback
  <1>4. n + RetryInterval - 1 <= Setback /\ RetryInterval <= Setback
    BY <1>2, <1>3
  <1>5. Outlasts'
    BY <1>1, <1>2, <1>3, <1>4 DEF Outlasts
  <1>6. left[q] \in Nat /\ pause[q] \in Nat
    BY Apart, AtPeer
  <1>7. phase[q] = "send" => /\ left[q] <= SendBudget /\ pause[q] <= RetryInterval
                             /\ (SendBudget - left[q]) + pause[q] <= Lost
    BY <1>1, Apart DEF InTime
  <1>8. phase[q] = "send" => (SendBudget - left[q]) + (n + RetryInterval - 1) <= Lost + Setback
    BY <1>2, <1>3, <1>4, <1>6, <1>7
  <1>9. phase[q] = "send" => left[q] > RetryInterval
    BY <1>2, <1>3, <1>4, <1>6, <1>7, Apart DEF Lenient
  <1>10. phase'[q] = "send" => pause'[q] <= RetryInterval
    BY <1>3, <1>7
  <1>11. outage' > 0
    BY <1>1, <1>3
  <1>12. InTime(q)'
    BY <1>1, <1>2, <1>7, <1>8, <1>10, <1>11, Apart DEF InTime
  <1>. QED  BY <1>5, <1>9, <1>12

\* An attempt that fails in time is repeated.
LEMMA Repeated ==
    ASSUME LoopTypes, NEW r \in Roles, Fails(r), left[r] > RetryInterval
    PROVE  /\ pause'[r] = RetryInterval /\ UNCHANGED <<phase, left, ended, sent, applied>>
           /\ \A q \in Roles : q # r => pause'[q] = pause[q]
  <1>1. ~(left[r] <= RetryInterval)
    BY AtPeer, TurnClockAssumption
  <1>. QED  BY <1>1 DEF Fails, LoopTypes

\* A message that arrives says nothing that was not sent.
LEMMA ArrivesCounted ==
    ASSUME OnTime, NEW r \in Roles, Arrives(r), UNCHANGED <<sent, applied>>,
           phase'[Opp(r)] = phase[Opp(r)]
    PROVE  /\ Counted(Opp(r))' /\ Delivered(Opp(r))' /\ Waits(Opp(r))'
           /\ \E i \in DOMAIN inbox'[Opp(r)] : inbox'[Opp(r)][i] = sent[r]
  <1>. DEFINE o == Opp(r)
  <1>0. o \in Roles /\ o # r /\ Opp(o) = r
    BY TwoRoles
  <1>1. inbox'[o] = Append(inbox[o], sent[r]) /\ inbox'[r] = inbox[r]
    BY Apart, ArrivesTypes
  <1>2. inbox[o] \in Seq(Nat) /\ sent[r] \in Nat
    BY <1>0, Apart, AtPeer
  <1>3. /\ inbox'[o] # <<>>
        /\ \A i \in DOMAIN inbox'[o] :
              inbox'[o][i] = sent[r] \/ (i \in DOMAIN inbox[o] /\ inbox'[o][i] = inbox[o][i])
        /\ \E i \in DOMAIN inbox'[o] : inbox'[o][i] = sent[r]
    <2>1. PICK s, t, n : s = inbox[o] /\ t = inbox'[o] /\ n = sent[r]
      OBVIOUS
    <2>2. s \in Seq(Nat) /\ n \in Nat /\ t = Append(s, n)
      BY <1>1, <1>2, <2>1
    <2>3. /\ t # <<>>
          /\ \A i \in DOMAIN t : t[i] = n \/ (i \in DOMAIN s /\ t[i] = s[i])
          /\ \E i \in DOMAIN t : t[i] = n
      BY <2>2, Appended, SMTT(30)
    <2>. QED  BY <2>1, <2>3
  <1>4. Counted(o) /\ Delivered(o)
    BY <1>0, Apart
  <1>5. Behind(o)' = Behind(o)
    BY DEF Behind
  <1>6. Counted(o)'
    <2>1. ASSUME NEW i \in DOMAIN inbox'[o] PROVE inbox'[o][i] <= sent[r]
      <3>1. CASE inbox'[o][i] = sent[r]
        BY <1>2, <3>1
      <3>2. CASE i \in DOMAIN inbox[o] /\ inbox'[o][i] = inbox[o][i]
        BY <1>0, <1>4, <3>2 DEF Counted
      <3>. QED  BY <1>3, <3>1, <3>2
    <2>. QED  BY <1>0, <1>4, <1>5, <2>1 DEF Counted, Ahead
  <1>7. Delivered(o)'
    BY <1>0, <1>1, <1>4 DEF Delivered
  <1>8. Waits(o)'
    BY <1>3 DEF Waits
  <1>. QED  BY <1>3, <1>6, <1>7, <1>8

\* Attempts refused while the link is down.
LEMMA PunctualRefused == ASSUME OnTime, NEW r \in Roles, Refused(r) PROVE Punctual'
  <1>1. phase[r] = "send" /\ outage > 0 /\ Fails(r) /\ UNCHANGED inbox /\ UNCHANGED link
    BY DEF Refused, Attempts
  <1>2. left[r] > RetryInterval
    BY <1>1, BudgetLeft
  <1>3. /\ pause'[r] = RetryInterval /\ UNCHANGED <<phase, left, ended, sent, applied>>
        /\ \A q \in Roles : q # r => pause'[q] = pause[q]
    BY <1>1, <1>2, Repeated, Apart
  <1>4. Outlasts' /\ Lost' = Lost /\ outage' = outage
    BY <1>1, SameLink, Apart
  <1>5. ASSUME NEW q \in Roles PROVE Counted(q)' /\ Delivered(q)' /\ InTime(q)' /\ Waits(q)'
    <2>1. Counted(q) /\ Delivered(q) /\ InTime(q) /\ Waits(q)
      BY Apart
    <2>2. Counted(q)' /\ Delivered(q)' /\ Waits(q)'
      BY <1>1, <1>3, <2>1 DEF Counted, Behind, Delivered, Waits, Waited
    <2>3. pause'[q] = pause[q] \/ pause'[q] = RetryInterval
      BY <1>3
    <2>4. RetryInterval \in Nat
      BY TurnClockAssumption
    <2>5. InTime(q)'
      BY <1>1, <1>3, <1>4, <2>1, <2>3, <2>4 DEF InTime
    <2>. QED  BY <2>2, <2>5
  <1>6. Bounded' /\ Unhurried'
    BY <1>3, Apart DEF Bounded, Unhurried
  <1>. QED  BY <1>4, <1>5, <1>6 DEF Punctual

\* A reply is lost with the link: the message is there, and is sent again.
LEMMA PunctualAckLost == ASSUME OnTime, NEW r \in Roles, AckLost(r) PROVE Punctual'
  <1>. DEFINE o == Opp(r)
  <1>0. o \in Roles /\ o # r /\ Opp(o) = r
    BY TwoRoles
  <1>1. phase[r] = "send" /\ Arrives(r) /\ Fails(r)
    BY DEF AckLost, Attempts
  <1>2. PICK n \in 1 .. MaxOutage : Breaks(n)
    BY DEF AckLost
  <1>3. left[r] > RetryInterval
    <2>1. left[r] \in Nat /\ pause[r] \in Nat /\ outage = 0
      BY <1>2, Apart, AtPeer DEF Breaks
    <2>2. (SendBudget - left[r]) + pause[r] <= Lost
      BY <1>1, <2>1, Apart DEF InTime
    <2>3. Lost + Setback <= Downtime /\ Lost \in Nat /\ Setback \in Nat /\ Downtime \in Nat
      BY <1>2, Apart, LostGrows, LostBounded DEF Breaks
    <2>4. RetryInterval <= Setback /\ RetryInterval \in Nat /\ SendBudget \in Nat
      BY TurnClockAssumption DEF Setback
    <2>5. SendBudget > Downtime
      BY Apart DEF Lenient
    <2>. QED  BY <2>1, <2>2, <2>3, <2>4, <2>5
  <1>4. /\ pause'[r] = RetryInterval /\ UNCHANGED <<phase, left, ended, sent, applied>>
        /\ \A q \in Roles : q # r => pause'[q] = pause[q]
    BY <1>1, <1>3, Repeated, Apart
  <1>5. Outlasts' /\ InTime(r)' /\ InTime(o)'
    BY <1>0, <1>2, <1>4, BreakCosts
  <1>6. Counted(o)' /\ Delivered(o)' /\ Waits(o)'
    BY <1>1, <1>4, ArrivesCounted
  <1>7. inbox'[r] = inbox[r]
    BY <1>1, Apart, ArrivesTypes
  <1>8. Counted(r)' /\ Delivered(r)' /\ Waits(r)'
    BY <1>1, <1>4, <1>7, Apart DEF Counted, Behind, Delivered, Waits
  <1>9. Bounded' /\ Unhurried'
    BY <1>4, Apart DEF Bounded, Unhurried
  <1>. QED  BY <1>5, <1>6, <1>8, <1>9, Together

\* The link goes down between two attempts.
LEMMA PunctualLink == ASSUME OnTime, LinkBreaks PROVE Punctual'
  <1>1. PICK n \in 1 .. MaxOutage : Breaks(n)
    BY DEF LinkBreaks
  <1>2. UNCHANGED <<phase, left, pause, ended, sent, applied, inbox>>
    BY DEF LinkBreaks, loops
  <1>3. ASSUME NEW q \in Roles
        PROVE  Outlasts' /\ Counted(q)' /\ Delivered(q)' /\ InTime(q)' /\ Waits(q)'
    <2>1. Outlasts' /\ InTime(q)'
      BY <1>1, <1>2, BreakCosts
    <2>2. Counted(q)' /\ Delivered(q)' /\ Waits(q)'
      BY <1>2, Apart DEF Counted, Behind, Delivered, Waits, Waited
    <2>. QED  BY <2>1, <2>2
  <1>4. Bounded' /\ Unhurried'
    <2>1. Bounded /\ Unhurried
      BY DEF OnTime, Punctual
    <2>. QED  BY <1>2, <2>1 DEF Bounded, Unhurried
  <1>5. "thief" \in Roles
    BY DEF Roles
  <1>. QED  BY <1>3, <1>4, <1>5 DEF Punctual

\* A peer that begins to wait has not waited, and nobody's time is negative.
LEMMA JustWaiting ==
    ASSUME OnTime, NEW r \in Roles, left'[r] = TurnTimeout,
           phase'[Opp(r)] = phase[Opp(r)], left'[Opp(r)] = left[Opp(r)]
    PROVE  Waits(r)'
  <1>1. Waited(r)' = 0
    BY TurnClockAssumption DEF Waited
  <1>2. Opp(r) \in Roles
    BY TwoRoles
  <1>3. left[Opp(r)] \in Nat /\ InTime(Opp(r))
    BY <1>2, Apart, AtPeer
  <1>4. /\ phase[Opp(r)] = "decide" => 0 <= BrainDeadline - left[Opp(r)]
        /\ phase[Opp(r)] = "send" => 0 <= BrainDeadline + (SendBudget - left[Opp(r)])
    BY <1>3, TurnClockAssumption DEF InTime
  <1>. QED  BY <1>1, <1>4 DEF Waits

\* A message is acknowledged: it is there.
LEMMA PunctualAcknowledged == ASSUME OnTime, NEW r \in Roles, Acknowledged(r) PROVE Punctual'
  <1>. DEFINE o == Opp(r)
  <1>0. o \in Roles /\ o # r /\ Opp(o) = r
    BY TwoRoles
  <1>1. /\ phase[r] = "send" /\ Arrives(r) /\ UNCHANGED <<sent, applied>> /\ UNCHANGED link
        /\ IF Last(r, sent[r]) THEN Leaves(r, "finished") ELSE Enters(r, "wait", TurnTimeout)
    BY DEF Acknowledged, Attempts
  <1>2. /\ phase'[o] = phase[o] /\ left'[o] = left[o] /\ pause'[o] = pause[o]
        /\ ended'[o] = ended[o] /\ ended'[r] \in {ended[r], "finished"}
        /\ phase'[r] = IF Last(r, sent[r]) THEN "over" ELSE "wait"
        /\ ~Last(r, sent[r]) => left'[r] = TurnTimeout
    <2>1. CASE Last(r, sent[r])
      BY <1>0, <1>1, <2>1, LeavesTypes, Apart DEF LoopEndings
    <2>2. CASE ~Last(r, sent[r])
      <3>1. "wait" \in LoopPhases /\ TurnTimeout \in Nat
        BY TurnClockAssumption DEF LoopPhases
      <3>. QED  BY <1>0, <1>1, <2>2, <3>1, EntersTypes, Apart
    <2>. QED  BY <2>1, <2>2
  <1>3. Outlasts' /\ Lost' = Lost /\ outage' = outage
    BY <1>1, SameLink, Apart
  <1>4. /\ Counted(o)' /\ Delivered(o)' /\ Waits(o)'
        /\ \E i \in DOMAIN inbox'[o] : inbox'[o][i] = sent[r]
    BY <1>1, <1>2, ArrivesCounted
  <1>5. inbox'[r] = inbox[r]
    BY <1>1, Apart, ArrivesTypes
  <1>6. Counted(r)'
    <2>1. Behind(r)' = 0 /\ Behind(r) = 0
      BY <1>1, <1>2 DEF Behind, Last
    <2>. QED  BY <1>1, <1>5, <2>1, Apart DEF Counted
  <1>7. Delivered(r)'
    BY <1>1, <1>4 DEF Delivered
  <1>8. InTime(r)' /\ InTime(o)'
    <2>1. InTime(r)'
      BY <1>2 DEF InTime
    <2>2. InTime(o)
      BY <1>0, Apart
    <2>. QED  BY <1>2, <1>3, <2>1, <2>2 DEF InTime
  <1>9. Waits(r)'
    <2>1. CASE Last(r, sent[r])
      BY <1>2, <2>1 DEF Waits
    <2>2. CASE ~Last(r, sent[r])
      BY <1>2, <2>2, JustWaiting
    <2>. QED  BY <2>1, <2>2
  <1>10. Bounded'
    <2>1. Bounded /\ sent[r] \in Nat
      BY Apart, AtPeer
    <2>2. CASE r = "thief"
      <3>1. o = "police"
        BY <2>2 DEF Opp
      <3>2. /\ phase'["thief"] = "wait" => sent["thief"] # Turns
            /\ phase'["thief"] = "over" => sent["thief"] = Turns
        BY <1>2, <2>2 DEF Last
      <3>. QED
        BY <1>1, <1>2, <2>1, <2>2, <3>1, <3>2, TurnClockAssumption DEF Bounded
    <2>3. CASE r = "police"
      <3>1. o = "thief" /\ phase'["police"] = "wait"
        BY <1>2, <2>3 DEF Opp, Last
      <3>. QED  BY <1>1, <1>2, <2>1, <2>3, <3>1 DEF Bounded
    <2>. QED  BY <2>2, <2>3 DEF Roles
  <1>11. Unhurried'
    <2>1. Unhurried
      BY Apart
    <2>2. ASSUME NEW q \in Roles PROVE ended'[q] \in {"none", "finished"}
      BY <1>2, <2>1, TwoRoles DEF Unhurried
    <2>. QED  BY <2>2 DEF Unhurried
  <1>. QED  BY <1>0, <1>3, <1>4, <1>6, <1>7, <1>8, <1>9, <1>10, <1>11, Together

\* A step that was not applied yet is the next one.
LEMMA FreshIsNext ==
    ASSUME OnTime, NEW r \in Roles, phase[r] = "wait",
           NEW i \in DOMAIN inbox[r], inbox[r][i] > applied[r]
    PROVE  inbox[r][i] = applied[r] + 1
  <1>. DEFINE o == Opp(r)
  <1>0. o \in Roles /\ o # r /\ Opp(o) = r
    BY TwoRoles
  <1>1. Counted(r) /\ Counted(o) /\ Behind(r) = 0 /\ Behind(o) \in Nat
    BY <1>0, Apart DEF Behind
  <1>2. Ahead(r) + Ahead(o) = 1 /\ Ahead(r) \in Nat /\ Ahead(o) \in Nat
    BY DEF Ahead, Opp, Roles
  <1>3. /\ sent[r] \in Nat /\ applied[r] \in Nat /\ inbox[r] \in Seq(Nat)
        /\ sent[o] \in Nat /\ applied[o] \in Nat
    BY <1>0, Apart, AtPeer
  <1>4. inbox[r][i] \in Nat /\ inbox[r][i] <= sent[o]
    BY <1>1, <1>3 DEF Counted
  <1>5. /\ sent[r] = applied[r] + Ahead(r)
        /\ sent[o] + Behind(o) = applied[o] + Ahead(o)
        /\ applied[o] <= sent[r]
    BY <1>0, <1>1, <1>3 DEF Counted
  <1>6. sent[o] <= applied[o] + Ahead(o) /\ applied[o] <= applied[r] + Ahead(r)
    BY <1>1, <1>2, <1>3, <1>5
  <1>7. sent[o] <= applied[r] + 1
    BY <1>2, <1>3, <1>6
  <1>. QED  BY <1>3, <1>4, <1>7

\* A message is read.
LEMMA PunctualReads == ASSUME OnTime, NEW r \in Roles, Reads(r) PROVE Punctual'
  <1>. DEFINE o == Opp(r)
              n == Head(inbox[r])
  <1>0. o \in Roles /\ o # r /\ Opp(o) = r
    BY TwoRoles
  <1>1. /\ phase[r] = "wait" /\ inbox[r] # <<>> /\ inbox' = [inbox EXCEPT ![r] = Tail(@)]
        /\ UNCHANGED sent /\ UNCHANGED link
        /\ \/ n <= applied[r] /\ Enters(r, "wait", TurnTimeout) /\ UNCHANGED applied
           \/ /\ n > applied[r] /\ applied' = [applied EXCEPT ![r] = n]
              /\ IF Last(o, n) THEN Leaves(r, "finished") ELSE Enters(r, "decide", BrainDeadline)
    BY DEF Reads
  <1>2. /\ n \in Nat /\ 1 \in DOMAIN inbox[r] /\ n = inbox[r][1]
        /\ inbox'[o] = inbox[o]
        /\ \A i \in DOMAIN inbox'[r] : \E j \in DOMAIN inbox[r] : inbox'[r][i] = inbox[r][j]
        /\ \A j \in DOMAIN inbox[r] : j = 1 \/ \E i \in DOMAIN inbox'[r] : inbox'[r][i] = inbox[r][j]
    <2>1. inbox[r] \in Seq(Nat) /\ inbox'[r] = Tail(inbox[r]) /\ inbox'[o] = inbox[o]
      BY <1>0, <1>1, Apart DEF LoopTypes
    <2>2. PICK s : s = inbox[r]
      OBVIOUS
    <2>3. s \in Seq(Nat) /\ s # <<>> /\ Tail(s) = inbox'[r]
      BY <1>1, <2>1, <2>2
    <2>4. Head(s) \in Nat /\ 1 \in DOMAIN s /\ Head(s) = s[1]
      BY <2>3, TailTaken
    <2>5. \A i \in DOMAIN Tail(s) : \E j \in DOMAIN s : Tail(s)[i] = s[j]
      BY <2>3, TakenFrom
    <2>6. ASSUME NEW j \in DOMAIN s, j # 1 PROVE \E i \in DOMAIN Tail(s) : Tail(s)[i] = s[j]
      BY <2>3, <2>6, TakenLeaves
    <2>. QED  BY <2>1, <2>2, <2>3, <2>4, <2>5, <2>6
  <1>. HIDE DEF n
  <1>3. /\ phase'[o] = phase[o] /\ left'[o] = left[o] /\ pause'[o] = pause[o]
        /\ ended'[o] = ended[o] /\ ended'[r] \in {ended[r], "finished"}
        /\ applied'[o] = applied[o]
        /\ \/ /\ n <= applied[r] /\ applied'[r] = applied[r]
              /\ phase'[r] = "wait" /\ left'[r] = TurnTimeout
           \/ /\ n > applied[r] /\ applied'[r] = n
              /\ phase'[r] = IF Last(o, n) THEN "over" ELSE "decide"
              /\ ~Last(o, n) => left'[r] = BrainDeadline
    <2>1. CASE n <= applied[r] /\ Enters(r, "wait", TurnTimeout) /\ UNCHANGED applied
      <3>1. "wait" \in LoopPhases /\ TurnTimeout \in Nat
        BY TurnClockAssumption DEF LoopPhases
      <3>. QED  BY <1>0, <2>1, <3>1, EntersTypes, Apart
    <2>2. CASE n > applied[r] /\ applied' = [applied EXCEPT ![r] = n]
      <3>1. applied'[r] = n /\ applied'[o] = applied[o]
        BY <1>0, <2>2, Apart DEF LoopTypes
      <3>2. CASE Last(o, n) /\ Leaves(r, "finished")
        BY <1>0, <2>2, <3>1, <3>2, LeavesTypes, Apart DEF LoopEndings
      <3>3. CASE ~Last(o, n) /\ Enters(r, "decide", BrainDeadline)
        <4>1. "decide" \in LoopPhases /\ BrainDeadline \in Nat
          BY TurnClockAssumption DEF LoopPhases
        <4>. QED  BY <1>0, <2>2, <3>1, <3>3, <4>1, EntersTypes, Apart
      <3>4. n <= applied[r] => FALSE
        BY <1>2, <2>2, Apart, AtPeer
      <3>. QED  BY <1>1, <3>2, <3>3, <3>4
    <2>. QED  BY <1>1, <2>1, <2>2
  <1>4. Outlasts' /\ Lost' = Lost /\ outage' = outage
    BY <1>1, SameLink, Apart
  <1>5. /\ sent[r] \in Nat /\ sent[o] \in Nat /\ applied[r] \in Nat /\ applied[o] \in Nat
    BY <1>0, Apart, AtPeer
  <1>6. n > applied[r] => n = applied[r] + 1
    BY <1>1, <1>2, FreshIsNext
  <1>7. \A i \in DOMAIN inbox[r] : inbox[r][i] <= sent[o]
    BY Apart DEF Counted
  <1>8. /\ sent[r] = applied[r] + Ahead(r) /\ applied[r] <= sent[o]
        /\ Counted(o) /\ Delivered(o) /\ Delivered(r)
    <2>1. Behind(r) = 0
      BY <1>1 DEF Behind
    <2>2. Ahead(r) \in Nat
      BY DEF Ahead
    <2>. QED  BY <1>0, <1>5, <2>1, <2>2, Apart DEF Counted
  <1>9. phase'[r] = "over" => r = "police" /\ n = Turns
    BY <1>3 DEF Last, Opp
  <1>10. Counted(r)'
    <2>1. \A i \in DOMAIN inbox'[r] : inbox'[r][i] <= sent[o]
      BY <1>2, <1>7
    <2>2. applied'[r] <= sent[o]
      BY <1>2, <1>3, <1>7, <1>8
    <2>3. sent[r] + Behind(r)' = applied'[r] + Ahead(r)
      <3>1. CASE n <= applied[r]
        <4>1. Behind(r)' = 0 /\ applied'[r] = applied[r]
          BY <1>2, <1>3, <1>5, <3>1 DEF Behind
        <4>2. Ahead(r) \in Nat
          BY DEF Ahead
        <4>. QED  BY <1>5, <1>8, <4>1, <4>2
      <3>2. CASE n > applied[r]
        <4>1. Behind(r)' = 1 /\ applied'[r] = applied[r] + 1
          BY <1>2, <1>3, <1>5, <1>6, <1>9, <3>2 DEF Behind
        <4>2. Ahead(r) \in Nat
          BY DEF Ahead
        <4>. QED  BY <1>5, <1>8, <4>1, <4>2
      <3>. QED  BY <1>2, <1>5, <3>1, <3>2
    <2>. QED  BY <1>1, <2>1, <2>2, <2>3 DEF Counted, Ahead
  <1>11. Counted(o)'
    <2>1. Behind(o)' = Behind(o)
      BY <1>3 DEF Behind
    <2>. QED  BY <1>0, <1>1, <1>2, <1>3, <1>8, <2>1 DEF Counted, Ahead
  <1>12. Delivered(r)'
    BY <1>1, <1>2, <1>3, <1>8 DEF Delivered
  <1>13. Delivered(o)'
    <2>1. ASSUME phase[o] \in {"wait", "over"}, ~(sent[o] <= applied'[r])
          PROVE  \E i \in DOMAIN inbox'[r] : inbox'[r][i] = sent[o]
      <3>1. n <= applied'[r] /\ applied[r] <= applied'[r] /\ applied'[r] \in Nat
        BY <1>2, <1>3, <1>5
      <3>2. ~(sent[o] <= applied[r])
        BY <1>5, <2>1, <3>1
      <3>3. PICK j \in DOMAIN inbox[r] : inbox[r][j] = sent[o]
        BY <1>0, <1>8, <2>1, <3>2 DEF Delivered
      <3>4. j # 1
        BY <1>2, <2>1, <3>1, <3>3
      <3>. QED  BY <1>2, <3>3, <3>4
    <2>. QED  BY <1>0, <1>1, <1>3, <2>1 DEF Delivered
  <1>14. InTime(r)' /\ InTime(o)'
    <2>1. InTime(r)'
      BY <1>3, TurnClockAssumption DEF InTime
    <2>2. InTime(o)
      BY <1>0, Apart
    <2>. QED  BY <1>3, <1>4, <2>1, <2>2 DEF InTime
  <1>15. Waits(r)'
    <2>1. CASE phase'[r] = "wait"
      <3>1. left'[r] = TurnTimeout
        BY <1>3, <2>1
      <3>. QED  BY <1>3, <3>1, JustWaiting
    <2>2. CASE phase'[r] # "wait"
      BY <2>2 DEF Waits
    <2>. QED  BY <2>1, <2>2
  <1>16. Waits(o)'
    <2>1. phase[o] = "wait" /\ inbox[o] = <<>> => Waited(o) = 0
      BY <1>0, <1>1, Apart DEF Waits
    <2>2. Waited(o)' = Waited(o)
      BY <1>3 DEF Waited
    <2>3. phase'[r] = "decide" => left'[r] = BrainDeadline
      BY <1>3
    <2>4. BrainDeadline - BrainDeadline = 0 /\ 0 <= 0
      BY TurnClockAssumption
    <2>5. phase'[r] # "send"
      BY <1>3
    <2>. QED  BY <1>0, <1>2, <1>3, <2>1, <2>2, <2>3, <2>4, <2>5 DEF Waits
  <1>17. Bounded'
    <2>1. Bounded
      BY Apart
    <2>2. CASE r = "thief"
      <3>1. o = "police" /\ ~Last(o, n)
        BY <2>2 DEF Opp, Last
      <3>2. phase'["thief"] \in {"wait", "decide"} /\ sent["thief"] < Turns
        BY <1>1, <1>3, <2>1, <2>2, <3>1 DEF Bounded
      <3>. QED  BY <1>1, <1>3, <2>1, <2>2, <3>1, <3>2 DEF Bounded
    <2>3. CASE r = "police"
      <3>1. o = "thief" /\ (Last(o, n) <=> n = Turns)
        BY <2>3 DEF Opp, Last
      <3>2. phase["police"] # "over" /\ applied["police"] # Turns
        BY <1>1, <2>1, <2>3 DEF Bounded
      <3>. QED  BY <1>1, <1>3, <2>1, <2>3, <3>1, <3>2 DEF Bounded
    <2>. QED  BY <2>2, <2>3 DEF Roles
  <1>18. Unhurried'
    <2>1. Unhurried
      BY Apart
    <2>2. ASSUME NEW q \in Roles PROVE ended'[q] \in {"none", "finished"}
      BY <1>3, <2>1, TwoRoles DEF Unhurried
    <2>. QED  BY <2>2 DEF Unhurried
  <1>. QED
    BY <1>0, <1>4, <1>10, <1>11, <1>12, <1>13, <1>14, <1>15, <1>16, <1>17, <1>18, Together

\* The call deadline is not spent, as long as no request hangs.
LEMMA NeverGivenUp == ASSUME OnTime, NEW r \in Roles PROVE ~HangEnds(r)
  <1>1. SUFFICES ASSUME HangEnds(r) PROVE FALSE
    OBVIOUS
  <1>2. phase[r] = "send" /\ left[r] = 0
    BY <1>1 DEF HangEnds
  <1>. QED  BY <1>2, BudgetLeft

\* A peer that waits for nothing is not waited for, and its opponent is at work.
LEMMA OpponentAtWork ==
    ASSUME OnTime, NEW r \in Roles, phase[r] = "wait", inbox[r] = <<>>
    PROVE  /\ phase[Opp(r)] \in {"decide", "send", "wait"}
           /\ phase[Opp(r)] = "wait" => inbox[Opp(r)] # <<>>
  <1>. DEFINE o == Opp(r)
  <1>0. o \in Roles /\ o # r /\ Opp(o) = r
    BY TwoRoles
  <1>1. /\ Counted(r) /\ Counted(o) /\ Delivered(r) /\ Delivered(o) /\ Bounded
        /\ sent[r] \in Nat /\ applied[r] \in Nat /\ sent[o] \in Nat /\ applied[o] \in Nat
        /\ phase[o] \in LoopPhases /\ inbox[r] \in Seq(Nat)
    BY <1>0, Apart, AtPeer
  <1>2. Behind(r) = 0 /\ sent[r] = applied[r] + Ahead(r)
    <2>1. Behind(r) = 0
      BY DEF Behind
    <2>. QED  BY <1>1, <2>1 DEF Counted
  <1>3. (phase[o] \in {"wait", "over"}) => sent[o] <= applied[r]
    <2>1. ~\E i \in DOMAIN inbox[r] : inbox[r][i] = sent[o]
      OBVIOUS
    <2>. QED  BY <1>0, <1>1, <2>1 DEF Delivered
  <1>4. r = "thief" \/ r = "police"
    BY DEF Roles
  <1>5. phase[o] # "over"
    <2>1. SUFFICES ASSUME phase[o] = "over" PROVE FALSE
      OBVIOUS
    <2>2. CASE r = "thief"
      <3>1. o = "police" /\ applied["police"] = Turns
        BY <1>1, <2>1, <2>2 DEF Opp, Bounded
      <3>2. sent["thief"] < Turns /\ applied[o] <= sent[r]
        BY <1>0, <1>1, <2>2 DEF Bounded, Counted
      <3>. QED  BY <1>1, <2>2, <3>1, <3>2, TurnClockAssumption
    <2>3. CASE r = "police"
      <3>1. o = "thief" /\ sent[o] = Turns /\ applied[r] # Turns
        BY <1>1, <2>1, <2>3 DEF Opp, Bounded
      <3>2. sent[o] <= applied[r] /\ applied[r] <= sent[o]
        BY <1>0, <1>1, <1>3, <2>1 DEF Counted
      <3>. QED  BY <1>1, <3>1, <3>2, TurnClockAssumption
    <2>. QED  BY <1>4, <2>2, <2>3
  <1>6. phase[o] = "wait" => inbox[o] # <<>>
    <2>1. SUFFICES ASSUME phase[o] = "wait", inbox[o] = <<>> PROVE FALSE
      OBVIOUS
    <2>2. sent[o] <= applied[r] /\ sent[r] <= applied[o]
      <3>1. ~\E i \in DOMAIN inbox[o] : inbox[o][i] = sent[r]
        BY <2>1
      <3>. QED  BY <1>1, <1>3, <2>1, <3>1 DEF Delivered
    <2>3. Behind(o) = 0 /\ Ahead(o) \in Nat /\ Ahead(r) \in Nat /\ Ahead(r) + Ahead(o) = 1
      BY <1>4, <2>1 DEF Behind, Ahead, Opp
    <2>4. sent[o] = applied[o] + Ahead(o)
      BY <1>1, <2>3 DEF Counted
    <2>. QED  BY <1>1, <1>2, <2>2, <2>3, <2>4
  <1>. QED  BY <1>1, <1>5, <1>6 DEF LoopPhases

\* Nor is the opponent-turn deadline.
LEMMA NeverTimedOut == ASSUME OnTime, NEW r \in Roles PROVE ~TimesOut(r)
  <1>. DEFINE o == Opp(r)
  <1>1. SUFFICES ASSUME TimesOut(r) PROVE FALSE
    OBVIOUS
  <1>2. phase[r] = "wait" /\ inbox[r] = <<>> /\ left[r] = 0
    BY <1>1 DEF TimesOut
  <1>3. phase[o] \in {"decide", "send", "wait"} /\ Waits(r) /\ InTime(o)
        /\ left[o] \in Nat /\ pause[o] \in Nat
    BY <1>2, OpponentAtWork, TwoRoles, Apart, AtPeer
  <1>4. /\ Lost \in Nat /\ Downtime \in Nat /\ Lost <= Downtime
        /\ TurnTimeout > BrainDeadline + Downtime /\ TurnTimeout \in Nat /\ BrainDeadline \in Nat
        /\ SendBudget \in Nat /\ RetryInterval \in Nat /\ TurnTimeout > 0 /\ outage \in Nat
    BY Apart, LostBounded, TurnClockAssumption DEF Lenient, LinkTypes
  <1>5. Waited(r) = TurnTimeout
    BY <1>2, <1>4 DEF Waited
  <1>6. CASE phase[o] = "decide"
    <2>1. TurnTimeout <= BrainDeadline - left[o]
      BY <1>2, <1>3, <1>5, <1>6 DEF Waits
    <2>. QED  BY <1>3, <1>4, <2>1
  <1>7. CASE phase[o] = "send"
    <2>1. TurnTimeout <= BrainDeadline + (SendBudget - left[o])
      BY <1>2, <1>3, <1>5, <1>7 DEF Waits
    <2>2. /\ left[o] <= SendBudget
          /\ (SendBudget - left[o])
                + (IF outage > 0 THEN outage + RetryInterval - 1 ELSE pause[o]) <= Lost
      BY <1>3, <1>7 DEF InTime
    <2>3. SendBudget - left[o] <= Lost
      <3>1. CASE outage > 0
        BY <1>3, <1>4, <2>2, <3>1, TurnClockAssumption
      <3>2. CASE ~(outage > 0)
        BY <1>3, <1>4, <2>2, <3>2
      <3>. QED  BY <3>1, <3>2
    <2>. QED  BY <1>3, <1>4, <2>1, <2>3
  <1>8. CASE phase[o] = "wait"
    BY <1>2, <1>3, <1>4, <1>5, <1>8 DEF Waits
  <1>. QED  BY <1>3, <1>6, <1>7, <1>8

\* Time passes only while every peer has some left.
LEMMA PunctualTick == ASSUME OnTime, Tick PROVE Punctual'
  <1>1. /\ ~Urgent
        /\ left' = [r \in Roles |-> Down(left[r])] /\ pause' = [r \in Roles |-> Down(pause[r])]
        /\ outage' = Down(outage)
        /\ UNCHANGED <<phase, ended, sent, applied, inbox, outages>>
    BY DEF Tick
  <1>2. /\ Lost' = Lost /\ Lost \in Nat /\ outage \in Nat /\ SendBudget \in Nat
        /\ BrainDeadline \in Nat /\ TurnTimeout \in Nat /\ RetryInterval \in Nat \ {0}
    <2>1. LinkTypes
      BY DEF OnTime
    <2>. QED  BY <1>1, <2>1, LostBounded, TurnClockAssumption DEF Lost, Setback, LinkTypes
  <1>3. ASSUME NEW q \in Roles
        PROVE  /\ left[q] \in Nat /\ pause[q] \in Nat
               /\ left'[q] = Down(left[q]) /\ pause'[q] = Down(pause[q])
               /\ Counted(q) /\ Delivered(q) /\ InTime(q) /\ Waits(q)
    BY <1>1, Apart, AtPeer
  <1>4. ASSUME NEW q \in Roles PROVE Counted(q)' /\ Delivered(q)'
    BY <1>1, <1>3 DEF Counted, Behind, Delivered
  <1>5. ASSUME NEW q \in Roles
        PROVE  /\ phase[q] \in {"decide", "send"} => left[q] > 0
               /\ phase[q] = "send" => pause[q] > 0
               /\ phase[q] = "wait" => left[q] > 0 /\ inbox[q] = <<>>
    BY <1>1, <1>3, BudgetLeft DEF Urgent
  <1>6. outage > 0 => outage + RetryInterval - 1 <= Lost
    BY DEF OnTime, Punctual, Outlasts
  <1>7. Outlasts'
    BY <1>1, <1>2, <1>6 DEF Outlasts, Down
  <1>8. ASSUME NEW q \in Roles PROVE InTime(q)'
    <2>1. CASE phase[q] = "decide"
      BY <1>1, <1>2, <1>3, <2>1 DEF InTime, Down
    <2>2. CASE phase[q] = "send"
      <3>1. left'[q] = left[q] - 1 /\ pause'[q] = pause[q] - 1 /\ left[q] > 0 /\ pause[q] > 0
        BY <1>3, <1>5, <2>2 DEF Down
      <3>2. /\ left[q] <= SendBudget /\ pause[q] <= RetryInterval
            /\ (SendBudget - left[q])
                  + (IF outage > 0 THEN outage + RetryInterval - 1 ELSE pause[q]) <= Lost
        BY <1>3, <2>2 DEF InTime
      <3>3. (SendBudget - left'[q])
               + (IF outage' > 0 THEN outage' + RetryInterval - 1 ELSE pause'[q]) <= Lost
        <4>1. CASE outage = 0
          BY <1>1, <1>2, <1>3, <3>1, <3>2, <4>1 DEF Down
        <4>2. CASE outage > 0
          BY <1>1, <1>2, <1>3, <3>1, <3>2, <4>2 DEF Down
        <4>. QED  BY <1>2, <4>1, <4>2
      <3>. QED  BY <1>1, <1>2, <1>3, <2>2, <3>1, <3>2, <3>3 DEF InTime
    <2>3. CASE phase[q] \notin {"decide", "send"}
      BY <1>1, <2>3 DEF InTime
    <2>. QED  BY <2>1, <2>2, <2>3
  <1>9. ASSUME NEW q \in Roles PROVE Waits(q)'
    <2>. DEFINE o == Opp(q)
    <2>1. SUFFICES ASSUME phase[q] = "wait", inbox[q] = <<>> PROVE Waits(q)'
      BY <1>1 DEF Waits
    <2>2. o \in Roles /\ phase[o] \in {"decide", "send"}
      BY <1>5, <2>1, OpponentAtWork, TwoRoles
    <2>3. left'[q] = left[q] - 1 /\ left'[o] = left[o] - 1
      BY <1>3, <1>5, <2>1, <2>2 DEF Down
    <2>4. /\ phase[o] = "decide" => Waited(q) <= BrainDeadline - left[o]
          /\ phase[o] = "send" => Waited(q) <= BrainDeadline + (SendBudget - left[o])
      BY <1>3, <2>1 DEF Waits
    <2>5. Waited(q) \in Int /\ Waited(q)' = Waited(q) + 1 /\ left[o] \in Nat
      BY <1>2, <1>3, <2>2, <2>3 DEF Waited
    <2>6. phase[o] = "decide" => Waited(q)' <= BrainDeadline - left'[o]
      BY <1>2, <2>3, <2>4, <2>5
    <2>7. phase[o] = "send" => Waited(q)' <= BrainDeadline + (SendBudget - left'[o])
      BY <1>2, <2>3, <2>4, <2>5
    <2>. QED  BY <1>1, <2>2, <2>6, <2>7 DEF Waits
  <1>10. Bounded' /\ Unhurried'
    <2>1. Bounded /\ Unhurried
      BY DEF OnTime, Punctual
    <2>. QED  BY <1>1, <2>1 DEF Bounded, Unhurried
  <1>. QED  BY <1>4, <1>7, <1>8, <1>9, <1>10 DEF Punctual

\* Every step keeps the invariant; the watchdog's do nothing to the loops.
LEMMA PunctualStep == ASSUME PunctualInv, [ClockNext]_clockVars PROVE PunctualInv'
  <1>1. LoopTypes /\ LinkTypes /\ LoopTypes' /\ LinkTypes'
    BY ClockTypes DEF PunctualInv
  <1>2. Lenient' <=> Lenient
    BY DEF Lenient, Downtime
  <1>3. SUFFICES ASSUME Lenient, hangs' = 0 PROVE Punctual'
    BY <1>1, <1>2 DEF PunctualInv
  <1>4. hangs \in Nat /\ (UNCHANGED hangs \/ hangs' = hangs + 1)
    BY <1>1 DEF ClockNext, Loop, Decide, Acknowledged, Refused, AckLost, Hangs, HangEnds, Reads,
                TimesOut, LinkBreaks, Breaks, Scan, OnFreeze, Tick, link, clockVars, LinkTypes
  <1>5. hangs = 0
    BY <1>3, <1>4
  <1>6. OnTime
    BY <1>1, <1>3, <1>5 DEF OnTime, PunctualInv
  <1>7. ASSUME NEW r \in Roles, Loop(r) PROVE Punctual'
    <2>1. ~Hangs(r)
      BY <1>3, <1>5 DEF Hangs
    <2>. QED
      BY <1>6, <1>7, <2>1, PunctualDecide, PunctualAcknowledged, PunctualRefused, PunctualAckLost,
         PunctualReads, NeverGivenUp, NeverTimedOut DEF Loop
  <1>8. CASE LinkBreaks
    BY <1>6, <1>8, PunctualLink
  <1>9. CASE Tick
    BY <1>6, <1>9, PunctualTick
  <1>10. CASE Scan \/ OnFreeze \/ UNCHANGED clockVars
    <2>1. UNCHANGED loops /\ UNCHANGED link
      BY <1>10 DEF Scan, OnFreeze, clockVars
    <2>2. Outlasts' /\ Lost' = Lost /\ outage' = outage
      BY <1>6, <2>1, SameLink DEF OnTime, Punctual
    <2>3. Punctual
      BY <1>6 DEF OnTime
    <2>4. ASSUME NEW q \in Roles PROVE Counted(q)' /\ Delivered(q)' /\ InTime(q)' /\ Waits(q)'
      BY <2>1, <2>2, <2>3 DEF Punctual, loops, Counted, Behind, Delivered, InTime, Waits, Waited
    <2>5. Bounded' /\ Unhurried'
      BY <2>1, <2>3 DEF Punctual, loops, Bounded, Unhurried
    <2>. QED  BY <2>2, <2>4, <2>5 DEF Punctual
  <1>. QED  BY <1>7, <1>8, <1>9, <1>10 DEF ClockNext

\* Two live peers never lose each other to a deadline, whatever the deadlines,
\* the length and the number of the outages: slow brains, refused attempts,
\* lost replies and the duplicates they cause end no sub-game, as long as the
\* opponent-turn deadline outlasts a brain deadline and the downtime, the call
\* deadline the downtime, and no request hangs (runtime.py and deadlines.py,
\* transport.py's call deadline, brain_clock.py).
THEOREM DeadlinesSuffice == ClockSpec => []NobodyImpatient
  <1>1. ClockInit => PunctualInv
    BY PunctualInit
  <1>2. PunctualInv /\ [ClockNext]_clockVars => PunctualInv'
    BY PunctualStep
  <1>3. PunctualInv => NobodyImpatient
    BY DEF PunctualInv, Punctual, Unhurried, NobodyImpatient, Lenient
  <1>. QED  BY <1>1, <1>2, <1>3, PTL DEF ClockSpec

=============================================================================
