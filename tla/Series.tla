------------------------------- MODULE Series -------------------------------
(***************************************************************************)
(* A series of sub-games between two peers: the loop of sdk/series.py, the *)
(* window handshake of peer/handshake.py and what crosses from one         *)
(* sub-game into the next.  Two peers walk through the windows 1 .. Games  *)
(* on their own; the negotiated window number is all that keeps them       *)
(* together, and the inboxes, which live as long as the process, are only  *)
(* emptied when a window opens.                                            *)
(*                                                                         *)
(* The turn loop (module PeerGame has it in full) is reduced to who speaks *)
(* and which step of which window was heard: a commit is identified by the *)
(* window its step was sealed in.                                          *)
(***************************************************************************)
EXTENDS Integers, Sequences

CONSTANTS
    Games,        \* sub-games of the series
    Steps,        \* thief steps that win it a sub-game
    MaxBreaches,  \* consecutive rejected messages that end the sub-game
    Alternate,    \* the peers swap roles between sub-games
    Kinds,        \* the kinds of fault that may happen
    MaxFaults,    \* bound: faults of one behaviour
    MaxOffers     \* bound: offers in one negotiation inbox

FaultKinds == {"lost_offer", "twice", "late", "raise", "slow"}

ASSUME SeriesAssumption ==
    /\ Games \in Nat \ {0} /\ Steps \in Nat \ {0} /\ MaxBreaches \in Nat \ {0}
    /\ Alternate \in BOOLEAN /\ Kinds \subseteq FaultKinds
    /\ MaxFaults \in Nat /\ MaxOffers \in Nat \ {0}

Peers == {"a", "b"}
Other(p) == IF p = "a" THEN "b" ELSE "a"
Roles == {"police", "thief"}
RoleIn(p, n) == IF (p = "a") = (Alternate /\ n % 2 = 0) THEN "police" ELSE "thief"

Phases == {"idle", "offering", "moving", "waiting", "over", "auditing",
           "finished", "aborted"}
Outcomes == {"played", "lost", "forged"}
Turns == [win : Nat, step : Nat, from : Roles]
Audits == [win : Nat, steps : Nat]

VARIABLES
    phase,     \* where the peer is in its series loop
    num,       \* the window it declares
    hello,     \* PeerInboxes.negotiation: the windows offered to it
    turns,     \* PeerInboxes.turns
    audits,    \* PeerInboxes.audits
    made,      \* its own steps in this window
    seen,      \* the commits it heard: per step, the window they belong to
    breaches,  \* TurnHandler.breaches
    outcome,   \* how its turn loop ended
    rows,      \* what it reported, per window
    late,      \* requests to it that are still under way after their sender gave up
    faults     \* the faults so far, in order

game == <<made, seen, breaches, outcome>>
inboxes == <<hello, turns, audits>>
vars == <<phase, num, inboxes, game, rows, late, faults>>

Init ==
    /\ phase = [p \in Peers |-> "idle"]
    /\ num = [p \in Peers |-> 0]
    /\ hello = [p \in Peers |-> <<>>]
    /\ turns = [p \in Peers |-> <<>>]
    /\ audits = [p \in Peers |-> <<>>]
    /\ made = [p \in Peers |-> 0]
    /\ seen = [p \in Peers |-> <<>>]
    /\ breaches = [p \in Peers |-> 0]
    /\ outcome = [p \in Peers |-> "played"]
    /\ rows = [p \in Peers |-> <<>>]
    /\ late = [p \in Peers |-> {}]
    /\ faults = <<>>

Fault(k) ==
    k \in Kinds /\ Len(faults) < MaxFaults /\ faults' = Append(faults, k)

Happened(K) == \E i \in DOMAIN faults : faults[i] \in K

Goes(p, s) == phase' = [phase EXCEPT ![p] = s]

\* The turn loop returns.
Ends(p, o) == Goes(p, "over") /\ outcome' = [outcome EXCEPT ![p] = o]

Put(box, p, m) == [box EXCEPT ![p] = Append(@, m)]
PutTwice(box, p, m) == [box EXCEPT ![p] = @ \o <<m, m>>]
Take(box, p) == [box EXCEPT ![p] = Tail(@)]

-----------------------------------------------------------------------------
(* The handshake.                                                          *)

\* negotiate() returned: the offer is in the other's inbox, once or, after a
\* retried call, twice; or its edge took it and nobody was there to keep it.
Offer(p, n) ==
    LET q == Other(p)
    IN  /\ Len(hello[q]) < MaxOffers
        /\ \/ hello' = Put(hello, q, n) /\ UNCHANGED faults
           \/ hello' = PutTwice(hello, q, n) /\ Fault("twice")
           \/ UNCHANGED hello /\ Fault("lost_offer")

Fresh(p) ==
    /\ made' = [made EXCEPT ![p] = 0]
    /\ seen' = [seen EXCEPT ![p] = <<>>]
    /\ breaches' = [breaches EXCEPT ![p] = 0]
    /\ outcome' = [outcome EXCEPT ![p] = "played"]

\* Mutant: the inboxes are not emptied.
StartDirty(p) ==
    /\ phase[p] = "idle" /\ num[p] < Games
    /\ num' = [num EXCEPT ![p] = @ + 1]
    /\ Fresh(p)
    /\ Offer(p, num[p] + 1)
    /\ Goes(p, "offering")
    /\ UNCHANGED <<turns, audits, rows, late>>

\* A window opens: drain the turn and audit inboxes, new runtime, first offer.
StartSubGame(p) ==
    /\ phase[p] = "idle" /\ num[p] < Games
    /\ num' = [num EXCEPT ![p] = @ + 1]
    /\ turns' = [turns EXCEPT ![p] = <<>>]
    /\ audits' = [audits EXCEPT ![p] = <<>>]
    /\ Fresh(p)
    /\ Offer(p, num[p] + 1)
    /\ Goes(p, "offering")
    /\ UNCHANGED <<rows, late>>

\* Mutant: any offer of the same terms is good enough.
AgreesAny(p, n) == n \in Nat

\* A lower number is a delayed duplicate; any other difference is refused and
\* the peer goes on listening.
Agrees(p, n) == n = num[p]

\* Mutant: a refused offer stays at the head of the queue.
ReadOfferPeek(p) ==
    /\ phase[p] = "offering" /\ hello[p] # <<>>
    /\ Agrees(p, Head(hello[p]))
    /\ hello' = Take(hello, p)
    /\ Goes(p, IF RoleIn(p, num[p]) = "thief" THEN "moving" ELSE "waiting")
    /\ UNCHANGED <<num, turns, audits, game, rows, late, faults>>

ReadOffer(p) ==
    /\ phase[p] = "offering" /\ hello[p] # <<>>
    /\ hello' = Take(hello, p)
    /\ IF Agrees(p, Head(hello[p]))
         THEN Goes(p, IF RoleIn(p, num[p]) = "thief" THEN "moving" ELSE "waiting")
         ELSE UNCHANGED phase
    /\ UNCHANGED <<num, turns, audits, game, rows, late, faults>>

Reoffer(p) ==
    /\ phase[p] = "offering" /\ hello[p] = <<>>
    /\ Offer(p, num[p])
    /\ UNCHANGED <<phase, num, turns, audits, game, rows, late>>

Offered(p) == \E i \in DOMAIN hello[p] : hello[p][i] = num[p]

\* The other will never offer this window again.
Estranged(p) ==
    \/ phase[Other(p)] \in {"finished", "aborted"}
    \/ /\ phase[Other(p)] = "offering" /\ num[Other(p)] # num[p]
       /\ ~Offered(Other(p))

\* connect_timeout: the exception leaves run_series.
HandshakeDeadline(p) ==
    /\ phase[p] = "offering" /\ hello[p] = <<>> /\ Estranged(p)
    /\ Goes(p, "aborted")
    /\ UNCHANGED <<num, inboxes, game, rows, late, faults>>

-----------------------------------------------------------------------------
(* The turn loop.                                                          *)

Last(m) == m.from = "thief" /\ m.step = Steps

\* One turn: heard once, heard twice, or its deadline spent with the request
\* still under way.
Move(p) ==
    LET q == Other(p)
        m == [win |-> num[p], step |-> made[p] + 1, from |-> RoleIn(p, num[p])]
        sent == IF Last(m) THEN Ends(p, "played") ELSE Goes(p, "waiting") /\ UNCHANGED outcome
    IN  /\ phase[p] = "moving"
        /\ made' = [made EXCEPT ![p] = @ + 1]
        /\ \/ turns' = Put(turns, q, m) /\ sent /\ UNCHANGED <<late, faults>>
           \/ turns' = PutTwice(turns, q, m) /\ sent /\ Fault("twice") /\ UNCHANGED late
           \/ /\ late' = [late EXCEPT ![q] = @ \cup {m}] /\ Fault("late")
              /\ Ends(p, "lost") /\ UNCHANGED turns
        /\ UNCHANGED <<num, hello, audits, seen, breaches, rows>>

\* The peer's own turn fails before anything is sent.
Raises(p) ==
    /\ phase[p] = "moving"
    /\ Fault("raise")
    /\ Ends(p, "lost")
    /\ UNCHANGED <<num, inboxes, made, seen, breaches, rows, late>>

Heard(p, m) == m.step <= Len(seen[p])
Contradicts(p, m) == m.step \in DOMAIN seen[p] /\ seen[p][m.step] # m.win
Good(p, m) == m.step = Len(seen[p]) + 1 /\ m.from = RoleIn(Other(p), num[p])

\* The inbound gate.  A message does not say which window it belongs to.
ReadTurn(p) ==
    LET m == Head(turns[p])
    IN  /\ phase[p] = "waiting" /\ turns[p] # <<>>
        /\ turns' = Take(turns, p)
        /\ \/ /\ ~Heard(p, m) /\ Good(p, m)
              /\ seen' = [seen EXCEPT ![p] = Append(@, m.win)]
              /\ breaches' = [breaches EXCEPT ![p] = 0]
              /\ IF Last(m) THEN Ends(p, "played") ELSE Goes(p, "moving") /\ UNCHANGED outcome
           \/ /\ Heard(p, m) /\ ~Contradicts(p, m)
              /\ UNCHANGED <<phase, outcome, seen, breaches>>
           \/ /\ IF Heard(p, m) THEN Contradicts(p, m) ELSE ~Good(p, m)
              /\ breaches' = [breaches EXCEPT ![p] = @ + 1]
              /\ IF breaches[p] + 1 >= MaxBreaches THEN Ends(p, "lost")
                                                   ELSE UNCHANGED <<phase, outcome>>
              /\ UNCHANGED seen
        /\ UNCHANGED <<num, hello, audits, made, rows, late, faults>>

\* The other may still speak in p's window.
MaySpeak(p) ==
    LET q == Other(p)
    IN  /\ num[q] = num[p]
        /\ \/ phase[q] = "moving"
           \/ phase[q] = "waiting" /\ turns[q] # <<>>
           \/ phase[q] = "offering" /\ Offered(q)

TurnTimeout(p) ==
    /\ phase[p] = "waiting" /\ turns[p] = <<>>
    /\ IF MaySpeak(p) THEN Fault("slow") ELSE UNCHANGED faults
    /\ Ends(p, "lost")
    /\ UNCHANGED <<num, inboxes, made, seen, breaches, rows, late>>

-----------------------------------------------------------------------------
(* The audit, and the next window.                                         *)

Reveal(p) ==
    LET q == Other(p)
        m == [win |-> num[p], steps |-> made[p]]
    IN  /\ phase[p] = "over"
        /\ \/ audits' = Put(audits, q, m) /\ UNCHANGED <<late, faults>>
           \/ audits' = PutTwice(audits, q, m) /\ Fault("twice") /\ UNCHANGED late
           \/ late' = [late EXCEPT ![q] = @ \cup {m}] /\ Fault("late") /\ UNCHANGED audits
        /\ Goes(p, "auditing")
        /\ UNCHANGED <<num, hello, turns, game, rows>>

Mismatch(p, m) == \E i \in DOMAIN seen[p] : i <= m.steps /\ seen[p][i] # m.win

\* The sub-game is settled and its row kept.
Settles(p, o) == Goes(p, "idle") /\ rows' = [rows EXCEPT ![p] = Append(@, o)]

ReadAudit(p) ==
    /\ phase[p] = "auditing" /\ audits[p] # <<>>
    /\ audits' = Take(audits, p)
    /\ Settles(p, IF Mismatch(p, Head(audits[p])) THEN "forged" ELSE outcome[p])
    /\ UNCHANGED <<num, hello, turns, game, late, faults>>

\* The other is about to reveal: only a slow one misses the audit deadline.
\* One that still waits for a turn outlasts that deadline by far.
Revealing(p) ==
    LET q == Other(p)
    IN  /\ num[q] = num[p]
        /\ \/ phase[q] = "over"
           \/ phase[q] = "waiting" /\ turns[q] # <<>>

AuditTimeout(p) ==
    /\ phase[p] = "auditing" /\ audits[p] = <<>>
    /\ IF Revealing(p) THEN Fault("slow") ELSE UNCHANGED faults
    /\ Settles(p, outcome[p])
    /\ UNCHANGED <<num, inboxes, game, late>>

EndSeries(p) ==
    /\ phase[p] = "idle" /\ num[p] = Games
    /\ Goes(p, "finished")
    /\ UNCHANGED <<num, inboxes, game, rows, late, faults>>

\* A request outlives the call that made it.
Arrives(p) ==
    /\ \E m \in late[p] :
         /\ late' = [late EXCEPT ![p] = @ \ {m}]
         /\ \/ m \in Turns /\ turns' = Put(turns, p, m) /\ UNCHANGED audits
            \/ m \in Audits /\ audits' = Put(audits, p, m) /\ UNCHANGED turns
    /\ UNCHANGED <<phase, num, hello, game, rows, faults>>

-----------------------------------------------------------------------------
Step(p) == \/ StartSubGame(p) \/ ReadOffer(p) \/ Reoffer(p) \/ HandshakeDeadline(p)
           \/ Move(p) \/ Raises(p) \/ ReadTurn(p) \/ TurnTimeout(p)
           \/ Reveal(p) \/ ReadAudit(p) \/ AuditTimeout(p) \/ EndSeries(p)

\* Both processes have left run_series: the system may stop here.
Stopped == (\A p \in Peers : phase[p] \in {"finished", "aborted"}) /\ UNCHANGED vars

Next == (\E p \in Peers : Step(p) \/ Arrives(p)) \/ Stopped

Spec == Init /\ [][Next]_vars

\* Each process keeps running its loop and its deadlines fire.
FairSpec == Spec /\ \A p \in Peers : WF_vars(Step(p) /\ faults' = faults)

-----------------------------------------------------------------------------
(* Properties.                                                             *)

TypeOK ==
    /\ phase \in [Peers -> Phases]
    /\ num \in [Peers -> 0 .. Games]
    /\ hello \in [Peers -> Seq(1 .. Games)]
    /\ turns \in [Peers -> Seq(Turns)]
    /\ audits \in [Peers -> Seq(Audits)]
    /\ made \in [Peers -> Nat]
    /\ seen \in [Peers -> Seq(Nat)]
    /\ breaches \in [Peers -> Nat]
    /\ outcome \in [Peers -> Outcomes]
    /\ rows \in [Peers -> Seq(Outcomes)]
    /\ late \in [Peers -> SUBSET (Turns \cup Audits)]
    /\ faults \in Seq(FaultKinds) /\ Len(faults) <= MaxFaults

Playing(p) == phase[p] \in {"moving", "waiting"}

\* Two peers that play at the same time play the same sub-game, whatever was
\* repeated, refused, lost or given up before (INTEROP 7.2 pairing guard).
PlayTogether == (\A p \in Peers : Playing(p)) => num["a"] = num["b"]

\* Opening a window throws away nothing but the remains of earlier windows:
\* "fresh turns only follow the new handshake" (sdk/series.py).
DrainsStale ==
    [][\A p \in Peers : num'[p] # num[p] =>
         /\ \A i \in DOMAIN turns[p] : turns[p][i].win < num'[p]
         /\ \A i \in DOMAIN audits[p] : audits[p][i].win < num'[p]]_vars

\* As long as no request outlives its call and no deadline fires early, a peer
\* applies only turns of the window it plays, even when the previous one ended
\* on one side alone.
OwnWindow ==
    ~Happened({"late", "slow"})
    => \A p \in Peers : \A i \in DOMAIN seen[p] : seen[p][i] = num[p]

\* No honest peer's reveal is settled as a forgery, in any window: a mismatch
\* is "provable forgery" (peer/audit.py).
NoFalseForgery == \A p \in Peers : \A i \in DOMAIN rows[p] : rows[p][i] # "forged"

\* Unless something worse happens than a retried call that is delivered twice,
\* two peers that finish report the same, played-out sub-games.
SeriesAgrees ==
    ~Happened(FaultKinds \ {"twice"}) /\ (\A p \in Peers : phase[p] = "finished")
    => rows["a"] = [n \in 1 .. Games |-> "played"] /\ rows["b"] = rows["a"]

\* A peer that opens a window gets to play it: it keeps advertising the window
\* because an acknowledged offer may not have been kept (peer/handshake.py,
\* "Keep advertising our current window until the counterpart arrives").
OffersAnswered == \A p \in Peers : phase[p] = "offering" ~> Playing(p)

\* As long as acknowledged offers are kept, the series comes to its end on both
\* sides: no window is waited for forever, no process leaves early.
SeriesCompletes ==
    <>(Happened({"lost_offer"}) \/ \A p \in Peers : phase[p] = "finished")

-----------------------------------------------------------------------------
(* Why a turn is of its own window: what SeriesProofs proves invariant.    *)

\* Turns so counted that the peer to move has taken as many as it has seen.
Taken(p) == IF RoleIn(p, num[p]) = "thief" THEN made[p] ELSE made[p] + 1

\* What a peer holds is of the window it has opened, no step is missing before
\* the next unread one, and a thief that plays on has not won yet.
Local(p) ==
    /\ \A i \in DOMAIN seen[p] : seen[p][i] = num[p]
    /\ \A i \in DOMAIN turns[p] :
          /\ turns[p][i].win = num[p] /\ turns[p][i].from = RoleIn(Other(p), num[p])
          /\ turns[p][i].step \in 1 .. Len(seen[p]) + 1
    /\ phase[p] \in {"offering", "aborted"} => made[p] = 0 /\ seen[p] = <<>>
    /\ phase[p] = "moving" => Taken(p) = Len(seen[p])
    /\ phase[p] = "waiting" => Taken(p) = Len(seen[p]) + 1
    /\ Playing(p) /\ RoleIn(p, num[p]) = "thief" => made[p] < Steps

\* Nothing of a window reaches a peer that its sender has not made in it.
Sent(p) ==
    LET q == Other(p)
    IN  /\ \A i \in DOMAIN turns[p] : turns[p][i].win <= num[q]
        /\ num[p] = num[q] =>
             /\ Len(seen[p]) <= made[q]
             /\ \A i \in DOMAIN turns[p] : turns[p][i].step <= made[q]

\* The other peer is through with the window p is in.
Deserted(p) ==
    LET q == Other(p)
    IN  \/ num[q] > num[p]
        \/ num[q] = num[p] /\ phase[q] \in {"over", "auditing", "idle", "finished"}

\* Then p makes no move in it any more.
Mute(p) ==
    /\ phase[p] # "moving"
    /\ phase[p] = "waiting" \/ (phase[p] = "offering" /\ Offered(p)) =>
          \A i \in DOMAIN turns[p] : Heard(p, turns[p][i]) \/ Last(turns[p][i])
    /\ phase[p] = "offering" /\ Offered(p) => RoleIn(p, num[p]) = "police"

\* A turn is of the window it is read in, and a deserted peer stays silent.
InWindow(p) ==
    /\ late[p] = {}
    /\ Local(p)
    /\ Sent(p)
    /\ Deserted(p) => Mute(p)

WindowInv == ~Happened({"late", "slow"}) => \A p \in Peers : InWindow(p)

-----------------------------------------------------------------------------
(* Why both report the same: what SeriesProofs proves invariant.           *)

\* Nothing went wrong but a retried call that was delivered twice.
Clean == ~Happened(FaultKinds \ {"twice"})

\* Offers are read in the order of their windows, and the one a peer needs is
\* there as soon as the other has opened that window.
Queued(p) ==
    LET q == Other(p)
    IN  /\ \A i, j \in DOMAIN hello[p] : i < j => hello[p][i] <= hello[p][j]
        /\ num[q] > num[p] => \E i \in DOMAIN hello[p] : hello[p][i] = num[q]
        /\ phase[p] = "offering" /\ num[q] >= num[p] => Offered(p)

\* One row per window left, each of them played out.
Reported(p) ==
    /\ outcome[p] = "played" /\ phase[p] # "aborted"
    /\ \A i \in DOMAIN rows[p] : rows[p][i] = "played"
    /\ Len(rows[p]) = IF phase[p] \in {"idle", "finished"} THEN num[p] ELSE num[p] - 1
    /\ phase[p] = "finished" => num[p] = Games

\* The police answers every step of the thief but the last.
Answered(p) ==
    IF RoleIn(p, num[p]) = "thief" THEN Len(seen[p]) < Steps
                                   ELSE made[p] < Steps /\ (Playing(p) => Len(seen[p]) < Steps)

\* The step a peer has not heard is in its inbox; so is the last one, once the
\* other is through with the window.
Reaches(p) ==
    LET q == Other(p)
    IN  /\ num[p] = num[q] /\ phase[p] \in {"offering", "moving", "waiting"} =>
             /\ made[q] <= Len(seen[p]) + 1
             /\ made[q] > Len(seen[p]) =>
                  \E i \in DOMAIN turns[p] : turns[p][i].step = Len(seen[p]) + 1
        /\ Deserted(p) /\ phase[p] \in {"offering", "waiting"} =>
             \E i \in DOMAIN turns[p] : Last(turns[p][i])

\* Only a series of one-step windows lets a peer settle one before the other
\* has revealed its log, and then there is nothing in it to compare.
Hasty(p) == Steps = 1 /\ (Alternate \/ RoleIn(p, num[p]) = "thief")

Revealed(p) ==
    LET q == Other(p)
    IN  /\ \A i \in DOMAIN audits[p] :
             /\ audits[p][i].win <= num[q]
             /\ audits[p][i].win = num[q] => phase[q] \in {"auditing", "idle", "finished"}
             /\ audits[p][i].win # num[p] =>
                  Hasty(p) /\ (audits[p][i].steps = 0 \/ RoleIn(p, num[p]) = "thief")
        /\ (num[p] > num[q] \/ (num[p] = num[q] /\ phase[p] \in {"idle", "finished"}))
           /\ phase[q] \in {"offering", "moving", "waiting", "over"} => Hasty(p)

CleanInv ==
    Clean => \A p \in Peers :
                Queued(p) /\ Reported(p) /\ Answered(p) /\ Reaches(p) /\ Revealed(p)

=============================================================================
