------------------------------ MODULE PeerGame ------------------------------
(***************************************************************************)
(* One sub-game of Pursuit between two peers that run the same code: the   *)
(* turn loop of peer/runtime.py, the outbound pipeline of                  *)
(* peer/turn_sender.py, the inbound gate of peer/turn_handler.py, the      *)
(* retrying transport between them and the mutual audit of peer/audit.py.  *)
(*                                                                         *)
(* Each peer knows its own position, the barriers declared so far and the  *)
(* sealed record it committed to at each of its steps; the only thing that *)
(* crosses the wire is a turn message.  The network delivers late, loses   *)
(* requests, loses acknowledgements (the sender then re-sends what was     *)
(* already delivered) and may still hold messages of an earlier sub-game.  *)
(* A commit is modelled as the sealed record itself (no collisions), a     *)
(* scent grid and a hint are left out: they never influence control.       *)
(***************************************************************************)
EXTENDS Board, FiniteSets

CONSTANTS
    CopStart, ThiefStart,  \* the signed start cells
    MaxBarriers,           \* signed barrier quota of the police
    MaxMoves,              \* signed move ceiling of the police
    SurvivalThreshold,     \* thief steps that win it the sub-game
    MaxBreaches,           \* consecutive rejected messages that end the game
    MaxTries,              \* bound: attempts that fit in one call's deadline
    MaxFaults,             \* bound: faults of one behaviour
    Strays,                \* turn messages not of this sub-game
    MaxStrays,             \* bound: strays delivered in one behaviour
    None,                  \* an absent optional field
    Garbage                \* a body TurnMessage.from_wire refuses

Roles == {"police", "thief"}
Opp(r) == IF r = "police" THEN "thief" ELSE "police"
States == {"OPP_TURN", "MY_TURN", "SENDING", "GAME_OVER", "AUDITING", "DONE"}
Results == {"pending", "capture", "survival", "technical_loss"}

Records == [pos : Cells, walls : SUBSET Cells]
Answers == {"none", "missed", "caught"}
TurnMessages == [step : Nat, from : Roles, commit : Records,
                 barrier : Cells \cup {None}, claim : Cells \cup {None},
                 answer : Answers, win : BOOLEAN]

\* Copies of a request under way, and the call its sender waits in.
Copies == [msg : TurnMessages, try : 1 .. MaxTries]
Calls == [msg : TurnMessages, try : 1 .. MaxTries, ack : BOOLEAN]

ASSUME PeerGameAssumption ==
    /\ CopStart \in Cells /\ ThiefStart \in Cells /\ CopStart # ThiefStart
    /\ MaxBarriers \in Nat /\ MaxMoves \in Nat \ {0}
    /\ SurvivalThreshold \in Nat \ {0} /\ MaxBreaches \in Nat \ {0}
    /\ MaxTries \in Nat \ {0} /\ MaxFaults \in Nat /\ MaxStrays \in Nat
    /\ None \notin Cells \cup Calls /\ Garbage \notin TurnMessages
    /\ Strays \subseteq TurnMessages \cup {Garbage}

VARIABLES
    fsm,        \* GameStateMachine, from the first turn on
    result,     \* what the peer's _turn_loop returned, then what run() reports
    pos,        \* OwnGameState.position
    walls,      \* OwnGameState.barriers: every declared barrier
    placed,     \* OwnGameState.my_barriers
    log,        \* SealedLog after step 0: the n-th record seals step n
    seen,       \* TurnHandler.commits; its length is last_step
    oppPlaced,  \* TurnHandler.opponent_barriers
    breaches,   \* TurnHandler.breaches
    due,        \* claim_response due on the peer's next message
    call,       \* the outbound receive_turn call, or None
    wire,       \* request copies under way
    turns,      \* PeerInboxes.turns
    audits,     \* PeerInboxes.audits
    theirs,     \* the records of the audit the peer read
    verdict,    \* what exchange_audits concluded
    faults,     \* faults so far
    strayed     \* strays delivered so far

own == <<pos, walls, placed, log>>
gate == <<seen, oppPlaced, breaches, due>>
net == <<call, wire, turns>>
ending == <<audits, theirs, verdict>>
env == <<faults, strayed>>
vars == <<fsm, result, own, gate, net, ending, env>>

\* The thief moves first.
FirstState(r) == IF r = "thief" THEN "MY_TURN" ELSE "OPP_TURN"

Start(r) == IF r = "police" THEN CopStart ELSE ThiefStart

Init ==
    /\ fsm = [r \in Roles |-> FirstState(r)]
    /\ result = [r \in Roles |-> "pending"]
    /\ pos = [r \in Roles |-> Start(r)]
    /\ walls = [r \in Roles |-> {}]
    /\ placed = [r \in Roles |-> 0]
    /\ log = [r \in Roles |-> <<>>]
    /\ seen = [r \in Roles |-> <<>>]
    /\ oppPlaced = [r \in Roles |-> 0]
    /\ breaches = [r \in Roles |-> 0]
    /\ due = [r \in Roles |-> "none"]
    /\ call = [r \in Roles |-> None]
    /\ wire = {}
    /\ turns = [r \in Roles |-> <<>>]
    /\ audits = [r \in Roles |-> <<>>]
    /\ theirs = [r \in Roles |-> <<>>]
    /\ verdict = [r \in Roles |-> "open"]
    /\ faults = 0
    /\ strayed = 0

\* The peer leaves its turn loop with outcome o.
Ends(r, o) ==
    /\ fsm' = [fsm EXCEPT ![r] = "GAME_OVER"]
    /\ result' = [result EXCEPT ![r] = o]

Goes(r, s) == fsm' = [fsm EXCEPT ![r] = s] /\ UNCHANGED result

Fault == faults < MaxFaults /\ faults' = faults + 1 /\ UNCHANGED strayed

-----------------------------------------------------------------------------
(* Outbound: decide, guard, apply, seal, compose, send.                    *)

Hold == [type |-> "HOLD", dir |-> "STAY"]
Decisions == [type : {"MOVE", "BARRIER"}, dir : Directions] \cup {Hold}

Fallback(r) ==
    LET first == FirstLegal(pos[r], walls[r])
    IN  IF first \subseteq {"STAY"} THEN {Hold} ELSE [type : {"MOVE"}, dir : first]

\* Mutant: any cell in reach will do, a barriered one too.
CanBuildTwice(r, d) == r = "police" /\ placed[r] < MaxBarriers /\ Shift(pos[r], d) \in Cells

CanBuild(r, d) == /\ r = "police"
                  /\ placed[r] < MaxBarriers
                  /\ Shift(pos[r], d) \in BarrierOptions(pos[r], walls[r])

\* Mutant: a move is only checked against the edge of the board.
GuardBoardOnly(r, b) ==
    IF b.type # "BARRIER" /\ b.dir = "STAY" THEN {Hold}
    ELSE IF \/ b.type = "MOVE" /\ Shift(pos[r], b.dir) \in Cells
            \/ b.type = "BARRIER" /\ CanBuild(r, b.dir)
         THEN {b}
         ELSE Fallback(r)

\* What the peer plays when its brain answers b, whatever that is.
Guard(r, b) ==
    IF b.type # "BARRIER" /\ b.dir = "STAY" THEN {Hold}
    ELSE IF \/ b.type = "MOVE" /\ CanStep(pos[r], b.dir, walls[r])
            \/ b.type = "BARRIER" /\ CanBuild(r, b.dir)
         THEN {b}
         ELSE Fallback(r)

Plays(r) == IF due[r] = "caught" THEN {Hold} ELSE UNION {Guard(r, b) : b \in Decisions}

\* Mutant: the wire commit is taken before the move is applied.
ComposeEarly(r, a, rec) ==
    LET n == Len(log[r]) + 1
    IN  [step |-> n, from |-> r, commit |-> [pos |-> pos[r], walls |-> walls[r]],
         barrier |-> IF a.type = "BARRIER" THEN Shift(pos[r], a.dir) ELSE None,
         claim |-> IF r = "police" /\ a.type = "MOVE" THEN rec.pos ELSE None,
         answer |-> due[r],
         win |-> r = "thief" /\ due[r] # "caught" /\ n >= SurvivalThreshold]

\* Mutant: a barrier on the cop's own cell is not declared.
ComposeUndeclared(r, a, rec) ==
    LET n == Len(log[r]) + 1
    IN  [step |-> n, from |-> r, commit |-> rec,
         barrier |-> IF a.type = "BARRIER" /\ a.dir # "STAY" THEN Shift(pos[r], a.dir)
                                                            ELSE None,
         claim |-> IF r = "police" /\ a.type = "MOVE" THEN rec.pos ELSE None,
         answer |-> due[r],
         win |-> r = "thief" /\ due[r] # "caught" /\ n >= SurvivalThreshold]

Compose(r, a, rec) ==
    LET n == Len(log[r]) + 1
    IN  [step |-> n, from |-> r, commit |-> rec,
         barrier |-> IF a.type = "BARRIER" THEN Shift(pos[r], a.dir) ELSE None,
         claim |-> IF r = "police" /\ a.type = "MOVE" THEN rec.pos ELSE None,
         answer |-> due[r],
         win |-> r = "thief" /\ due[r] # "caught" /\ n >= SurvivalThreshold]

Copy(m, n) == [msg |-> m, try |-> n]

TakeTurn(r) ==
    /\ fsm[r] = "MY_TURN"
    /\ \E a \in Plays(r) :
         LET built == IF a.type = "BARRIER" THEN {Shift(pos[r], a.dir)} ELSE {}
             rec == [pos |-> IF a.type = "MOVE" THEN Shift(pos[r], a.dir) ELSE pos[r],
                     walls |-> walls[r] \cup built]
             m == Compose(r, a, rec)
         IN  /\ pos' = [pos EXCEPT ![r] = rec.pos]
             /\ walls' = [walls EXCEPT ![r] = rec.walls]
             /\ placed' = [placed EXCEPT ![r] = IF built = {} THEN @ ELSE @ + 1]
             /\ log' = [log EXCEPT ![r] = Append(@, rec)]
             /\ call' = [call EXCEPT ![r] = [msg |-> m, try |-> 1, ack |-> FALSE]]
             /\ wire' = wire \cup {Copy(m, 1)}
    /\ due' = [due EXCEPT ![r] = "none"]
    /\ Goes(r, "SENDING")
    /\ UNCHANGED <<seen, oppPlaced, breaches, turns, ending, env>>

\* Any exception before the message is out: a brain bug, say.
BrainRaises(r) ==
    /\ fsm[r] = "MY_TURN"
    /\ Fault
    /\ Ends(r, "technical_loss")
    /\ UNCHANGED <<own, gate, net, ending>>

\* Mutant: one turn too early.
SpentEarly(m) == m.from = "police" /\ m.step + 1 >= MaxMoves

\* The police has used up its move ceiling with message m.
Spent(m) == m.from = "police" /\ m.step >= MaxMoves

\* A message that ends the sub-game: the thief's concession or its win claim.
Terminal(m) == m.win \/ m.answer = "caught"

SendReturns(r) ==
    /\ fsm[r] = "SENDING"
    /\ call[r].ack
    /\ LET m == call[r].msg
       IN  \/ /\ Terminal(m)
              /\ Ends(r, IF m.answer = "caught" THEN "capture" ELSE "survival")
           \/ /\ ~Terminal(m) /\ Spent(m)
              /\ Ends(r, "survival")
           \/ /\ ~Terminal(m) /\ ~Spent(m)
              /\ Goes(r, "OPP_TURN")
    /\ call' = [call EXCEPT ![r] = None]
    /\ UNCHANGED <<own, gate, wire, turns, ending, env>>

-----------------------------------------------------------------------------
(* The transport: at-least-once delivery with a bounded retry budget.      *)

Pending(r) == Copy(call[r].msg, call[r].try) \in wire

Deliver(c) ==
    LET m == c.msg
        s == m.from
    IN  /\ wire' = wire \ {c}
        /\ turns' = [turns EXCEPT ![Opp(s)] = Append(@, m)]
        /\ call' = IF call[s] # None /\ call[s].msg = m /\ call[s].try = c.try
                     THEN [call EXCEPT ![s].ack = TRUE] ELSE call
        /\ UNCHANGED <<fsm, result, own, gate, ending, env>>

Lose(c) ==
    /\ Fault
    /\ wire' = wire \ {c}
    /\ UNCHANGED <<fsm, result, own, gate, call, turns, ending>>

\* An attempt fails at the client: for free when its request was lost, by a
\* fault when the request is only late or when only the reply was lost.
AttemptFails(r) ==
    /\ fsm[r] = "SENDING"
    /\ IF ~call[r].ack /\ ~Pending(r) THEN UNCHANGED env ELSE Fault

Retry(r) ==
    /\ AttemptFails(r)
    /\ call[r].try < MaxTries
    /\ call' = [call EXCEPT ![r].try = @ + 1, ![r].ack = FALSE]
    /\ wire' = wire \cup {Copy(call[r].msg, call[r].try + 1)}
    /\ UNCHANGED <<fsm, result, own, gate, turns, ending>>

\* The call's deadline is spent: TransportError out of the turn loop.
GiveUp(r) ==
    /\ AttemptFails(r)
    /\ call[r].try = MaxTries
    /\ call' = [call EXCEPT ![r] = None]
    /\ Ends(r, "technical_loss")
    /\ UNCHANGED <<own, gate, wire, turns, ending>>

\* A turn message of an earlier sub-game, or a malformed body, arrives.
Stray(r) ==
    /\ strayed < MaxStrays
    /\ strayed' = strayed + 1
    /\ \E m \in Strays : turns' = [turns EXCEPT ![r] = Append(@, m)]
    /\ UNCHANGED <<fsm, result, own, gate, call, wire, ending, faults>>

-----------------------------------------------------------------------------
(* Inbound: dedup, validate, fold, answer.                                 *)

LastStep(r) == Len(seen[r])

\* Mutant: a cell may be declared twice.
ValidTwice(r, m) ==
    /\ m.from = Opp(r)
    /\ m.step = LastStep(r) + 1
    /\ IF Opp(r) = "police" THEN m.answer = "none" /\ ~m.win
                            ELSE m.barrier = None /\ m.claim = None
    /\ m.barrier # None => oppPlaced[r] < MaxBarriers
    /\ m.win => m.step >= SurvivalThreshold

\* Mutant: a win claim is believed at any step.
ValidWin(r, m) ==
    /\ m.from = Opp(r)
    /\ m.step = LastStep(r) + 1
    /\ IF Opp(r) = "police" THEN m.answer = "none" /\ ~m.win
                            ELSE m.barrier = None /\ m.claim = None
    /\ m.barrier # None => oppPlaced[r] < MaxBarriers /\ m.barrier \notin walls[r]

\* Rule 5 and rule 14: what makes a message of a new step acceptable.
Valid(r, m) ==
    /\ m.from = Opp(r)
    /\ m.step = LastStep(r) + 1
    /\ IF Opp(r) = "police" THEN m.answer = "none" /\ ~m.win
                            ELSE m.barrier = None /\ m.claim = None
    /\ m.barrier # None => oppPlaced[r] < MaxBarriers /\ m.barrier \notin walls[r]
    /\ m.win => m.step >= SurvivalThreshold

\* Mutant: a cop next door counts as a landing.
AnswerNear(r, m, barred) ==
    IF \/ m.claim # None /\ Distance(m.claim, pos[r]) <= 1
       \/ m.barrier # None /\ (m.barrier = pos[r] \/ Jailed(pos[r], barred))
      THEN "caught"
      ELSE IF m.claim # None THEN "missed" ELSE "none"

\* Mutant: nobody looks for a jail.
AnswerNoJail(r, m, barred) ==
    IF \/ m.claim # None /\ m.claim = pos[r]
       \/ m.barrier # None /\ m.barrier = pos[r]
      THEN "caught"
      ELSE IF m.claim # None THEN "missed" ELSE "none"

\* Rules 21, 46 and 47: the truthful answer the thief owes to message m.
Answer(r, m, barred) ==
    IF \/ m.claim # None /\ m.claim = pos[r]
       \/ m.barrier # None /\ (m.barrier = pos[r] \/ Jailed(pos[r], barred))
      THEN "caught"
      ELSE IF m.claim # None THEN "missed" ELSE "none"

\* Mutant: the last applied step is not recognised.
KnownBefore(r, m) == m # Garbage /\ m.step < LastStep(r)

Known(r, m) == m # Garbage /\ m.step <= LastStep(r)
Equivocates(r, m) == m.step \in DOMAIN seen[r] /\ seen[r][m.step] # m.commit

Reads(r) == fsm[r] = "OPP_TURN" /\ turns[r] # <<>>
Pop(r) == turns' = [turns EXCEPT ![r] = Tail(@)]

\* process() after every check has passed, up to the belief update.
Fold(r, m) ==
    /\ walls' = [walls EXCEPT ![r] = @ \cup ({m.barrier} \ {None})]
    /\ seen' = [seen EXCEPT ![r] = Append(@, m.commit)]
    /\ oppPlaced' = [oppPlaced EXCEPT ![r] = IF m.barrier = None THEN @ ELSE @ + 1]
    /\ breaches' = [breaches EXCEPT ![r] = 0]
    /\ Pop(r)
    /\ UNCHANGED <<pos, placed, log, call, wire, ending>>

Fresh(r, m) == m # Garbage /\ ~Known(r, m) /\ Valid(r, m)

Accept(r) ==
    /\ Reads(r)
    /\ LET m == Head(turns[r])
           answer == IF r = "thief" THEN Answer(r, m, walls[r] \cup ({m.barrier} \ {None}))
                                    ELSE "none"
       IN  /\ Fresh(r, m)
           /\ Fold(r, m)
           /\ due' = [due EXCEPT ![r] = answer]
           /\ \/ /\ Terminal(m)
                 /\ Ends(r, IF m.answer = "caught" THEN "capture" ELSE "survival")
              \/ /\ ~Terminal(m) /\ answer # "caught" /\ Spent(m)
                 /\ Ends(r, "survival")
              \/ /\ ~Terminal(m) /\ ~(answer # "caught" /\ Spent(m))
                 /\ Goes(r, "MY_TURN")
    /\ UNCHANGED env

\* The belief update fails on an accepted message: it stays applied.
BeliefRaises(r) ==
    /\ Reads(r)
    /\ Fresh(r, Head(turns[r]))
    /\ Fold(r, Head(turns[r]))
    /\ Fault
    /\ Ends(r, "technical_loss")
    /\ UNCHANGED due

\* Mutant: a redelivery is answered with another turn.
ReplayDuplicate(r) ==
    /\ Reads(r)
    /\ Known(r, Head(turns[r])) /\ ~Equivocates(r, Head(turns[r]))
    /\ Pop(r)
    /\ Goes(r, "MY_TURN")
    /\ UNCHANGED <<own, gate, call, wire, ending, env>>

DropDuplicate(r) ==
    /\ Reads(r)
    /\ Known(r, Head(turns[r])) /\ ~Equivocates(r, Head(turns[r]))
    /\ Pop(r)
    /\ UNCHANGED <<fsm, result, own, gate, call, wire, ending, env>>

Reject(r) ==
    /\ Reads(r)
    /\ LET m == Head(turns[r])
       IN  \/ m = Garbage
           \/ Known(r, m) /\ Equivocates(r, m)
           \/ m # Garbage /\ ~Known(r, m) /\ ~Valid(r, m)
    /\ breaches' = [breaches EXCEPT ![r] = @ + 1]
    /\ IF breaches[r] + 1 >= MaxBreaches THEN Ends(r, "technical_loss")
                                         ELSE UNCHANGED <<fsm, result>>
    /\ Pop(r)
    /\ UNCHANGED <<own, seen, oppPlaced, due, call, wire, ending, env>>

\* Nothing can reach r any more unless some timeout fires first.
Coming(r) == \E c \in wire : c.msg.from = Opp(r)
Silent(r) ==
    LET o == Opp(r)
    IN  /\ ~Coming(r)
        /\ fsm[o] \notin {"MY_TURN", "SENDING"}
        /\ fsm[o] = "OPP_TURN" => turns[o] = <<>> /\ ~Coming(o)

\* Mutant: only the first wait has a deadline.
TurnTimeoutOnce(r) ==
    /\ fsm[r] = "OPP_TURN" /\ turns[r] = <<>> /\ seen[r] = <<>>
    /\ IF Silent(r) THEN UNCHANGED env ELSE Fault
    /\ Ends(r, "technical_loss")
    /\ UNCHANGED <<own, gate, net, ending>>

\* The opponent-turn deadline: for free once nothing can arrive, by a fault
\* when the opponent is merely slower than the receiver's patience.
TurnTimeout(r) ==
    /\ fsm[r] = "OPP_TURN" /\ turns[r] = <<>>
    /\ IF Silent(r) THEN UNCHANGED env ELSE Fault
    /\ Ends(r, "technical_loss")
    /\ UNCHANGED <<own, gate, net, ending>>

-----------------------------------------------------------------------------
(* The audit, on every ending.                                             *)

\* submit_audit: delivered once; by a fault not at all (its deadline is
\* suppressed) or twice (the reply was lost, the call retried).
Reveal(r) ==
    /\ fsm[r] = "GAME_OVER"
    /\ \/ /\ audits' = [audits EXCEPT ![Opp(r)] = Append(@, log[r])]
          /\ UNCHANGED env
       \/ /\ UNCHANGED audits
          /\ Fault
       \/ /\ audits' = [audits EXCEPT ![Opp(r)] = @ \o <<log[r], log[r]>>]
          /\ Fault
    /\ Goes(r, "AUDITING")
    /\ UNCHANGED <<own, gate, net, theirs, verdict>>

\* Mutant: a step that never arrived live counts against the peer.
RevealUnseen(r, recs) ==
    \E i \in DOMAIN recs \cup DOMAIN seen[r] :
        i \notin DOMAIN seen[r] \/ i \notin DOMAIN recs \/ recs[i] # seen[r][i]

\* Steps whose revealed commit is not the one broadcast live.
RevealMismatch(r, recs) ==
    \E i \in DOMAIN recs \cap DOMAIN seen[r] : recs[i] # seen[r][i]

\* Steps off the board or more than one orthogonal cell from the last.
TrajectoryMismatch(recs) ==
    \E i \in DOMAIN recs :
        \/ recs[i].pos \notin Cells
        \/ i > 1 /\ Distance(recs[i - 1].pos, recs[i].pos) > 1

Forged(r, recs) == RevealMismatch(r, recs) \/ TrajectoryMismatch(recs)

ReadAudit(r) ==
    /\ fsm[r] = "AUDITING" /\ audits[r] # <<>>
    /\ LET recs == Head(audits[r])
       IN  /\ theirs' = [theirs EXCEPT ![r] = recs]
           /\ IF Forged(r, recs)
                THEN /\ verdict' = [verdict EXCEPT ![r] = "forged"]
                     /\ result' = [result EXCEPT ![r] = "technical_loss"]
                ELSE /\ verdict' = [verdict EXCEPT ![r] = "passed"]
                     /\ UNCHANGED result
    /\ audits' = [audits EXCEPT ![r] = Tail(@)]
    /\ fsm' = [fsm EXCEPT ![r] = "DONE"]
    /\ UNCHANGED <<own, gate, net, env>>

\* Absence is not forgery.  Free once the opponent is past its own reveal.
AuditTimeout(r) ==
    /\ fsm[r] = "AUDITING" /\ audits[r] = <<>>
    /\ IF fsm[Opp(r)] \in {"AUDITING", "DONE"} THEN UNCHANGED env ELSE Fault
    /\ verdict' = [verdict EXCEPT ![r] = "absent"]
    /\ Goes(r, "DONE")
    /\ UNCHANGED <<own, gate, net, audits, theirs>>

-----------------------------------------------------------------------------
\* Both processes have returned from run(): the system may stop here.
Finished == /\ \A r \in Roles : fsm[r] = "DONE"
            /\ UNCHANGED vars

Peer(r) == \/ TakeTurn(r) \/ BrainRaises(r) \/ SendReturns(r)
           \/ Retry(r) \/ GiveUp(r)
           \/ Accept(r) \/ DropDuplicate(r) \/ Reject(r) \/ BeliefRaises(r)
           \/ TurnTimeout(r) \/ Reveal(r) \/ ReadAudit(r) \/ AuditTimeout(r)

Next == \/ \E r \in Roles : Peer(r) \/ Stray(r)
        \/ \E c \in wire : Deliver(c) \/ Lose(c)
        \/ Finished

Spec == Init /\ [][Next]_vars

\* A peer's own thread keeps running and its deadlines fire; a request that
\* is under way is eventually delivered unless it is lost.
Fairness == /\ \A r \in Roles : WF_vars(Peer(r) /\ faults' = faults)
            /\ WF_vars(\E c \in wire : Deliver(c))

FairSpec == Spec /\ Fairness

-----------------------------------------------------------------------------
(* Properties.                                                             *)

\* Every variable has its type: the state of PeerRuntime and its parts.
TypeOK ==
    /\ fsm \in [Roles -> States]
    /\ result \in [Roles -> Results]
    /\ pos \in [Roles -> Cells]
    /\ walls \in [Roles -> SUBSET Cells]
    /\ placed \in [Roles -> 0 .. MaxBarriers]
    /\ log \in [Roles -> Seq(Records)]
    /\ seen \in [Roles -> Seq(Records)]
    /\ oppPlaced \in [Roles -> 0 .. MaxBarriers]
    /\ breaches \in [Roles -> Nat]
    /\ due \in [Roles -> Answers]
    /\ call \in [Roles -> Calls \cup {None}]
    /\ wire \in SUBSET Copies
    /\ turns \in [Roles -> Seq(TurnMessages \cup {Garbage})]
    /\ audits \in [Roles -> Seq(Seq(Records))]
    /\ theirs \in [Roles -> Seq(Records)]
    /\ verdict \in [Roles -> {"open", "passed", "forged", "absent"}]
    /\ faults \in 0 .. MaxFaults
    /\ strayed \in 0 .. MaxStrays

\* Exactly-once application over an at-least-once transport: what a peer has
\* applied is a prefix of what the other sealed, never a step twice, out of
\* order or altered (turn_handler.py dedup, INTEROP delivery rules).
SeenIsPrefix ==
    \A r \in Roles : /\ Len(seen[r]) <= Len(log[Opp(r)])
                     /\ \A i \in DOMAIN seen[r] : seen[r][i] = log[Opp(r)][i]

\* The turn token is unique: the peers never decide at the same time, and
\* the thief, who moves first, is level with the police or one step ahead.
OneToken ==
    /\ ~(fsm["police"] = "MY_TURN" /\ fsm["thief"] = "MY_TURN")
    /\ Len(log["thief"]) - Len(log["police"]) \in {0, 1}

\* A thief that is about to move knows every barrier the police has built,
\* so what it takes for a legal move is one (rules 14 and 45).
MapsInSync == fsm["thief"] = "MY_TURN" => walls["thief"] = walls["police"]

\* An honest peer's message is never taken for a breach, whatever the
\* network repeats or delays (rule 5 rejects what is illegal, only).
NoHonestBreach == \A r \in Roles : breaches[r] = 0

InCaptivity ==
    \/ pos["thief"] = pos["police"]
    \/ pos["thief"] \in walls["police"]
    \/ Jailed(pos["thief"], walls["police"])

\* A peer reports a capture only if the thief really is on the cop's cell,
\* on a barrier or jailed (rules 21, 46, 47), at the end as well.
CaptureSound == \A r \in Roles : result[r] = "capture" => InCaptivity

\* Nobody plays on from a lost position: a thief whose cell is barriered or
\* that is jailed owes the concession, although the code looks for a jail
\* only when a barrier has just been declared.
NoSilentCapture ==
    /\ fsm["thief"] = "MY_TURN"
    /\ \/ pos["thief"] \in walls["police"]
       \/ Jailed(pos["thief"], walls["police"])
    => due["thief"] = "caught"

\* The audit accuses no honest peer: nothing the network does within the
\* sub-game makes a truthful reveal fail (ruling A9a).
NoFalseForgery == \A r \in Roles : verdict[r] # "forged"

\* Faults may cost a peer its result, but the two never both claim the game.
NoConflictingVictory ==
    {result["police"], result["thief"]} # {"capture", "survival"}

LastPosition(recs) == IF recs = <<>> THEN None ELSE recs[Len(recs)].pos
Walls(recs) == UNION {recs[i].walls : i \in DOMAIN recs}

\* Mutant: each side counts its own steps.
TurnsOwn(r) == Len(log[r])

TurnsCompleted(r) ==
    LET winner == IF result[r] = "capture" THEN "police" ELSE "thief"
        mine == Len(log[r])
    IN  IF winner = r THEN mine
        ELSE IF LastStep(r) # 0 THEN LastStep(r)
        ELSE IF r = "thief" /\ mine > 0 THEN mine - 1 ELSE mine

Digest(r) ==
    LET recs == [q \in Roles |-> IF q = r THEN log[r] ELSE theirs[r]]
    IN  [positions |-> [q \in Roles |-> LastPosition(recs[q])],
         barriers |-> walls[r] \cup Walls(log[r]) \cup Walls(theirs[r]),
         turns |-> TurnsCompleted(r),
         outcome |-> result[r]]

HasDigest(r) == /\ fsm[r] = "DONE"
                /\ result[r] \in {"capture", "survival"}
                /\ \A q \in Roles : Digest(r).positions[q] # None

\* Two end-state digests that are both filed are byte-identical: the same
\* cells, barriers, turns and outcome, computed from two different logs.
DigestAgreement ==
    (\A r \in Roles : HasDigest(r)) => Digest("police") = Digest("thief")

\* Mutant: the winner's steps are always estimated.
RowTurnsGuess(r) ==
    LET winner == IF result[r] = "capture" THEN "police" ELSE "thief"
        mine == Len(log[r])
    IN  IF winner = r THEN mine ELSE IF r = "thief" /\ mine > 0 THEN mine - 1 ELSE mine

\* series_log.py counts for its row what the audit revealed, not what arrived.
RowTurns(r) ==
    LET winner == IF result[r] = "capture" THEN "police" ELSE "thief"
        mine == Len(log[r])
        seenLast == Len(theirs[r])
    IN  IF winner = r THEN mine
        ELSE IF seenLast # 0 THEN seenLast
        ELSE IF r = "thief" /\ mine > 0 THEN mine - 1 ELSE mine

\* When a peer's audit arrived, its row counts the turns its digest counts; and
\* when both did, the two groups' rows count the same, although one takes them
\* from its own log and the other from what was revealed to it.
RowTurnsAgree ==
    /\ \A r \in Roles :
          verdict[r] = "passed" /\ result[r] # "technical_loss" =>
              RowTurns(r) = TurnsCompleted(r)
    /\ (\A r \in Roles : verdict[r] = "passed") /\ result["police"] = result["thief"]
          /\ result["thief"] # "technical_loss"
       => RowTurns("police") = RowTurns("thief")

\* Without a fault both peers finish with the same victory, audits that
\* pass and comparable digests.
FaultFreeAgreement ==
    (\A r \in Roles : fsm[r] = "DONE") /\ faults = 0 /\ strayed = 0
    => /\ result["police"] = result["thief"]
       /\ \A r \in Roles : verdict[r] = "passed" /\ result[r] # "technical_loss"
       /\ Digest("police") = Digest("thief")

\* Without a fault the two peers report the same ending, the one a move
\* ceiling imposes included (tests/unit/test_runtime.py, "ends as survival on
\* both sides").
SameResult ==
    (\A r \in Roles : fsm[r] = "DONE") /\ faults = 0 /\ strayed = 0
    => result["police"] = result["thief"]

\* Whatever arrives, the thief's barrier map holds one cell per declaration it
\* accepted and never more than the signed quota (rules 14 and 45).
WallsAccounted ==
    /\ Cardinality(walls["thief"]) = oppPlaced["thief"]
    /\ oppPlaced["thief"] <= MaxBarriers

\* Whatever arrives, the police concedes a survival only to a thief whose
\* steps it has counted up to the signed threshold.
SurvivalCounted ==
    result["police"] = "survival" =>
        LastStep("police") >= SurvivalThreshold \/ Len(log["police"]) >= MaxMoves

\* Every sub-game ends on both peers, whatever was lost and whatever strays
\* came: no wait is without a deadline, and no message that was repeated or
\* rejected holds the loop for ever.
Terminates == <>(\A r \in Roles : fsm[r] = "DONE")

\* Two peers and a network play the game one referee would: every sealed step
\* is the next legal one on the true barrier map, a caught thief concedes, and
\* whatever a peer reports was earned (runtime.py, turn_sender.py and
\* turn_handler.py together).
Game == INSTANCE TurnGame WITH trail <- log, outcome <- result
ImplementsTurnGame == Game!GameSpec

-----------------------------------------------------------------------------
(* Why the exchange stays in order: what PeerGameProofs proves invariant.  *)

\* Every turn message under way, queued or being sent.
InTransit ==
    {c.msg : c \in wire} \cup {call[r].msg : r \in {q \in Roles : call[q] # None}}
    \cup UNION {{turns[r][i] : i \in DOMAIN turns[r]} : r \in Roles}

\* The message says of its step what its sender sealed there, in the shape of
\* its sender's role.
Genuine(m) ==
    /\ m.step \in DOMAIN log[m.from] /\ m.commit = log[m.from][m.step]
    /\ IF m.from = "police" THEN m.answer = "none" /\ ~m.win
                            ELSE m.barrier = None /\ m.claim = None
    /\ m.win => m.step >= SurvivalThreshold

\* Turns so counted that the peer to move has taken as many as it has seen.
Turns(r) == IF r = "thief" THEN Len(log[r]) ELSE Len(log[r]) + 1

InPhase(r) ==
    /\ Turns(r) \in {LastStep(r), LastStep(r) + 1}
    /\ fsm[r] = "MY_TURN" => Turns(r) = LastStep(r)
    /\ fsm[r] \in {"SENDING", "OPP_TURN"} => Turns(r) = LastStep(r) + 1

\* The police's message m is the one thing the thief has yet to learn.
Missing(m) ==
    /\ walls["police"] = walls["thief"] \cup ({m.barrier} \ {None})
    /\ m.barrier \notin walls["thief"]
    /\ placed["police"] = IF m.barrier = None THEN oppPlaced["thief"]
                                              ELSE oppPlaced["thief"] + 1

Unread(m) == m.from = "police" /\ m.step = Len(log["police"])
             /\ LastStep("thief") < Len(log["police"])

\* Only what was sealed is under way, every peer is in its phase, and the two
\* barrier maps differ by the turn the thief has not read yet, if there is one.
OrderInv ==
    /\ \A m \in InTransit : m # Garbage /\ Genuine(m)
    /\ \A r \in Roles : \A i \in DOMAIN turns[r] : turns[r][i].from = Opp(r)
    /\ SeenIsPrefix
    /\ \A r \in Roles : InPhase(r)
    /\ \A m \in InTransit : Unread(m) => Missing(m)
    /\ LastStep("thief") = Len(log["police"]) =>
           walls["police"] = walls["thief"] /\ placed["police"] = oppPlaced["thief"]
    /\ due["police"] = "none"
    /\ NoHonestBreach

\* An honest trail: every log is a walk that ends where its peer stands, and
\* what lies in an audit inbox is the complete log of an opponent that is past
\* its last turn.
AuditInv ==
    /\ \A r \in Roles : \A i \in DOMAIN log[r] :
           /\ i > 1 => Distance(log[r][i - 1].pos, log[r][i].pos) <= 1
           /\ i = Len(log[r]) => log[r][i].pos = pos[r]
    /\ \A r \in Roles : \A i \in DOMAIN audits[r] :
           audits[r][i] = log[Opp(r)] /\ fsm[Opp(r)] \in {"AUDITING", "DONE"}
    /\ NoFalseForgery

-----------------------------------------------------------------------------
(* Why what is reported was earned: what PeerGameEndings proves invariant. *)

InPlay(r) == fsm[r] \in {"MY_TURN", "SENDING", "OPP_TURN"}

\* What a message says of its step is what the step did on the one board: the
\* thief concedes exactly when the police's last step caught it and claims the
\* win exactly when it has earned it, the police claims the cell it moved to
\* and declares a barrier exactly when it built one.
Truthful(m) ==
    IF m.from = "thief"
      THEN /\ m.answer = "caught" <=> Game!CaughtAt(m.step - 1)
           /\ m.win <=> m.answer # "caught" /\ m.step >= SurvivalThreshold
      ELSE LET rec == Game!After("police", m.step)
               was == Game!After("police", m.step - 1)
           IN  /\ m.claim = IF rec.pos # was.pos THEN rec.pos ELSE None
               /\ m.barrier # None <=> rec.walls # was.walls

\* Each peer's own state is what its last record says.
Standing ==
    /\ \A r \in Roles : Game!Now(r).pos = pos[r]
    /\ Game!Now("police").walls = walls["police"]
    /\ IsFiniteSet(walls["police"]) /\ Cardinality(walls["police"]) = placed["police"]
    /\ walls["thief"] \subseteq walls["police"]

\* The thief owes a concession, is sending it or has left the game.
Yielding == \/ fsm["thief"] = "MY_TURN" /\ due["thief"] = "caught"
            \/ fsm["thief"] = "SENDING" /\ call["thief"].msg.answer = "caught"
            \/ ~InPlay("thief")

\* Who is to move may move, and nobody who is caught or has won plays on.
MoveInv ==
    /\ \A r \in Roles : InPlay(r) => result[r] = "pending"
    /\ \A r \in Roles : fsm[r] = "SENDING" =>
           call[r].msg.from = r /\ call[r].msg.step = Len(log[r])
    /\ fsm["thief"] = "MY_TURN" =>
           /\ due["thief"] = "caught" <=> Game!Caught
           /\ Game!Caught \/ Len(log["police"]) < MaxMoves
    /\ fsm["police"] = "MY_TURN" =>
           ~Game!Caught /\ Len(log["thief"]) < SurvivalThreshold
    /\ fsm["thief"] = "OPP_TURN" =>
           Game!ThiefToStep \/ (~Game!Caught /\ Len(log["thief"]) < SurvivalThreshold)
    /\ fsm["police"] = "OPP_TURN" => Len(log["police"]) < MaxMoves
    /\ pos["thief"] \in walls["thief"] => Yielding

TruthInv == (\A m \in InTransit : Truthful(m)) /\ Standing /\ MoveInv

\* What is reported was earned, the police makes no move after it caught the
\* thief or the thief has won, and a caught thief stays where it was caught.
EarnedInv ==
    /\ \A r \in Roles : result[r] # "pending" => Game!Earned(result[r])
    /\ \A n \in 1 .. Len(log["police"]) : Game!CaughtAt(n) => n = Len(log["police"])
    /\ Len(log["police"]) < SurvivalThreshold
    /\ Game!Caught => Game!After("thief", Len(log["police"])).pos = pos["thief"]

\* A thief that plays on can still leave its cell.
FreeInv == Jailed(pos["thief"], walls["thief"]) => Yielding

\* Whatever arrives, the police counts its own steps and owes no answer.
CountInv ==
    /\ IsFiniteSet(walls["thief"]) /\ WallsAccounted /\ SurvivalCounted
    /\ due["police"] = "none"
    /\ fsm["police"] = "SENDING" =>
           LET m == call["police"].msg
           IN  m.answer = "none" /\ ~m.win /\ m.step = Len(log["police"])

\* What a peer holds of the other's log is all of it, and final.
LearnedInv ==
    \A r \in Roles :
        /\ ~InPlay(r) => result[r] # "pending"
        /\ verdict[r] # "open" => fsm[r] = "DONE"
        /\ verdict[r] = "passed" => theirs[r] = log[Opp(r)] /\ ~InPlay(Opp(r))
        /\ theirs[r] # <<>> => verdict[r] = "passed"

\* Without a fault nothing is lost, so nobody waits in vain.
Brings(m, r) == m.from = Opp(r) /\ m.step = Len(log[Opp(r)])
Underway(r) == \/ \E c \in wire : Brings(c.msg, r)
               \/ \E i \in DOMAIN turns[r] : Brings(turns[r][i], r)

\* What is sealed is read or under way, and an attempt answered or pending.
Carried(r) == /\ LastStep(r) < Len(log[Opp(r)]) => Underway(r)
              /\ fsm[r] = "SENDING" => call[r].ack \/ Pending(r)

\* Nobody loses for want of a message, and whoever reveals is heard.
Heard(r) == /\ result[r] # "technical_loss"
            /\ fsm[r] = "DONE" => verdict[r] = "passed"
            /\ fsm[r] # "DONE" /\ fsm[Opp(r)] \in {"AUDITING", "DONE"} => audits[r] # <<>>

FaultFreeInv == faults = 0 => \A r \in Roles : Carried(r) /\ Heard(r)

=============================================================================
