--------------------------- MODULE PeerGameProofs ---------------------------
(***************************************************************************)
(* Theorems about PeerGame for every board, quota, ceiling, threshold and  *)
(* number of faults: the type of every variable, and the order of the turn *)
(* exchange on a network that loses, delays and repeats requests.  The     *)
(* theorems on order assume that no message of another sub-game arrives    *)
(* (Strays = {}); everything else is arbitrary.  Induction on OrderInv: a  *)
(* step either sends nothing new and lets nobody move (Quiet), or is a     *)
(* turn taken (TakeTurn), or a turn applied (Fold).                        *)
(***************************************************************************)
EXTENDS PeerGame, TLAPS

USE BoardAssumption, PeerGameAssumption

-----------------------------------------------------------------------------
(* What the guard lets through.                                            *)

\* The fallback is one of the legal moves, or a hold.
LEMMA FallbackLegal ==
    ASSUME NEW r \in Roles, NEW a \in Fallback(r)
    PROVE  \/ a = Hold
           \/ a.type = "MOVE" /\ a.dir \in Directions /\ CanStep(pos[r], a.dir, walls[r])
<1>1. \A d \in FirstLegal(pos[r], walls[r]) :
        d \in Directions /\ CanStep(pos[r], d, walls[r])
  BY DEF FirstLegal
<1>2. QED
  BY <1>1 DEF Fallback

\* Rule 5: whatever the brain answers, what is played is a hold, a legal move
\* or, for the police within its quota, a legal barrier.
LEMMA GuardLegal ==
    ASSUME NEW r \in Roles, NEW a \in Plays(r)
    PROVE  \/ a = Hold
           \/ a.type = "MOVE" /\ a.dir \in Directions /\ CanStep(pos[r], a.dir, walls[r])
           \/ a.type = "BARRIER" /\ a.dir \in Directions /\ CanBuild(r, a.dir)
<1>1. ASSUME NEW b \in Decisions, a \in Guard(r, b)
      PROVE  \/ a = Hold
             \/ a.type = "MOVE" /\ a.dir \in Directions /\ CanStep(pos[r], a.dir, walls[r])
             \/ a.type = "BARRIER" /\ a.dir \in Directions /\ CanBuild(r, a.dir)
  <2>1. CASE b.type # "BARRIER" /\ b.dir = "STAY"
    BY <1>1, <2>1 DEF Guard
  <2>2. CASE /\ ~(b.type # "BARRIER" /\ b.dir = "STAY")
             /\ \/ b.type = "MOVE" /\ CanStep(pos[r], b.dir, walls[r])
                \/ b.type = "BARRIER" /\ CanBuild(r, b.dir)
    BY <1>1, <2>2 DEF Guard, Decisions, Hold
  <2>3. CASE /\ ~(b.type # "BARRIER" /\ b.dir = "STAY")
             /\ ~(b.type = "MOVE" /\ CanStep(pos[r], b.dir, walls[r]))
             /\ ~(b.type = "BARRIER" /\ CanBuild(r, b.dir))
    <3>1. a \in Fallback(r)
      BY <1>1, <2>3 DEF Guard
    <3>2. QED
      BY <3>1, FallbackLegal
  <2>4. QED
    BY <2>1, <2>2, <2>3
<1>2. CASE due[r] = "caught"
  BY <1>2 DEF Plays
<1>3. CASE due[r] # "caught"
  BY <1>1, <1>3 DEF Plays
<1>4. QED
  BY <1>2, <1>3

LEMMA BuildInReach ==
    ASSUME NEW r \in Roles, NEW d \in Directions, pos[r] \in Cells, CanBuild(r, d)
    PROVE  /\ Shift(pos[r], d) \in Cells \ walls[r]
           /\ r = "police" /\ placed[r] < MaxBarriers
  BY DEF CanBuild, BarrierOptions, CanStep

\* What one play may do to the peer that plays it.
LEMMA PlayLegal ==
    ASSUME NEW r \in Roles, NEW a \in Plays(r), pos[r] \in Cells
    PROVE  /\ a.type \in {"HOLD", "MOVE", "BARRIER"}
           /\ a.type = "MOVE" => a.dir \in Directions /\ CanStep(pos[r], a.dir, walls[r])
           /\ a.type = "BARRIER" => /\ a.dir \in Directions
                                   /\ Shift(pos[r], a.dir) \in Cells \ walls[r]
                                   /\ r = "police" /\ placed[r] < MaxBarriers
<1>1. CASE a = Hold
  BY <1>1 DEF Hold
<1>2. CASE a.type = "MOVE" /\ a.dir \in Directions /\ CanStep(pos[r], a.dir, walls[r])
  BY <1>2
<1>3. CASE a.type = "BARRIER" /\ a.dir \in Directions /\ CanBuild(r, a.dir)
  <2>1. Shift(pos[r], a.dir) \in Cells \ walls[r] /\ r = "police" /\ placed[r] < MaxBarriers
    BY <1>3, BuildInReach
  <2>2. QED
    BY <1>3, <2>1
<1>4. QED
  BY <1>1, <1>2, <1>3, GuardLegal

-----------------------------------------------------------------------------
(* Type correctness.                                                       *)

\* A peer is in SENDING only while a receive_turn call is open.
CallOpen == \A r \in Roles : fsm[r] = "SENDING" => call[r] \in Calls

TypeInv == TypeOK /\ CallOpen

LEMMA ComposeType ==
    ASSUME TypeOK, NEW r \in Roles, NEW a \in Plays(r), NEW rec \in Records
    PROVE  Compose(r, a, rec) \in TurnMessages
<1>1. Len(log[r]) + 1 \in Nat
  BY DEF TypeOK
<1>2. a.type = "BARRIER" => Shift(pos[r], a.dir) \in Cells
  BY PlayLegal DEF TypeOK
<1>3. rec.pos \in Cells
  BY DEF Records
<1>4. due[r] \in Answers
  BY DEF TypeOK
<1>5. QED
  BY <1>1, <1>2, <1>3, <1>4 DEF Compose, TurnMessages

\* The state and the message one turn produces are well typed.
LEMMA TurnType ==
    ASSUME TypeOK, NEW r \in Roles, NEW a \in Plays(r),
           NEW built, built = IF a.type = "BARRIER" THEN {Shift(pos[r], a.dir)} ELSE {}
    PROVE  /\ [pos |-> IF a.type = "MOVE" THEN Shift(pos[r], a.dir) ELSE pos[r],
               walls |-> walls[r] \cup built] \in Records
           /\ (IF built = {} THEN placed[r] ELSE placed[r] + 1) \in 0 .. MaxBarriers
<1>1. pos[r] \in Cells /\ walls[r] \in SUBSET Cells /\ placed[r] \in 0 .. MaxBarriers
  BY DEF TypeOK
<1>2. a.type = "MOVE" => Shift(pos[r], a.dir) \in Cells
  BY <1>1, PlayLegal DEF CanStep
<1>3. a.type = "BARRIER" => Shift(pos[r], a.dir) \in Cells /\ placed[r] < MaxBarriers
  BY <1>1, PlayLegal
<1>4. built \in SUBSET Cells
  BY <1>3
<1>5. QED
  BY <1>1, <1>2, <1>3, <1>4 DEF Records

LEMMA InitType == Init => TypeInv
<1> SUFFICES ASSUME Init PROVE TypeInv
  OBVIOUS
<1>1. \A r \in Roles : Start(r) \in Cells /\ FirstState(r) \in {"MY_TURN", "OPP_TURN"}
  BY DEF Start, FirstState, Roles
<1>2. CallOpen
  BY <1>1 DEF Init, CallOpen
<1>3. TypeOK
  BY <1>1 DEF Init, TypeOK, States, Results, Answers
<1>4. QED
  BY <1>2, <1>3 DEF TypeInv

LEMMA TakeTurnType ==
    ASSUME TypeInv, NEW r \in Roles, TakeTurn(r)
    PROVE  TypeInv'
<1> USE DEF TypeInv, own, gate, net, ending, env
<1>1. PICK a \in Plays(r) :
        LET built == IF a.type = "BARRIER" THEN {Shift(pos[r], a.dir)} ELSE {}
            rec == [pos |-> IF a.type = "MOVE" THEN Shift(pos[r], a.dir) ELSE pos[r],
                    walls |-> walls[r] \cup built]
            m == Compose(r, a, rec)
        IN  /\ pos' = [pos EXCEPT ![r] = rec.pos]
            /\ walls' = [walls EXCEPT ![r] = rec.walls]
            /\ placed' = [placed EXCEPT ![r] = IF built = {} THEN @ ELSE @ + 1]
            /\ log' = [log EXCEPT ![r] = Append(@, rec)]
            /\ call' = [call EXCEPT ![r] = [msg |-> m, try |-> 1, ack |-> FALSE]]
            /\ wire' = wire \cup {Copy(m, 1)}
  BY DEF TakeTurn
<1> DEFINE built == IF a.type = "BARRIER" THEN {Shift(pos[r], a.dir)} ELSE {}
           rec == [pos |-> IF a.type = "MOVE" THEN Shift(pos[r], a.dir) ELSE pos[r],
                   walls |-> walls[r] \cup built]
           m == Compose(r, a, rec)
<1>2. rec \in Records /\ (IF built = {} THEN placed[r] ELSE placed[r] + 1) \in 0 .. MaxBarriers
  BY TurnType
<1>3. m \in TurnMessages
  BY <1>2, ComposeType
<1>4. rec.pos \in Cells /\ rec.walls \in SUBSET Cells
  BY <1>2 DEF Records
<1>5. [msg |-> m, try |-> 1, ack |-> FALSE] \in Calls /\ Copy(m, 1) \in Copies
  BY <1>3 DEF Calls, Copies, Copy
<1> HIDE DEF built, rec, m
<1>6. /\ pos' \in [Roles -> Cells]
      /\ walls' \in [Roles -> SUBSET Cells]
      /\ placed' \in [Roles -> 0 .. MaxBarriers]
  BY <1>1, <1>2, <1>4 DEF TypeOK, built, rec
<1>7. log' \in [Roles -> Seq(Records)]
  BY <1>1, <1>2 DEF TypeOK, built, rec
<1>8. /\ call' \in [Roles -> Calls \cup {None}]
      /\ wire' \in SUBSET Copies
      /\ call'[r] \in Calls /\ \A q \in Roles : q # r => call'[q] = call[q]
  BY <1>1, <1>5 DEF TypeOK, built, rec, m
<1>9. /\ fsm' \in [Roles -> States] /\ \A q \in Roles : q # r => fsm'[q] = fsm[q]
      /\ result' \in [Roles -> Results]
      /\ due' \in [Roles -> Answers]
  BY DEF TypeOK, TakeTurn, Goes, States, Answers
<1>10. UNCHANGED <<seen, oppPlaced, breaches, turns, audits, theirs, verdict, faults, strayed>>
  BY DEF TakeTurn
<1>11. CallOpen'
  BY <1>8, <1>9 DEF CallOpen
<1>12. QED
  BY <1>6, <1>7, <1>8, <1>9, <1>10, <1>11 DEF TypeOK

\* A peer that ends or moves on keeps both control variables typed, and is no
\* longer sending unless it says so.
LEMMA EndsType ==
    ASSUME TypeOK, NEW r \in Roles, NEW o \in Results, Ends(r, o)
    PROVE  /\ fsm' \in [Roles -> States] /\ result' \in [Roles -> Results]
           /\ fsm'[r] = "GAME_OVER" /\ \A q \in Roles : q # r => fsm'[q] = fsm[q]
  BY DEF TypeOK, Ends, States

LEMMA GoesType ==
    ASSUME TypeOK, NEW r \in Roles, NEW s \in States, Goes(r, s)
    PROVE  /\ fsm' \in [Roles -> States] /\ result' \in [Roles -> Results]
           /\ fsm'[r] = s /\ \A q \in Roles : q # r => fsm'[q] = fsm[q]
  BY DEF TypeOK, Goes

\* The two faults that carry no state of their own.
LEMMA AbandonType ==
    ASSUME TypeInv, NEW r \in Roles, BrainRaises(r) \/ TurnTimeout(r)
    PROVE  TypeInv'
<1>1. Ends(r, "technical_loss") /\ "technical_loss" \in Results
  BY DEF BrainRaises, TurnTimeout, Results
<1>2. UNCHANGED <<own, gate, net, ending>> /\ (Fault \/ UNCHANGED env)
  BY DEF BrainRaises, TurnTimeout
<1>3. faults' \in 0 .. MaxFaults /\ strayed' \in 0 .. MaxStrays
  BY <1>2 DEF TypeInv, TypeOK, Fault, env
<1>4. CallOpen'
  BY <1>1, <1>2, EndsType DEF TypeInv, CallOpen, net
<1>5. QED
  BY <1>1, <1>2, <1>3, <1>4, EndsType DEF TypeInv, TypeOK, own, gate, net, ending

LEMMA SendReturnsType ==
    ASSUME TypeInv, NEW r \in Roles, SendReturns(r)
    PROVE  TypeInv'
<1>1. /\ fsm' \in [Roles -> States] /\ result' \in [Roles -> Results]
      /\ fsm'[r] # "SENDING" /\ \A q \in Roles : q # r => fsm'[q] = fsm[q]
  <2>1. \/ Ends(r, "capture") \/ Ends(r, "survival") \/ Goes(r, "OPP_TURN")
    BY DEF SendReturns
  <2>2. {"capture", "survival"} \subseteq Results /\ "OPP_TURN" \in States
    BY DEF Results, States
  <2>3. QED
    BY <2>1, <2>2, EndsType, GoesType DEF TypeInv
<1>2. call' \in [Roles -> Calls \cup {None}] /\ \A q \in Roles : q # r => call'[q] = call[q]
  BY DEF SendReturns, TypeInv, TypeOK
<1>3. CallOpen'
  BY <1>1, <1>2 DEF TypeInv, CallOpen
<1>4. QED
  BY <1>1, <1>2, <1>3 DEF SendReturns, TypeInv, TypeOK, own, gate, ending, env

LEMMA RetryType ==
    ASSUME TypeInv, NEW r \in Roles, Retry(r)
    PROVE  TypeInv'
<1>1. /\ call[r] \in Calls /\ call[r].try + 1 \in 1 .. MaxTries
      /\ call[r].msg \in TurnMessages
  BY DEF Retry, AttemptFails, TypeInv, CallOpen, Calls
<1>2. Copy(call[r].msg, call[r].try + 1) \in Copies
  BY <1>1 DEF Copy, Copies
<1>3. [call[r] EXCEPT !.try = call[r].try + 1, !.ack = FALSE] \in Calls
  BY <1>1 DEF Calls
<1>4. call' = [call EXCEPT ![r] = [call[r] EXCEPT !.try = call[r].try + 1, !.ack = FALSE]]
  BY <1>1 DEF Retry, TypeInv, TypeOK, Calls
<1>5. call' \in [Roles -> Calls \cup {None}] /\ CallOpen'
  <2>1. fsm' = fsm
    BY DEF Retry
  <2>2. call \in [Roles -> Calls \cup {None}] /\ CallOpen
    BY DEF TypeInv, TypeOK
  <2>3. /\ call' \in [Roles -> Calls \cup {None}]
        /\ call'[r] \in Calls /\ \A q \in Roles : q # r => call'[q] = call[q]
    BY <1>3, <1>4, <2>2
  <2>4. QED
    BY <2>1, <2>2, <2>3 DEF CallOpen
<1>6. wire' \in SUBSET Copies
  BY <1>2 DEF Retry, TypeInv, TypeOK
<1>7. faults' \in 0 .. MaxFaults /\ strayed' \in 0 .. MaxStrays
  BY SMTT(30) DEF Retry, AttemptFails, TypeInv, TypeOK, Fault, env
<1>8. QED
  BY <1>5, <1>6, <1>7 DEF Retry, TypeInv, TypeOK, own, gate, ending

LEMMA GiveUpType ==
    ASSUME TypeInv, NEW r \in Roles, GiveUp(r)
    PROVE  TypeInv'
<1>1. /\ fsm' \in [Roles -> States] /\ result' \in [Roles -> Results]
      /\ fsm'[r] # "SENDING" /\ \A q \in Roles : q # r => fsm'[q] = fsm[q]
  BY EndsType DEF GiveUp, TypeInv, Results
<1>2. call' \in [Roles -> Calls \cup {None}] /\ \A q \in Roles : q # r => call'[q] = call[q]
  BY DEF GiveUp, TypeInv, TypeOK
<1>3. CallOpen'
  BY <1>1, <1>2 DEF TypeInv, CallOpen
<1>4. faults' \in 0 .. MaxFaults /\ strayed' \in 0 .. MaxStrays
  BY SMTT(30) DEF GiveUp, AttemptFails, TypeInv, TypeOK, Fault, env
<1>5. QED
  BY <1>1, <1>2, <1>3, <1>4 DEF GiveUp, TypeInv, TypeOK, own, gate, ending

LEMMA DeliverType ==
    ASSUME TypeInv, NEW c \in wire, Deliver(c)
    PROVE  TypeInv'
<1> DEFINE s == c.msg.from
<1>1. c.msg \in TurnMessages /\ s \in Roles /\ Opp(s) \in Roles
  BY DEF TypeInv, TypeOK, Copies, TurnMessages, Opp, Roles
<1>2. turns' \in [Roles -> Seq(TurnMessages \cup {Garbage})]
  <2>1. turns \in [Roles -> Seq(TurnMessages \cup {Garbage})]
    BY DEF TypeInv, TypeOK
  <2>2. Append(turns[Opp(s)], c.msg) \in Seq(TurnMessages \cup {Garbage})
    BY <1>1, <2>1
  <2>3. turns' = [turns EXCEPT ![Opp(s)] = Append(turns[Opp(s)], c.msg)]
    BY DEF Deliver
  <2>4. QED
    BY <2>1, <2>2, <2>3
<1>3. call[s] # None => [call[s] EXCEPT !.ack = TRUE] \in Calls
  BY <1>1 DEF TypeInv, TypeOK, Calls
<1>4. call' = call \/ (call[s] # None /\ call' = [call EXCEPT ![s] = [call[s] EXCEPT !.ack = TRUE]])
  BY <1>1 DEF Deliver
<1>5. call' \in [Roles -> Calls \cup {None}]
  BY <1>1, <1>3, <1>4 DEF TypeInv, TypeOK
<1>6. CallOpen'
  BY <1>1, <1>3, <1>4 DEF Deliver, TypeInv, TypeOK, CallOpen
<1>7. QED
  BY <1>2, <1>5, <1>6 DEF Deliver, TypeInv, TypeOK, own, gate, ending, env

LEMMA LoseType ==
    ASSUME TypeInv, NEW c \in wire, Lose(c)
    PROVE  TypeInv'
  BY DEF TypeInv, TypeOK, CallOpen, Lose, Fault, own, gate, ending

LEMMA StrayType ==
    ASSUME TypeInv, NEW r \in Roles, Stray(r)
    PROVE  TypeInv'
<1>1. turns' \in [Roles -> Seq(TurnMessages \cup {Garbage})]
  BY SMTT(30) DEF Stray, TypeInv, TypeOK
<1>2. QED
  BY <1>1, SMTT(30) DEF Stray, TypeInv, TypeOK, CallOpen, own, gate, ending

\* A message at the head of an inbox.
LEMMA HeadType ==
    ASSUME TypeInv, NEW r \in Roles, Reads(r)
    PROVE  /\ Head(turns[r]) \in TurnMessages \cup {Garbage}
           /\ Tail(turns[r]) \in Seq(TurnMessages \cup {Garbage})
           /\ fsm[r] = "OPP_TURN"
  BY DEF TypeInv, TypeOK, Reads

LEMMA PopType ==
    ASSUME TypeInv, NEW r \in Roles, Reads(r), Pop(r)
    PROVE  turns' \in [Roles -> Seq(TurnMessages \cup {Garbage})]
  BY HeadType DEF TypeInv, TypeOK, Pop

LEMMA FoldType ==
    ASSUME TypeInv, NEW r \in Roles, Reads(r), NEW m, m = Head(turns[r]), Fresh(r, m), Fold(r, m)
    PROVE  /\ walls' \in [Roles -> SUBSET Cells]
           /\ seen' \in [Roles -> Seq(Records)]
           /\ oppPlaced' \in [Roles -> 0 .. MaxBarriers]
           /\ breaches' \in [Roles -> Nat]
           /\ turns' \in [Roles -> Seq(TurnMessages \cup {Garbage})]
<1>1. m \in TurnMessages
  BY HeadType DEF Fresh
<1>2. m.commit \in Records /\ {m.barrier} \ {None} \subseteq Cells
  BY <1>1 DEF TurnMessages
<1>3. m.barrier # None => oppPlaced[r] < MaxBarriers
  BY DEF Fresh, Valid
<1>4. walls' \in [Roles -> SUBSET Cells]
  BY <1>2 DEF Fold, TypeInv, TypeOK
<1>5. seen' \in [Roles -> Seq(Records)]
  BY <1>2 DEF Fold, TypeInv, TypeOK
<1>6. oppPlaced' \in [Roles -> 0 .. MaxBarriers]
  BY <1>3 DEF Fold, TypeInv, TypeOK
<1>7. breaches' \in [Roles -> Nat]
  BY DEF Fold, TypeInv, TypeOK
<1>8. QED
  BY <1>4, <1>5, <1>6, <1>7, PopType DEF Fold

LEMMA AcceptType ==
    ASSUME TypeInv, NEW r \in Roles, Accept(r)
    PROVE  TypeInv'
<1> DEFINE m == Head(turns[r])
<1>1. Reads(r) /\ Fresh(r, m) /\ Fold(r, m)
  BY DEF Accept
<1>2. /\ fsm' \in [Roles -> States] /\ result' \in [Roles -> Results]
      /\ fsm'[r] # "SENDING" /\ \A q \in Roles : q # r => fsm'[q] = fsm[q]
  <2>1. \/ Ends(r, "capture") \/ Ends(r, "survival") \/ Goes(r, "MY_TURN")
    BY DEF Accept
  <2>2. {"capture", "survival"} \subseteq Results /\ "MY_TURN" \in States
    BY DEF Results, States
  <2>3. QED
    BY <2>1, <2>2, EndsType, GoesType DEF TypeInv
<1>3. due' \in [Roles -> Answers]
  <2>1. \E ans \in Answers : due' = [due EXCEPT ![r] = ans]
    BY DEF Accept, Answer, Answers
  <2>2. QED
    BY <2>1 DEF TypeInv, TypeOK
<1>4. CallOpen'
  BY <1>1, <1>2 DEF TypeInv, CallOpen, Fold
<1>5. QED
  BY <1>1, <1>2, <1>3, <1>4, FoldType DEF Accept, Fold, TypeInv, TypeOK, ending, env

LEMMA BeliefRaisesType ==
    ASSUME TypeInv, NEW r \in Roles, BeliefRaises(r)
    PROVE  TypeInv'
<1> DEFINE m == Head(turns[r])
<1>1. Reads(r) /\ Fresh(r, m) /\ Fold(r, m)
  BY DEF BeliefRaises
<1>2. /\ fsm' \in [Roles -> States] /\ result' \in [Roles -> Results]
      /\ fsm'[r] # "SENDING" /\ \A q \in Roles : q # r => fsm'[q] = fsm[q]
  BY EndsType DEF BeliefRaises, TypeInv, Results
<1>3. faults' \in 0 .. MaxFaults /\ strayed' \in 0 .. MaxStrays
  BY DEF BeliefRaises, Fault, TypeInv, TypeOK
<1>4. CallOpen'
  BY <1>1, <1>2 DEF TypeInv, CallOpen, Fold
<1>5. QED
  BY <1>1, <1>2, <1>3, <1>4, FoldType DEF BeliefRaises, Fold, TypeInv, TypeOK, ending

LEMMA DropType ==
    ASSUME TypeInv, NEW r \in Roles, DropDuplicate(r)
    PROVE  TypeInv'
<1>1. turns' \in [Roles -> Seq(TurnMessages \cup {Garbage})]
  BY PopType DEF DropDuplicate
<1>2. QED
  BY <1>1 DEF DropDuplicate, TypeInv, TypeOK, CallOpen, own, gate, ending, env

LEMMA RejectType ==
    ASSUME TypeInv, NEW r \in Roles, Reject(r)
    PROVE  TypeInv'
<1>1. turns' \in [Roles -> Seq(TurnMessages \cup {Garbage})]
  BY PopType DEF Reject
<1>2. breaches' \in [Roles -> Nat]
  BY DEF Reject, TypeInv, TypeOK
<1>3. Ends(r, "technical_loss") \/ UNCHANGED <<fsm, result>>
  BY DEF Reject
<1>4. /\ fsm' \in [Roles -> States] /\ result' \in [Roles -> Results]
      /\ \A q \in Roles : fsm'[q] = "SENDING" => fsm[q] = "SENDING"
  BY <1>3, EndsType DEF TypeInv, TypeOK, Results
<1>5. CallOpen'
  BY <1>4 DEF Reject, TypeInv, CallOpen
<1>6. QED
  BY <1>1, <1>2, <1>4, <1>5 DEF Reject, TypeInv, TypeOK, own, ending, env

LEMMA RevealType ==
    ASSUME TypeInv, NEW r \in Roles, Reveal(r)
    PROVE  TypeInv'
<1>1. /\ fsm' \in [Roles -> States] /\ result' \in [Roles -> Results]
      /\ fsm'[r] # "SENDING" /\ \A q \in Roles : q # r => fsm'[q] = fsm[q]
  BY GoesType DEF Reveal, TypeInv, States
<1>2. log[r] \in Seq(Records) /\ Opp(r) \in Roles
  BY DEF TypeInv, TypeOK, Opp, Roles
<1>3. audits[Opp(r)] \o <<log[r], log[r]>> \in Seq(Seq(Records))
  BY <1>2 DEF TypeInv, TypeOK
<1>4. audits' \in [Roles -> Seq(Seq(Records))]
  <2>1. audits \in [Roles -> Seq(Seq(Records))]
    BY DEF TypeInv, TypeOK
  <2>2. Append(audits[Opp(r)], log[r]) \in Seq(Seq(Records))
    BY <1>2, <2>1
  <2>3. \/ audits' = [audits EXCEPT ![Opp(r)] = Append(audits[Opp(r)], log[r])]
        \/ audits' = audits
        \/ audits' = [audits EXCEPT ![Opp(r)] = audits[Opp(r)] \o <<log[r], log[r]>>]
    BY DEF Reveal
  <2>4. QED
    BY <1>3, <2>1, <2>2, <2>3
<1>5. faults' \in 0 .. MaxFaults /\ strayed' \in 0 .. MaxStrays
  <2>1. Fault \/ UNCHANGED env
    BY DEF Reveal
  <2>2. QED
    BY <2>1 DEF Fault, env, TypeInv, TypeOK
<1>6. CallOpen'
  BY <1>1 DEF Reveal, TypeInv, CallOpen, net
<1>7. QED
  BY <1>1, <1>4, <1>5, <1>6 DEF Reveal, TypeInv, TypeOK, own, gate, net

LEMMA ReadAuditType ==
    ASSUME TypeInv, NEW r \in Roles, ReadAudit(r)
    PROVE  TypeInv'
<1>1. Head(audits[r]) \in Seq(Records) /\ Tail(audits[r]) \in Seq(Seq(Records))
  BY DEF ReadAudit, TypeInv, TypeOK
<1>2. /\ audits' \in [Roles -> Seq(Seq(Records))]
      /\ theirs' \in [Roles -> Seq(Records)]
  BY <1>1 DEF ReadAudit, TypeInv, TypeOK
<1>3. /\ verdict' \in [Roles -> {"open", "passed", "forged", "absent"}]
      /\ result' \in [Roles -> Results]
  BY DEF ReadAudit, TypeInv, TypeOK, Results
<1>4. fsm' \in [Roles -> States] /\ CallOpen'
  BY DEF ReadAudit, TypeInv, TypeOK, CallOpen, States, net
<1>5. QED
  BY <1>2, <1>3, <1>4 DEF ReadAudit, TypeInv, TypeOK, own, gate, net, env

LEMMA AuditTimeoutType ==
    ASSUME TypeInv, NEW r \in Roles, AuditTimeout(r)
    PROVE  TypeInv'
<1>1. /\ fsm' \in [Roles -> States] /\ result' \in [Roles -> Results]
      /\ fsm'[r] # "SENDING" /\ \A q \in Roles : q # r => fsm'[q] = fsm[q]
  BY GoesType DEF AuditTimeout, TypeInv, States
<1>2. verdict' \in [Roles -> {"open", "passed", "forged", "absent"}]
  BY DEF AuditTimeout, TypeInv, TypeOK
<1>3. faults' \in 0 .. MaxFaults /\ strayed' \in 0 .. MaxStrays
  BY SMTT(30) DEF AuditTimeout, Fault, env, TypeInv, TypeOK
<1>4. CallOpen'
  BY <1>1 DEF AuditTimeout, TypeInv, CallOpen, net
<1>5. QED
  BY <1>1, <1>2, <1>3, <1>4 DEF AuditTimeout, TypeInv, TypeOK, own, gate, net

LEMMA NextType == TypeInv /\ [Next]_vars => TypeInv'
<1> SUFFICES ASSUME TypeInv, [Next]_vars PROVE TypeInv'
  OBVIOUS
<1>1. ASSUME NEW r \in Roles, Peer(r) PROVE TypeInv'
  BY <1>1, TakeTurnType, AbandonType, SendReturnsType, RetryType, GiveUpType, AcceptType,
     BeliefRaisesType, DropType, RejectType, RevealType, ReadAuditType, AuditTimeoutType
     DEF Peer
<1>2. ASSUME NEW r \in Roles, Stray(r) PROVE TypeInv'
  BY <1>2, StrayType
<1>3. ASSUME NEW c \in wire, Deliver(c) \/ Lose(c) PROVE TypeInv'
  BY <1>3, DeliverType, LoseType
<1>4. CASE UNCHANGED vars
  BY <1>4 DEF TypeInv, TypeOK, CallOpen, vars, own, gate, net, ending, env
<1>5. QED
  BY <1>1, <1>2, <1>3, <1>4 DEF Next, Finished

\* Every variable keeps its type, whatever the network does and whatever
\* stray messages it delivers.
THEOREM TypeCorrect == Spec => []TypeOK
<1>1. TypeInv => TypeOK
  BY DEF TypeInv
<1>2. Spec => []TypeInv
  BY InitType, NextType, PTL DEF Spec
<1>3. QED
  BY <1>1, <1>2, PTL

-----------------------------------------------------------------------------
(* The turn exchange stays in order.                                       *)

OnlyOwnMessages == Strays = {}

Addressed == \A r \in Roles : \A i \in DOMAIN turns[r] : turns[r][i].from = Opp(r)

-----------------------------------------------------------------------------
(* What is under way.                                                      *)

\* Everything that is under way is on the wire, in a call or in an inbox.
LEMMA TransitHas ==
    /\ \A c \in wire : c.msg \in InTransit
    /\ \A r \in Roles : call[r] # None => call[r].msg \in InTransit
    /\ \A r \in Roles : \A i \in DOMAIN turns[r] : turns[r][i] \in InTransit
  BY DEF InTransit

LEMMA TransitOnly ==
    ASSUME NEW S,
           \A c \in wire' : c.msg \in S,
           \A r \in Roles : call'[r] # None => call'[r].msg \in S,
           \A r \in Roles : \A i \in DOMAIN turns'[r] : turns'[r][i] \in S
    PROVE  InTransit' \subseteq S
  BY DEF InTransit

LEMMA TransitType ==
    ASSUME TypeInv, NEW m \in InTransit
    PROVE  m \in TurnMessages \cup {Garbage}
<1>1. CASE \E c \in wire : m = c.msg
  BY <1>1 DEF TypeInv, TypeOK, Copies
<1>2. CASE \E r \in Roles : call[r] # None /\ m = call[r].msg
  BY <1>2 DEF TypeInv, TypeOK, Calls
<1>3. CASE \E r \in Roles : \E i \in DOMAIN turns[r] : m = turns[r][i]
  <2>1. PICK r \in Roles : \E i \in DOMAIN turns[r] : m = turns[r][i]
    BY <1>3
  <2>2. turns[r] \in Seq(TurnMessages \cup {Garbage})
    BY DEF TypeInv, TypeOK
  <2>3. QED
    BY <2>1, <2>2
<1>4. QED
  BY <1>1, <1>2, <1>3 DEF InTransit

-----------------------------------------------------------------------------
(* The chain of steps: who has seen how much.                              *)

\* The two logs and what each side has applied of the other's never drift
\* apart by more than the one turn under way.
LEMMA Chain ==
    ASSUME TypeInv, OrderInv
    PROVE  /\ LastStep("thief") <= Len(log["police"])
           /\ Len(log["police"]) <= LastStep("police")
           /\ LastStep("police") <= Len(log["thief"])
           /\ Len(log["thief"]) <= LastStep("thief") + 1
           /\ LastStep("thief") \in Nat /\ LastStep("police") \in Nat
           /\ Len(log["thief"]) \in Nat /\ Len(log["police"]) \in Nat
<1>1. /\ log["police"] \in Seq(Records) /\ log["thief"] \in Seq(Records)
      /\ seen["police"] \in Seq(Records) /\ seen["thief"] \in Seq(Records)
  BY DEF TypeInv, TypeOK, Roles
<1>2. /\ LastStep("thief") \in Nat /\ LastStep("police") \in Nat
      /\ Len(log["thief"]) \in Nat /\ Len(log["police"]) \in Nat
  BY <1>1 DEF LastStep
<1>3. /\ LastStep("thief") <= Len(log["police"])
      /\ LastStep("police") <= Len(log["thief"])
  BY DEF OrderInv, SeenIsPrefix, LastStep, Roles, Opp
<1>4. /\ Len(log["thief"]) \in {LastStep("thief"), LastStep("thief") + 1}
      /\ Len(log["police"]) + 1 \in {LastStep("police"), LastStep("police") + 1}
  BY DEF OrderInv, InPhase, Turns, Roles
<1>5. QED
  BY <1>2, <1>3, <1>4

LEMMA InitOrder == Init => OrderInv
<1> SUFFICES ASSUME Init PROVE OrderInv
  OBVIOUS
<1>1. InTransit = {}
  BY DEF Init, InTransit, Roles
<1>2. \A r \in Roles : LastStep(r) = 0 /\ Len(log[r]) = 0 /\ turns[r] = <<>>
  BY DEF Init, LastStep
<1>3. \A r \in Roles : InPhase(r)
  BY <1>2 DEF Init, InPhase, Turns, FirstState, Roles
<1>4. SeenIsPrefix
  BY <1>2 DEF Init, SeenIsPrefix, Roles, Opp
<1>5. /\ walls["police"] = walls["thief"] /\ placed["police"] = oppPlaced["thief"]
      /\ due["police"] = "none" /\ NoHonestBreach
  BY DEF Init, NoHonestBreach, Roles
<1>6. QED
  BY <1>1, <1>2, <1>3, <1>4, <1>5 DEF OrderInv

-----------------------------------------------------------------------------
(* Steps that take and apply no turn.                                      *)

Standstill == UNCHANGED <<log, seen, walls, placed, oppPlaced, due, breaches>>

\* Control only moves on: towards the end, or from a call that returned.
Onward == \A r \in Roles : \/ fsm'[r] = fsm[r]
                           \/ fsm'[r] \in {"GAME_OVER", "AUDITING", "DONE"}
                           \/ fsm[r] = "SENDING" /\ fsm'[r] = "OPP_TURN"

LEMMA Quiet ==
    ASSUME OrderInv, Standstill, Onward, InTransit' \subseteq InTransit, Addressed'
    PROVE  OrderInv'
<1> USE DEF Standstill
<1>1. \A r \in Roles : InPhase(r)'
  BY DEF OrderInv, Onward, InPhase, Turns, LastStep
<1>2. \A m \in InTransit' : m # Garbage /\ Genuine(m)'
  BY DEF OrderInv, Genuine
<1>3. \A m \in InTransit' : Unread(m)' => Missing(m)'
  BY DEF OrderInv, Unread, Missing, LastStep
<1>4. SeenIsPrefix' /\ NoHonestBreach'
  BY DEF OrderInv, SeenIsPrefix, NoHonestBreach
<1>5. /\ due'["police"] = "none"
      /\ LastStep("thief")' = Len(log'["police"]) =>
             walls'["police"] = walls'["thief"] /\ placed'["police"] = oppPlaced'["thief"]
  BY DEF OrderInv, LastStep
<1>6. QED
  BY <1>1, <1>2, <1>3, <1>4, <1>5 DEF OrderInv, Addressed

\* A step that leaves the network alone.
LEMMA QuietAndStill ==
    ASSUME OrderInv, Standstill, Onward, UNCHANGED net
    PROVE  OrderInv'
<1>1. InTransit' \subseteq InTransit /\ Addressed'
  BY DEF OrderInv, InTransit, Addressed, net
<1>2. QED
  BY <1>1, Quiet

LEMMA EndsOnward ==
    ASSUME TypeInv, NEW r \in Roles, NEW o, Ends(r, o)
    PROVE  Onward
  BY DEF TypeInv, TypeOK, Ends, Onward

LEMMA GoesOnward ==
    ASSUME TypeInv, NEW r \in Roles, NEW s, Goes(r, s),
           s \in {"GAME_OVER", "AUDITING", "DONE"} \/ (fsm[r] = "SENDING" /\ s = "OPP_TURN")
    PROVE  Onward
  BY DEF TypeInv, TypeOK, Goes, Onward

\* Giving a turn up, the audit and a step of nobody.
LEMMA EndingOrder ==
    ASSUME TypeInv, OrderInv, NEW r \in Roles,
           BrainRaises(r) \/ TurnTimeout(r) \/ Reveal(r) \/ ReadAudit(r) \/ AuditTimeout(r)
    PROVE  OrderInv'
<1>1. Onward
  <2>1. CASE BrainRaises(r) \/ TurnTimeout(r)
    BY <2>1, EndsOnward DEF BrainRaises, TurnTimeout
  <2>2. CASE Reveal(r) \/ AuditTimeout(r)
    BY <2>2, GoesOnward DEF Reveal, AuditTimeout
  <2>3. CASE ReadAudit(r)
    BY <2>3 DEF ReadAudit, Onward, TypeInv, TypeOK
  <2>4. QED
    BY <2>1, <2>2, <2>3
<1>2. Standstill /\ UNCHANGED net
  BY DEF BrainRaises, TurnTimeout, Reveal, ReadAudit, AuditTimeout, Standstill, own, gate
<1>3. QED
  BY <1>1, <1>2, QuietAndStill

\* A call that returns, or is given up.
LEMMA CallClosedOrder ==
    ASSUME TypeInv, OrderInv, NEW r \in Roles, SendReturns(r) \/ GiveUp(r)
    PROVE  OrderInv' /\ InTransit' \subseteq InTransit
<1>1. Onward
  <2>1. CASE SendReturns(r)
    <3>1. fsm[r] = "SENDING" /\ (Ends(r, "capture") \/ Ends(r, "survival") \/ Goes(r, "OPP_TURN"))
      BY <2>1 DEF SendReturns
    <3>2. QED
      BY <3>1, EndsOnward, GoesOnward
  <2>2. CASE GiveUp(r)
    BY <2>2, EndsOnward DEF GiveUp
  <2>3. QED
    BY <2>1, <2>2
<1>2. /\ Standstill /\ wire' = wire /\ turns' = turns
      /\ call' = [call EXCEPT ![r] = None]
  BY DEF SendReturns, GiveUp, Standstill, own, gate
<1>3. \A q \in Roles : call'[q] # None => call'[q] = call[q]
  BY <1>2 DEF TypeInv, TypeOK
<1>4. InTransit' \subseteq InTransit
  BY <1>2, <1>3, TransitHas, TransitOnly
<1>5. Addressed'
  BY <1>2 DEF OrderInv, Addressed
<1>6. QED
  BY <1>1, <1>2, <1>4, <1>5, Quiet

LEMMA RetryOrder ==
    ASSUME TypeInv, OrderInv, NEW r \in Roles, Retry(r)
    PROVE  OrderInv' /\ InTransit' \subseteq InTransit
<1>1. call[r] \in Calls /\ call[r] # None
  <2>1. fsm[r] = "SENDING"
    BY DEF Retry, AttemptFails
  <2>2. call[r] \in Calls
    BY <2>1 DEF TypeInv, CallOpen
  <2>3. QED
    BY <2>2, PeerGameAssumption
<1>2. /\ Standstill /\ turns' = turns /\ fsm' = fsm
      /\ wire' = wire \cup {Copy(call[r].msg, call[r].try + 1)}
  BY DEF Retry, Standstill, own, gate
<1>3. \A q \in Roles : call'[q] # None => call[q] # None /\ call'[q].msg = call[q].msg
  BY <1>1 DEF Retry, TypeInv, TypeOK, Calls
<1>4. \A c \in wire' : c.msg \in InTransit
  BY <1>1, <1>2, TransitHas DEF Copy
<1>5. InTransit' \subseteq InTransit
  BY <1>2, <1>3, <1>4, TransitHas, TransitOnly
<1>6. Onward /\ Addressed'
  BY <1>2 DEF Onward, OrderInv, Addressed
<1>7. QED
  BY <1>2, <1>5, <1>6, Quiet

LEMMA LoseOrder ==
    ASSUME TypeInv, OrderInv, NEW c \in wire, Lose(c)
    PROVE  OrderInv' /\ InTransit' \subseteq InTransit
<1>1. /\ Standstill /\ turns' = turns /\ fsm' = fsm /\ call' = call
      /\ wire' = wire \ {c}
  BY DEF Lose, Standstill, own, gate
<1>2. InTransit' \subseteq InTransit
  BY <1>1, TransitHas, TransitOnly
<1>3. Onward /\ Addressed'
  BY <1>1 DEF Onward, OrderInv, Addressed
<1>4. QED
  BY <1>1, <1>2, <1>3, Quiet

LEMMA DeliverOrder ==
    ASSUME TypeInv, OrderInv, NEW c \in wire, Deliver(c)
    PROVE  OrderInv' /\ InTransit' \subseteq InTransit
<1> DEFINE s == c.msg.from
<1>1. c.msg \in TurnMessages /\ s \in Roles /\ Opp(s) \in Roles /\ Opp(Opp(s)) = s
  BY DEF TypeInv, TypeOK, Copies, TurnMessages, Opp, Roles
<1>2. turns \in [Roles -> Seq(TurnMessages \cup {Garbage})]
  BY DEF TypeInv, TypeOK
<1>3. /\ Standstill /\ fsm' = fsm /\ wire' \subseteq wire
      /\ turns' = [turns EXCEPT ![Opp(s)] = Append(turns[Opp(s)], c.msg)]
  BY DEF Deliver, Standstill, own, gate
<1>4. \A q \in Roles : call'[q] # None => call[q] # None /\ call'[q].msg = call[q].msg
  <2>1. call \in [Roles -> Calls \cup {None}]
    BY DEF TypeInv, TypeOK
  <2>2. \/ call' = call
        \/ call[s] # None /\ call' = [call EXCEPT ![s] = [call[s] EXCEPT !.ack = TRUE]]
    BY <1>1 DEF Deliver
  <2>3. call[s] # None => [call[s] EXCEPT !.ack = TRUE].msg = call[s].msg
    BY <1>1, <2>1 DEF Calls
  <2>4. QED
    BY <2>1, <2>2, <2>3
<1>5. \A q \in Roles : \A i \in DOMAIN turns'[q] :
        \/ i \in DOMAIN turns[q] /\ turns'[q][i] = turns[q][i]
        \/ q = Opp(s) /\ turns'[q][i] = c.msg
  <2>1. \A q \in Roles : q # Opp(s) => turns'[q] = turns[q]
    BY <1>1, <1>2, <1>3
  <2>2. turns'[Opp(s)] = Append(turns[Opp(s)], c.msg)
    BY <1>1, <1>2, <1>3
  <2>3. turns[Opp(s)] \in Seq(TurnMessages \cup {Garbage})
    BY <1>1, <1>2
  <2>4. \A i \in DOMAIN Append(turns[Opp(s)], c.msg) :
          \/ i \in DOMAIN turns[Opp(s)] /\ Append(turns[Opp(s)], c.msg)[i] = turns[Opp(s)][i]
          \/ Append(turns[Opp(s)], c.msg)[i] = c.msg
    BY <1>1, <2>3
  <2>5. QED
    BY <2>1, <2>2, <2>4
<1>6. InTransit' \subseteq InTransit
  BY <1>3, <1>4, <1>5, TransitHas, TransitOnly
<1>7. Onward /\ Addressed'
  BY <1>1, <1>3, <1>5 DEF Onward, OrderInv, Addressed
<1>8. QED
  BY <1>3, <1>6, <1>7, Quiet

-----------------------------------------------------------------------------
(* Reading the head of an inbox.                                           *)

LEMMA PopTransit ==
    ASSUME TypeInv, OrderInv, NEW r \in Roles, Reads(r), Pop(r), UNCHANGED <<call, wire>>
    PROVE  InTransit' \subseteq InTransit /\ Addressed'
<1>1. turns \in [Roles -> Seq(TurnMessages \cup {Garbage})] /\ turns[r] # <<>>
  BY DEF TypeInv, TypeOK, Reads
<1>2. turns' = [turns EXCEPT ![r] = Tail(turns[r])]
  BY DEF Pop
<1>3. \A q \in Roles : q # r => turns'[q] = turns[q]
  BY <1>1, <1>2
<1>4. turns'[r] = Tail(turns[r])
  BY <1>1, <1>2
<1>5. turns[r] \in Seq(TurnMessages \cup {Garbage})
  BY <1>1
<1>6. \A i \in DOMAIN Tail(turns[r]) : i + 1 \in DOMAIN turns[r] /\ Tail(turns[r])[i] = turns[r][i + 1]
  BY <1>1, <1>5
<1>7. \A q \in Roles : \A i \in DOMAIN turns'[q] : \E j \in DOMAIN turns[q] : turns'[q][i] = turns[q][j]
  BY <1>3, <1>4, <1>6
<1>8. InTransit' \subseteq InTransit
  BY <1>7, TransitHas, TransitOnly
<1>9. Addressed'
  BY <1>7 DEF OrderInv, Addressed
<1>10. QED
  BY <1>8, <1>9

\* What is read was sent by the opponent in this sub-game.
LEMMA HeadGenuine ==
    ASSUME TypeInv, OrderInv, NEW r \in Roles, Reads(r), NEW m, m = Head(turns[r])
    PROVE  /\ m \in InTransit /\ m \in TurnMessages /\ m # Garbage
           /\ m.from = Opp(r) /\ Genuine(m)
<1>1. turns[r] \in Seq(TurnMessages \cup {Garbage}) /\ turns[r] # <<>>
  BY DEF TypeInv, TypeOK, Reads
<1>2. 1 \in DOMAIN turns[r] /\ m = turns[r][1]
  BY <1>1
<1>3. m \in InTransit /\ m.from = Opp(r)
  BY <1>2, TransitHas DEF OrderInv
<1>4. m # Garbage /\ Genuine(m)
  BY <1>3 DEF OrderInv
<1>5. QED
  BY <1>3, <1>4, TransitType

LEMMA DropOrder ==
    ASSUME TypeInv, OrderInv, NEW r \in Roles, DropDuplicate(r)
    PROVE  OrderInv' /\ InTransit' \subseteq InTransit
<1>1. Reads(r) /\ Pop(r) /\ UNCHANGED <<call, wire>> /\ Standstill /\ Onward
  BY DEF DropDuplicate, Standstill, Onward, own, gate
<1>2. QED
  BY <1>1, PopTransit, Quiet

\* A message at the head of an inbox is at most one step ahead of its reader.
LEMMA HeadStep ==
    ASSUME TypeInv, OrderInv, NEW r \in Roles, Reads(r), NEW m, m = Head(turns[r])
    PROVE  /\ m.step \in Nat /\ LastStep(r) \in Nat /\ 1 <= m.step /\ m.step <= LastStep(r) + 1
           /\ m.step <= Len(log[Opp(r)]) /\ Len(log[Opp(r)]) <= LastStep(r) + 1
<1>1. m.step \in DOMAIN log[Opp(r)]
  BY HeadGenuine DEF Genuine
<1>2. log[Opp(r)] \in Seq(Records)
  BY DEF TypeInv, TypeOK, Roles, Opp
<1>3. m.step \in 1 .. Len(log[Opp(r)])
  BY <1>1, <1>2
<1>4. Len(log[Opp(r)]) <= LastStep(r) + 1 /\ LastStep(r) \in Nat
  BY Chain DEF Opp, Roles
<1>5. QED
  BY <1>2, <1>3, <1>4

\* No message of an honest opponent is rejected.
LEMMA RejectNever ==
    ASSUME TypeInv, OrderInv, NEW r \in Roles
    PROVE  ~Reject(r)
<1> SUFFICES ASSUME Reject(r) PROVE FALSE
  OBVIOUS
<1> DEFINE m == Head(turns[r])
<1>1. Reads(r)
  BY DEF Reject
<1>2. /\ m \in InTransit /\ m \in TurnMessages /\ m # Garbage /\ m.from = Opp(r) /\ Genuine(m)
  BY <1>1, HeadGenuine
<1>3. /\ m.step \in Nat /\ LastStep(r) \in Nat /\ 1 <= m.step /\ m.step <= LastStep(r) + 1
      /\ m.step <= Len(log[Opp(r)]) /\ Len(log[Opp(r)]) <= LastStep(r) + 1
  BY <1>1, HeadStep
<1> HIDE DEF m
<1>4. ~Equivocates(r, m)
  BY <1>2 DEF Equivocates, Genuine, OrderInv, SeenIsPrefix
<1>5. ASSUME ~Known(r, m) PROVE Valid(r, m)
  <2>1. m.step = LastStep(r) + 1
    BY <1>2, <1>3, <1>5 DEF Known
  <2>2. ASSUME m.barrier # None PROVE oppPlaced[r] < MaxBarriers /\ m.barrier \notin walls[r]
    <3>1. Opp(r) = "police" /\ r = "thief"
      BY <1>2, <2>2 DEF Genuine, Opp, Roles
    <3>2. Unread(m)
      BY <1>2, <1>3, <2>1, <3>1, Chain DEF Unread
    <3>3. Missing(m)
      BY <1>2, <3>2 DEF OrderInv
    <3>4. placed["police"] \in 0 .. MaxBarriers /\ oppPlaced["thief"] \in 0 .. MaxBarriers
      BY DEF TypeInv, TypeOK, Roles
    <3>5. MaxBarriers \in Nat
      BY PeerGameAssumption
    <3>6. QED
      BY <2>2, <3>1, <3>3, <3>4, <3>5 DEF Missing
  <2>3. QED
    BY <1>2, <2>1, <2>2 DEF Valid, Genuine
<1>6. QED
  BY <1>2, <1>4, <1>5 DEF Reject, m

-----------------------------------------------------------------------------
(* A turn applied.                                                         *)

LEMMA FoldOrder ==
    ASSUME TypeInv, OrderInv, NEW r \in Roles, Reads(r), NEW m, m = Head(turns[r]),
           Fresh(r, m), Fold(r, m), due'["police"] = "none",
           NEW s \in {"MY_TURN", "GAME_OVER"}, fsm' = [fsm EXCEPT ![r] = s]
    PROVE  OrderInv'
<1>1. /\ m \in InTransit /\ m \in TurnMessages /\ m # Garbage /\ m.from = Opp(r) /\ Genuine(m)
      /\ fsm[r] = "OPP_TURN"
  BY HeadGenuine DEF Reads
<1>2. m.step = LastStep(r) + 1 /\ m.step = Len(log[Opp(r)])
  <2>1. m.step = LastStep(r) + 1
    BY DEF Fresh, Valid
  <2>2. QED
    BY <2>1, HeadStep
<1>3. /\ InTransit' \subseteq InTransit /\ Addressed'
      /\ log' = log /\ placed' = placed
  BY PopTransit DEF Fold
<1>4. /\ seen' = [seen EXCEPT ![r] = Append(seen[r], m.commit)]
      /\ walls' = [walls EXCEPT ![r] = walls[r] \cup ({m.barrier} \ {None})]
      /\ oppPlaced' = [oppPlaced EXCEPT ![r] = IF m.barrier = None THEN oppPlaced[r]
                                                               ELSE oppPlaced[r] + 1]
      /\ breaches' = [breaches EXCEPT ![r] = 0]
  BY DEF Fold
<1>5. /\ seen \in [Roles -> Seq(Records)] /\ walls \in [Roles -> SUBSET Cells]
      /\ oppPlaced \in [Roles -> 0 .. MaxBarriers] /\ breaches \in [Roles -> Nat]
      /\ log \in [Roles -> Seq(Records)] /\ fsm \in [Roles -> States]
  BY DEF TypeInv, TypeOK
<1>6. /\ seen'[r] = Append(seen[r], m.commit) /\ LastStep(r)' = LastStep(r) + 1
      /\ \A q \in Roles : q # r => seen'[q] = seen[q] /\ LastStep(q)' = LastStep(q)
  BY <1>4, <1>5 DEF LastStep
<1>7. \A n \in InTransit' : n # Garbage /\ Genuine(n)'
  BY <1>3 DEF OrderInv, Genuine
<1>8. SeenIsPrefix'
  <2>1. ASSUME NEW q \in Roles
        PROVE  /\ Len(seen'[q]) <= Len(log'[Opp(q)])
               /\ \A i \in DOMAIN seen'[q] : seen'[q][i] = log'[Opp(q)][i]
    <3>1. CASE q # r
      BY <1>3, <1>6, <3>1 DEF OrderInv, SeenIsPrefix
    <3>2. CASE q = r
      <4>1. /\ Len(seen[r]) <= Len(log[Opp(r)])
            /\ \A i \in DOMAIN seen[r] : seen[r][i] = log[Opp(r)][i]
        BY DEF OrderInv, SeenIsPrefix
      <4>2. m.commit = log[Opp(r)][Len(seen[r]) + 1] /\ Len(log[Opp(r)]) = Len(seen[r]) + 1
        BY <1>1, <1>2 DEF Genuine, LastStep
      <4>3. seen[r] \in Seq(Records) /\ m.commit \in Records
        BY <1>1, <1>5 DEF TurnMessages
      <4>4. \A i \in DOMAIN Append(seen[r], m.commit) :
              \/ i \in DOMAIN seen[r] /\ Append(seen[r], m.commit)[i] = seen[r][i]
              \/ i = Len(seen[r]) + 1 /\ Append(seen[r], m.commit)[i] = m.commit
        BY <4>3
      <4>5. Len(seen'[r]) = Len(seen[r]) + 1
        BY <1>6, <4>3
      <4>6. Len(seen'[r]) <= Len(log'[Opp(r)])
        BY <1>3, <4>2, <4>5
      <4>7. \A i \in DOMAIN seen'[r] : seen'[r][i] = log'[Opp(r)][i]
        BY <1>3, <1>6, <4>1, <4>2, <4>4
      <4>8. QED
        BY <3>2, <4>6, <4>7
    <3>3. QED
      BY <3>1, <3>2
  <2>2. QED
    BY <2>1 DEF SeenIsPrefix
<1>9. \A q \in Roles : InPhase(q)'
  <2>1. ASSUME NEW q \in Roles, q # r PROVE InPhase(q)'
    <3>1. InPhase(q) /\ Turns(q)' = Turns(q) /\ LastStep(q)' = LastStep(q)
      BY <1>3, <1>6, <2>1 DEF OrderInv, Turns
    <3>2. fsm'[q] = fsm[q]
      BY <1>5, <2>1
    <3>3. QED
      BY <3>1, <3>2 DEF InPhase
  <2>2. InPhase(r)'
    <3>1. InPhase(r) /\ Turns(r)' = Turns(r) /\ LastStep(r)' = LastStep(r) + 1
      BY <1>3, <1>6 DEF OrderInv, Turns
    <3>2. Turns(r) = LastStep(r) + 1 /\ LastStep(r) \in Nat
      BY <1>1, <1>5, <3>1 DEF InPhase, LastStep
    <3>3. fsm'[r] = s
      BY <1>5
    <3>4. QED
      BY <3>1, <3>2, <3>3 DEF InPhase
  <2>3. QED
    BY <2>1, <2>2
<1>10. /\ \A n \in InTransit' : Unread(n)' => Missing(n)'
       /\ LastStep("thief")' = Len(log'["police"]) =>
              walls'["police"] = walls'["thief"] /\ placed'["police"] = oppPlaced'["thief"]
  <2>1. CASE r = "thief"
    <3>1. Unread(m)
      BY <1>1, <1>2, <2>1, Chain DEF Unread, Opp
    <3>2. Missing(m)
      BY <1>1, <3>1 DEF OrderInv
    <3>3. /\ walls'["police"] = walls["police"]
          /\ walls'["thief"] = walls["thief"] \cup ({m.barrier} \ {None})
          /\ oppPlaced'["thief"] = IF m.barrier = None THEN oppPlaced["thief"]
                                                      ELSE oppPlaced["thief"] + 1
      BY <1>4, <1>5, <2>1 DEF Roles
    <3>4. walls'["police"] = walls'["thief"] /\ placed'["police"] = oppPlaced'["thief"]
      BY <1>3, <3>2, <3>3 DEF Missing
    <3>5. LastStep("thief")' = Len(log'["police"])
      BY <1>2, <1>3, <1>6, <2>1 DEF Opp
    <3>6. \A n \in InTransit' : ~Unread(n)'
      BY <1>3, <1>5, <3>5 DEF Unread, Roles
    <3>7. QED
      BY <3>4, <3>6
  <2>2. CASE r = "police"
    <3>1. m.barrier = None
      BY <1>1, <2>2 DEF Genuine, Opp
    <3>2. walls' = walls /\ oppPlaced' = oppPlaced
      BY <1>4, <1>5, <3>1
    <3>3. LastStep("thief")' = LastStep("thief")
      BY <1>6, <2>2 DEF Roles
    <3>4. \A n \in InTransit' : (Unread(n)' <=> Unread(n)) /\ (Missing(n)' <=> Missing(n))
      BY <1>3, <3>2, <3>3 DEF Unread, Missing
    <3>5. QED
      BY <1>3, <3>2, <3>3, <3>4 DEF OrderInv
  <2>3. QED
    BY <2>1, <2>2 DEF Roles
<1>11. NoHonestBreach'
  BY <1>4, <1>5 DEF OrderInv, NoHonestBreach
<1>12. QED
  BY <1>3, <1>7, <1>8, <1>9, <1>10, <1>11 DEF OrderInv, Addressed

LEMMA AcceptOrder ==
    ASSUME TypeInv, OrderInv, NEW r \in Roles, Accept(r) \/ BeliefRaises(r)
    PROVE  OrderInv'
<1> DEFINE m == Head(turns[r])
<1>1. Reads(r) /\ Fresh(r, m) /\ Fold(r, m)
  BY DEF Accept, BeliefRaises
<1>2. \E s \in {"MY_TURN", "GAME_OVER"} : fsm' = [fsm EXCEPT ![r] = s]
  BY DEF Accept, BeliefRaises, Ends, Goes
<1>3. due'["police"] = "none"
  <2>1. due \in [Roles -> Answers] /\ due["police"] = "none"
    BY DEF TypeInv, TypeOK, OrderInv
  <2>2. due' = due \/ \E a : due' = [due EXCEPT ![r] = a] /\ (r = "police" => a = "none")
    BY DEF Accept, BeliefRaises
  <2>3. QED
    BY <2>1, <2>2 DEF Roles
<1>4. QED
  BY <1>1, <1>2, <1>3, FoldOrder

-----------------------------------------------------------------------------
(* A turn taken.                                                           *)

\* What the guard lets the peer send of its turn.
LEMMA TakeTurnSends ==
    ASSUME TypeInv, OrderInv, NEW r \in Roles, TakeTurn(r)
    PROVE  \E m \in TurnMessages :
              /\ m.from = r /\ m.step = Len(log[r]) + 1 /\ m.commit.walls = walls'[r]
              /\ log' = [log EXCEPT ![r] = Append(log[r], m.commit)]
              /\ IF r = "police" THEN m.answer = "none" /\ ~m.win
                                 ELSE m.barrier = None /\ m.claim = None
              /\ m.win => m.step >= SurvivalThreshold
              /\ m.barrier # None => m.barrier \in Cells \ walls[r]
              /\ walls' = [walls EXCEPT ![r] = walls[r] \cup ({m.barrier} \ {None})]
              /\ placed' = [placed EXCEPT ![r] = IF m.barrier = None THEN placed[r]
                                                                   ELSE placed[r] + 1]
              /\ call' = [call EXCEPT ![r] = [msg |-> m, try |-> 1, ack |-> FALSE]]
              /\ wire' = wire \cup {Copy(m, 1)}
<1>1. PICK a \in Plays(r) :
        LET built == IF a.type = "BARRIER" THEN {Shift(pos[r], a.dir)} ELSE {}
            rec == [pos |-> IF a.type = "MOVE" THEN Shift(pos[r], a.dir) ELSE pos[r],
                    walls |-> walls[r] \cup built]
            m == Compose(r, a, rec)
        IN  /\ pos' = [pos EXCEPT ![r] = rec.pos]
            /\ walls' = [walls EXCEPT ![r] = rec.walls]
            /\ placed' = [placed EXCEPT ![r] = IF built = {} THEN @ ELSE @ + 1]
            /\ log' = [log EXCEPT ![r] = Append(@, rec)]
            /\ call' = [call EXCEPT ![r] = [msg |-> m, try |-> 1, ack |-> FALSE]]
            /\ wire' = wire \cup {Copy(m, 1)}
  BY DEF TakeTurn
<1> DEFINE built == IF a.type = "BARRIER" THEN {Shift(pos[r], a.dir)} ELSE {}
           rec == [pos |-> IF a.type = "MOVE" THEN Shift(pos[r], a.dir) ELSE pos[r],
                   walls |-> walls[r] \cup built]
           m == Compose(r, a, rec)
<1>2. rec \in Records /\ m \in TurnMessages
  BY TurnType, ComposeType DEF TypeInv
<1>3. /\ pos[r] \in Cells
      /\ a.type = "BARRIER" => Shift(pos[r], a.dir) \in Cells \ walls[r] /\ r = "police"
  BY PlayLegal DEF TypeInv, TypeOK
<1>4. /\ m.from = r /\ m.step = Len(log[r]) + 1 /\ m.commit = rec /\ m.answer = due[r]
      /\ m.barrier = IF a.type = "BARRIER" THEN Shift(pos[r], a.dir) ELSE None
      /\ r = "thief" => m.claim = None
      /\ m.win <=> (r = "thief" /\ due[r] # "caught" /\ Len(log[r]) + 1 >= SurvivalThreshold)
  BY DEF Compose
<1>5. /\ IF r = "police" THEN m.answer = "none" /\ ~m.win
                         ELSE m.barrier = None /\ m.claim = None
      /\ m.win => m.step >= SurvivalThreshold
      /\ m.barrier # None => m.barrier \in Cells \ walls[r]
  BY <1>3, <1>4 DEF OrderInv, Roles
<1>6. built = {m.barrier} \ {None} /\ (built = {} <=> m.barrier = None)
  <2>1. None \notin Cells
    BY PeerGameAssumption
  <2>2. QED
    BY <1>3, <1>4, <2>1
<1> HIDE DEF m
<1>7. /\ walls' = [walls EXCEPT ![r] = walls[r] \cup ({m.barrier} \ {None})]
      /\ placed' = [placed EXCEPT ![r] = IF m.barrier = None THEN placed[r]
                                                           ELSE placed[r] + 1]
  BY <1>1, <1>6
<1>8. /\ log' = [log EXCEPT ![r] = Append(log[r], m.commit)]
      /\ call' = [call EXCEPT ![r] = [msg |-> m, try |-> 1, ack |-> FALSE]]
      /\ wire' = wire \cup {Copy(m, 1)}
  BY <1>1, <1>4 DEF m
<1>9. m.commit.walls = walls'[r]
  BY <1>4, <1>6, <1>7 DEF TypeInv, TypeOK
<1>10. QED
  BY <1>2, <1>4, <1>5, <1>7, <1>8, <1>9

LEMMA TakeTurnOrder ==
    ASSUME TypeInv, OrderInv, NEW r \in Roles, TakeTurn(r)
    PROVE  OrderInv'
<1>1. PICK m \in TurnMessages :
              /\ m.from = r /\ m.step = Len(log[r]) + 1 /\ m.commit.walls = walls'[r]
              /\ log' = [log EXCEPT ![r] = Append(log[r], m.commit)]
              /\ IF r = "police" THEN m.answer = "none" /\ ~m.win
                                 ELSE m.barrier = None /\ m.claim = None
              /\ m.win => m.step >= SurvivalThreshold
              /\ m.barrier # None => m.barrier \in Cells \ walls[r]
              /\ walls' = [walls EXCEPT ![r] = walls[r] \cup ({m.barrier} \ {None})]
              /\ placed' = [placed EXCEPT ![r] = IF m.barrier = None THEN placed[r]
                                                                   ELSE placed[r] + 1]
              /\ call' = [call EXCEPT ![r] = [msg |-> m, try |-> 1, ack |-> FALSE]]
              /\ wire' = wire \cup {Copy(m, 1)}
  BY TakeTurnSends
<1>2. /\ fsm[r] = "MY_TURN" /\ fsm' = [fsm EXCEPT ![r] = "SENDING"]
      /\ due' = [due EXCEPT ![r] = "none"]
      /\ UNCHANGED <<seen, oppPlaced, breaches, turns>>
  BY DEF TakeTurn, Goes
<1>3. /\ log \in [Roles -> Seq(Records)] /\ walls \in [Roles -> SUBSET Cells]
      /\ placed \in [Roles -> 0 .. MaxBarriers] /\ fsm \in [Roles -> States]
      /\ due \in [Roles -> Answers] /\ call \in [Roles -> Calls \cup {None}]
      /\ seen \in [Roles -> Seq(Records)]
  BY DEF TypeInv, TypeOK
<1>4. log[r] \in Seq(Records) /\ m.commit \in Records /\ m # Garbage
  BY <1>3, PeerGameAssumption DEF TurnMessages
<1>5. /\ log'[r] = Append(log[r], m.commit) /\ Len(log'[r]) = Len(log[r]) + 1
      /\ \A q \in Roles : q # r => log'[q] = log[q]
      /\ \A q \in Roles : \A i \in DOMAIN log[q] : i \in DOMAIN log'[q] /\ log'[q][i] = log[q][i]
      /\ m.step \in DOMAIN log'[r] /\ log'[r][m.step] = m.commit
  <2>1. log'[r] = Append(log[r], m.commit) /\ \A q \in Roles : q # r => log'[q] = log[q]
    BY <1>1, <1>3
  <2>2. /\ Len(Append(log[r], m.commit)) = Len(log[r]) + 1
        /\ DOMAIN Append(log[r], m.commit) = 1 .. Len(log[r]) + 1
        /\ Append(log[r], m.commit)[Len(log[r]) + 1] = m.commit
        /\ Len(log[r]) \in Nat
    BY <1>4
  <2>3. \A i \in DOMAIN log[r] : i \in DOMAIN Append(log[r], m.commit)
                                /\ Append(log[r], m.commit)[i] = log[r][i]
    BY <1>4
  <2>4. QED
    BY <1>1, <2>1, <2>2, <2>3
<1>6. InTransit' \subseteq InTransit \cup {m}
  <2>1. \A c \in wire' : c.msg \in InTransit \cup {m}
    BY <1>1, TransitHas DEF Copy
  <2>2. \A q \in Roles : call'[q] # None => call'[q].msg \in InTransit \cup {m}
    BY <1>1, <1>3, TransitHas
  <2>3. \A q \in Roles : \A i \in DOMAIN turns'[q] : turns'[q][i] \in InTransit \cup {m}
    BY <1>2, TransitHas
  <2>4. QED
    BY <2>1, <2>2, <2>3, TransitOnly
<1>7. \A n \in InTransit : n # Garbage /\ n \in TurnMessages /\ n.from \in Roles /\ Genuine(n)
  BY TransitType DEF OrderInv, TurnMessages
<1>8. \A n \in InTransit' : n # Garbage /\ Genuine(n)'
  <2>1. ASSUME NEW n \in InTransit PROVE Genuine(n)'
    BY <1>5, <1>7, <2>1 DEF Genuine
  <2>2. Genuine(m)'
    BY <1>1, <1>5 DEF Genuine
  <2>3. QED
    BY <1>4, <1>6, <1>7, <2>1, <2>2
<1>9. SeenIsPrefix'
  <2>1. ASSUME NEW q \in Roles
        PROVE  /\ Len(seen[q]) <= Len(log'[Opp(q)])
               /\ \A i \in DOMAIN seen[q] : seen[q][i] = log'[Opp(q)][i]
    <3>1. /\ Len(seen[q]) <= Len(log[Opp(q)])
          /\ \A i \in DOMAIN seen[q] : seen[q][i] = log[Opp(q)][i]
      BY DEF OrderInv, SeenIsPrefix
    <3>2. Opp(q) \in Roles /\ seen[q] \in Seq(Records) /\ log[Opp(q)] \in Seq(Records)
      BY <1>3 DEF Opp, Roles
    <3>3. DOMAIN seen[q] \subseteq DOMAIN log[Opp(q)]
      BY <3>1, <3>2
    <3>4. Len(log'[Opp(q)]) >= Len(log[Opp(q)])
      BY <1>5, <3>2
    <3>5. QED
      BY <1>5, <3>1, <3>2, <3>3, <3>4
  <2>2. QED
    BY <1>2, <2>1 DEF SeenIsPrefix
<1>10. \A q \in Roles : InPhase(q)'
  <2>1. \A q \in Roles : LastStep(q)' = LastStep(q) /\ LastStep(q) \in Nat
    BY <1>2, <1>3 DEF LastStep
  <2>2. ASSUME NEW q \in Roles, q # r PROVE InPhase(q)'
    <3>1. Turns(q)' = Turns(q) /\ fsm'[q] = fsm[q] /\ InPhase(q)
      BY <1>2, <1>3, <1>5, <2>2 DEF Turns, OrderInv
    <3>2. QED
      BY <2>1, <3>1 DEF InPhase
  <2>3. InPhase(r)'
    <3>1. Turns(r) = LastStep(r) /\ fsm'[r] = "SENDING"
      BY <1>2, <1>3 DEF OrderInv, InPhase
    <3>2. Turns(r)' = Turns(r) + 1
      BY <1>4, <1>5 DEF Turns
    <3>3. QED
      BY <2>1, <3>1, <3>2 DEF InPhase
  <2>4. QED
    BY <2>2, <2>3
<1>11. /\ \A n \in InTransit' : Unread(n)' => Missing(n)'
       /\ LastStep("thief")' = Len(log'["police"]) =>
              walls'["police"] = walls'["thief"] /\ placed'["police"] = oppPlaced'["thief"]
  <2>1. LastStep("thief")' = LastStep("thief") /\ oppPlaced' = oppPlaced
    BY <1>2 DEF LastStep
  <2>2. CASE r = "police"
    <3>1. LastStep("thief") = Len(log["police"])
      <4>1. Len(log["police"]) + 1 = LastStep("police")
        BY <1>2, <2>2 DEF OrderInv, InPhase, Turns
      <4>2. QED
        BY <4>1, Chain
    <3>2. walls["police"] = walls["thief"] /\ placed["police"] = oppPlaced["thief"]
      BY <3>1 DEF OrderInv
    <3>3. /\ walls'["thief"] = walls["thief"]
          /\ walls'["police"] = walls["police"] \cup ({m.barrier} \ {None})
          /\ placed'["police"] = IF m.barrier = None THEN placed["police"]
                                                    ELSE placed["police"] + 1
      BY <1>1, <1>3, <2>2 DEF Roles
    <3>4. Missing(m)'
      <4>1. None \notin walls["thief"]
        BY <1>3, PeerGameAssumption DEF Roles
      <4>2. m.barrier \notin walls["thief"]
        BY <1>1, <2>2, <3>2, <4>1
      <4>3. placed'["police"] = IF m.barrier = None THEN oppPlaced'["thief"]
                                                   ELSE oppPlaced'["thief"] + 1
        BY <2>1, <3>2, <3>3
      <4>4. walls'["police"] = walls'["thief"] \cup ({m.barrier} \ {None})
        BY <3>2, <3>3
      <4>5. walls'["thief"] = walls["thief"]
        BY <3>3
      <4>6. QED
        BY <4>2, <4>3, <4>4, <4>5 DEF Missing
    <3>5. Len(log'["police"]) = Len(log["police"]) + 1 /\ Len(log["police"]) \in Nat
      BY <1>4, <1>5, <2>2
    <3>6. \A n \in InTransit : n.from = "police" => n.step \in 1 .. Len(log["police"])
      BY <1>3, <1>7 DEF Genuine, Roles
    <3>7. ASSUME NEW n \in InTransit', Unread(n)' PROVE n = m
      <4>1. n.from = "police" /\ n.step = Len(log["police"]) + 1
        BY <3>5, <3>7 DEF Unread
      <4>2. n \notin InTransit
        BY <3>5, <3>6, <4>1
      <4>3. QED
        BY <1>6, <4>2
    <3>8. LastStep("thief")' # Len(log'["police"])
      BY <2>1, <3>1, <3>5
    <3>9. QED
      BY <3>4, <3>7, <3>8
  <2>3. CASE r = "thief"
    <3>1. m.barrier = None /\ m.from = "thief"
      BY <1>1, <2>3
    <3>2. walls' = walls /\ placed' = placed /\ log'["police"] = log["police"]
      BY <1>1, <1>3, <1>5, <2>3, <3>1 DEF Roles
    <3>3. ASSUME NEW n \in InTransit', Unread(n)' PROVE Missing(n)'
      <4>1. Unread(n) /\ n \in InTransit
        BY <1>6, <2>1, <3>1, <3>2, <3>3 DEF Unread
      <4>2. Missing(n)
        BY <4>1 DEF OrderInv
      <4>3. QED
        BY <2>1, <3>2, <4>2 DEF Missing
    <3>4. QED
      BY <2>1, <3>2, <3>3 DEF OrderInv
  <2>4. QED
    BY <2>2, <2>3 DEF Roles
<1>12. due'["police"] = "none" /\ NoHonestBreach' /\ Addressed'
  BY <1>2, <1>3 DEF OrderInv, NoHonestBreach, Addressed, Roles
<1>13. QED
  BY <1>8, <1>9, <1>10, <1>11, <1>12 DEF OrderInv, Addressed

-----------------------------------------------------------------------------
(* The audit of an honest opponent.                                        *)

LEMMA InitAudit == Init => AuditInv
  BY DEF Init, AuditInv, NoFalseForgery

\* Steps that write no record, reveal nothing and judge nobody.
LEMMA AuditUntouched ==
    ASSUME TypeInv, AuditInv, UNCHANGED <<log, pos, audits, verdict>>,
           \A r \in Roles : fsm[r] \in {"AUDITING", "DONE"} => fsm'[r] \in {"AUDITING", "DONE"}
    PROVE  AuditInv'
  BY DEF AuditInv, NoFalseForgery, Opp, Roles

LEMMA PlayingAudit ==
    ASSUME TypeInv, AuditInv, NEW r \in Roles,
           \/ BrainRaises(r) \/ SendReturns(r) \/ Retry(r) \/ GiveUp(r) \/ Accept(r)
           \/ BeliefRaises(r) \/ DropDuplicate(r) \/ Reject(r) \/ TurnTimeout(r)
    PROVE  AuditInv'
<1>1. UNCHANGED <<log, pos, audits, verdict>>
  BY DEF BrainRaises, SendReturns, Retry, GiveUp, Accept, BeliefRaises, DropDuplicate, Reject,
         TurnTimeout, Fold, own, ending
<1>2. fsm[r] \in {"MY_TURN", "SENDING", "OPP_TURN"}
  BY DEF BrainRaises, SendReturns, Retry, GiveUp, AttemptFails, Accept, BeliefRaises,
         DropDuplicate, Reject, TurnTimeout, Reads
<1>3. \A q \in Roles : q # r => fsm'[q] = fsm[q]
  <2>1. fsm' = fsm \/ \E s : fsm' = [fsm EXCEPT ![r] = s]
    BY DEF BrainRaises, SendReturns, Retry, GiveUp, Accept, BeliefRaises, DropDuplicate,
           Reject, TurnTimeout, Ends, Goes
  <2>2. QED
    BY <2>1 DEF TypeInv, TypeOK
<1>4. QED
  BY <1>1, <1>2, <1>3, AuditUntouched

LEMMA NetworkAudit ==
    ASSUME TypeInv, AuditInv, \E c \in wire : Deliver(c) \/ Lose(c)
    PROVE  AuditInv'
<1>1. UNCHANGED <<log, pos, audits, verdict, fsm>>
  BY DEF Deliver, Lose, own, ending
<1>2. QED
  BY <1>1, AuditUntouched

\* A play moves its peer by at most one cell.
LEMMA PlayNear ==
    ASSUME NEW c \in Cells, NEW d \in Directions, Shift(c, d) \in Cells
    PROVE  Distance(c, c) <= 1 /\ Distance(c, Shift(c, d)) <= 1
<1>1. /\ c[1] \in Int /\ c[2] \in Int
      /\ Shift(c, d)[1] - c[1] \in {-1, 0, 1} /\ Shift(c, d)[2] - c[2] \in {-1, 0, 1}
      /\ Shift(c, d)[1] = c[1] \/ Shift(c, d)[2] = c[2]
      /\ Shift(c, d)[1] \in Int /\ Shift(c, d)[2] \in Int
  BY BoardAssumption, SMTT(30) DEF Cells, Directions, Shift, Delta
<1>2. QED
  BY <1>1 DEF Distance

LEMMA TakeTurnAudit ==
    ASSUME TypeInv, AuditInv, NEW r \in Roles, TakeTurn(r)
    PROVE  AuditInv'
<1>1. /\ fsm[r] = "MY_TURN" /\ fsm' = [fsm EXCEPT ![r] = "SENDING"]
      /\ UNCHANGED <<audits, verdict>>
  BY DEF TakeTurn, Goes, ending
<1>2. PICK rec \in Records : /\ log' = [log EXCEPT ![r] = Append(log[r], rec)]
                             /\ pos' = [pos EXCEPT ![r] = rec.pos]
                             /\ Distance(pos[r], rec.pos) <= 1
  <2>1. PICK a \in Plays(r) :
          LET built == IF a.type = "BARRIER" THEN {Shift(pos[r], a.dir)} ELSE {}
              rec == [pos |-> IF a.type = "MOVE" THEN Shift(pos[r], a.dir) ELSE pos[r],
                      walls |-> walls[r] \cup built]
          IN  /\ pos' = [pos EXCEPT ![r] = rec.pos]
              /\ log' = [log EXCEPT ![r] = Append(@, rec)]
    BY DEF TakeTurn
  <2> DEFINE built == IF a.type = "BARRIER" THEN {Shift(pos[r], a.dir)} ELSE {}
             rec == [pos |-> IF a.type = "MOVE" THEN Shift(pos[r], a.dir) ELSE pos[r],
                     walls |-> walls[r] \cup built]
  <2>2. rec \in Records
    BY TurnType DEF TypeInv
  <2>3. pos[r] \in Cells
    BY DEF TypeInv, TypeOK
  <2>4. a.type = "MOVE" => a.dir \in Directions /\ Shift(pos[r], a.dir) \in Cells
    BY <2>3, PlayLegal DEF CanStep
  <2>5. "STAY" \in Directions /\ Shift(pos[r], "STAY") = pos[r]
    BY <2>3, BoardAssumption DEF Directions, Shift, Delta, Cells
  <2>6. Distance(pos[r], rec.pos) <= 1
    BY <2>3, <2>4, <2>5, PlayNear
  <2>7. QED
    BY <2>1, <2>2, <2>6
<1>3. /\ log \in [Roles -> Seq(Records)] /\ pos \in [Roles -> Cells] /\ fsm \in [Roles -> States]
      /\ audits \in [Roles -> Seq(Seq(Records))] /\ verdict' = verdict
  BY <1>1 DEF TypeInv, TypeOK
<1>4. log[r] \in Seq(Records) /\ Len(log[r]) \in Nat
  BY <1>3
<1>5. /\ log'[r] = Append(log[r], rec) /\ pos'[r] = rec.pos
      /\ \A q \in Roles : q # r => log'[q] = log[q] /\ pos'[q] = pos[q] /\ fsm'[q] = fsm[q]
  BY <1>1, <1>2, <1>3
<1>6. ASSUME NEW q \in Roles, NEW i \in DOMAIN log'[q]
      PROVE  /\ i > 1 => Distance(log'[q][i - 1].pos, log'[q][i].pos) <= 1
             /\ i = Len(log'[q]) => log'[q][i].pos = pos'[q]
  <2>1. CASE q # r
    BY <1>5, <1>6, <2>1 DEF AuditInv
  <2>2. CASE q = r
    <3>1. /\ DOMAIN log'[r] = 1 .. Len(log[r]) + 1 /\ Len(log'[r]) = Len(log[r]) + 1
          /\ log'[r][Len(log[r]) + 1] = rec
          /\ DOMAIN log[r] = 1 .. Len(log[r])
          /\ \A j \in 1 .. Len(log[r]) : log'[r][j] = log[r][j]
      BY <1>4, <1>5
    <3>2. CASE i = Len(log[r]) + 1
      <4>1. i > 1 => log'[r][i - 1].pos = pos[r]
        <5> SUFFICES ASSUME i > 1 PROVE log'[r][i - 1].pos = pos[r]
          OBVIOUS
        <5>1. i - 1 \in DOMAIN log[r] /\ i - 1 = Len(log[r])
          BY <1>4, <3>1, <3>2
        <5>2. QED
          BY <3>1, <5>1 DEF AuditInv
      <4>2. QED
        BY <1>2, <1>5, <2>2, <3>1, <3>2, <4>1
    <3>3. CASE i # Len(log[r]) + 1
      <4>1. i \in 1 .. Len(log[r]) /\ i # Len(log'[r])
        BY <1>4, <1>6, <2>2, <3>1, <3>3
      <4>2. i > 1 => i - 1 \in 1 .. Len(log[r])
        BY <1>4, <4>1
      <4>3. i > 1 => Distance(log[r][i - 1].pos, log[r][i].pos) <= 1
        BY <3>1, <4>1 DEF AuditInv
      <4>4. QED
        BY <2>2, <3>1, <4>1, <4>2, <4>3
    <3>4. QED
      BY <3>2, <3>3
  <2>3. QED
    BY <2>1, <2>2
<1>7. ASSUME NEW q \in Roles, NEW i \in DOMAIN audits'[q]
      PROVE  audits'[q][i] = log'[Opp(q)] /\ fsm'[Opp(q)] \in {"AUDITING", "DONE"}
  <2>1. audits[q][i] = log[Opp(q)] /\ fsm[Opp(q)] \in {"AUDITING", "DONE"} /\ Opp(q) \in Roles
    BY <1>1, <1>7 DEF AuditInv, Opp, Roles
  <2>2. Opp(q) # r
    BY <1>1, <2>1
  <2>3. QED
    BY <1>1, <1>5, <2>1, <2>2
<1>8. NoFalseForgery'
  BY <1>3 DEF AuditInv, NoFalseForgery
<1>9. QED
  BY <1>6, <1>7, <1>8 DEF AuditInv

LEMMA RevealAudit ==
    ASSUME TypeInv, AuditInv, NEW r \in Roles, Reveal(r)
    PROVE  AuditInv'
<1>1. /\ audits \in [Roles -> Seq(Seq(Records))] /\ fsm \in [Roles -> States]
      /\ log[r] \in Seq(Records) /\ Opp(r) \in Roles /\ Opp(r) # r /\ Opp(Opp(r)) = r
  BY DEF TypeInv, TypeOK, Opp, Roles
<1>2. /\ fsm[r] = "GAME_OVER" /\ fsm' = [fsm EXCEPT ![r] = "AUDITING"]
      /\ UNCHANGED <<log, pos, verdict>>
  BY DEF Reveal, Goes, own
<1>3. audits[Opp(r)] = <<>>
  <2>1. \A i \in DOMAIN audits[Opp(r)] : fsm[r] \in {"AUDITING", "DONE"}
    BY <1>1 DEF AuditInv
  <2>2. audits[Opp(r)] \in Seq(Seq(Records))
    BY <1>1
  <2>3. audits[Opp(r)] # <<>> => 1 \in DOMAIN audits[Opp(r)]
    BY <2>2
  <2>4. QED
    BY <1>2, <2>1, <2>3
<1>4. \/ audits' = [audits EXCEPT ![Opp(r)] = Append(audits[Opp(r)], log[r])]
      \/ audits' = audits
      \/ audits' = [audits EXCEPT ![Opp(r)] = audits[Opp(r)] \o <<log[r], log[r]>>]
  BY DEF Reveal
<1>5. \A i \in DOMAIN audits'[Opp(r)] : audits'[Opp(r)][i] = log[r]
  <2>1. CASE audits' = audits
    BY <1>3, <2>1
  <2>2. CASE audits' = [audits EXCEPT ![Opp(r)] = Append(audits[Opp(r)], log[r])]
    <3>1. audits'[Opp(r)] = Append(<<>>, log[r])
      BY <1>1, <1>3, <2>2
    <3>2. QED
      BY <1>1, <3>1
  <2>3. CASE audits' = [audits EXCEPT ![Opp(r)] = audits[Opp(r)] \o <<log[r], log[r]>>]
    <3>1. audits'[Opp(r)] = <<>> \o <<log[r], log[r]>>
      BY <1>1, <1>3, <2>3
    <3>2. \A i \in DOMAIN (<<>> \o <<log[r], log[r]>>) :
             (<<>> \o <<log[r], log[r]>>)[i] = log[r]
      BY <1>1
    <3>3. QED
      BY <3>1, <3>2
  <2>4. QED
    BY <1>4, <2>1, <2>2, <2>3
<1>6. audits'[r] = audits[r] /\ fsm'[r] = "AUDITING" /\ fsm'[Opp(r)] = fsm[Opp(r)]
  BY <1>1, <1>2, <1>4
<1>7. \A q \in Roles : \A i \in DOMAIN audits'[q] :
         audits'[q][i] = log'[Opp(q)] /\ fsm'[Opp(q)] \in {"AUDITING", "DONE"}
  <2>1. ASSUME NEW q \in Roles, NEW i \in DOMAIN audits'[q]
        PROVE  audits'[q][i] = log'[Opp(q)] /\ fsm'[Opp(q)] \in {"AUDITING", "DONE"}
    <3>1. CASE q = r
      <4>1. audits[r][i] = log[Opp(r)] /\ fsm[Opp(r)] \in {"AUDITING", "DONE"}
        BY <1>6, <2>1, <3>1 DEF AuditInv
      <4>2. QED
        BY <1>2, <1>6, <3>1, <4>1
    <3>2. CASE q = Opp(r)
      BY <1>1, <1>2, <1>5, <1>6, <2>1, <3>2
    <3>3. QED
      BY <3>1, <3>2 DEF Opp, Roles
  <2>2. QED
    BY <2>1
<1>8. QED
  BY <1>2, <1>7 DEF AuditInv, NoFalseForgery

\* The judge finds nothing in an honest log.
LEMMA HonestNotForged ==
    ASSUME TypeInv, OrderInv, AuditInv, NEW r \in Roles
    PROVE  ~Forged(r, log[Opp(r)])
<1>1. ~RevealMismatch(r, log[Opp(r)])
  BY DEF OrderInv, SeenIsPrefix, RevealMismatch
<1>2. Opp(r) \in Roles /\ log[Opp(r)] \in Seq(Records)
  BY DEF TypeInv, TypeOK, Opp, Roles
<1>3. \A i \in DOMAIN log[Opp(r)] : log[Opp(r)][i].pos \in Cells
  <2>1. \A i \in DOMAIN log[Opp(r)] : log[Opp(r)][i] \in Records
    BY <1>2
  <2>2. QED
    BY <2>1 DEF Records
<1>4. ASSUME NEW i \in DOMAIN log[Opp(r)], i > 1
      PROVE  ~(Distance(log[Opp(r)][i - 1].pos, log[Opp(r)][i].pos) > 1)
  <2>1. i - 1 \in DOMAIN log[Opp(r)]
    BY <1>2, <1>4
  <2>2. Distance(log[Opp(r)][i - 1].pos, log[Opp(r)][i].pos) <= 1
    BY <1>2, <1>4 DEF AuditInv
  <2>3. Distance(log[Opp(r)][i - 1].pos, log[Opp(r)][i].pos) \in Int
    <3>1. ASSUME NEW a \in Cells, NEW b \in Cells PROVE Distance(a, b) \in Int
      BY BoardAssumption DEF Cells, Distance
    <3>2. QED
      BY <1>3, <2>1, <3>1
  <2>4. QED
    BY <2>2, <2>3
<1>5. ~TrajectoryMismatch(log[Opp(r)])
  BY <1>3, <1>4 DEF TrajectoryMismatch
<1>6. QED
  BY <1>1, <1>5 DEF Forged

\* So a reveal that is read passes, and changes no result.
LEMMA AuditPasses ==
    ASSUME TypeInv, OrderInv, AuditInv, NEW r \in Roles, ReadAudit(r)
    PROVE  /\ fsm[Opp(r)] \in {"AUDITING", "DONE"}
           /\ theirs' = [theirs EXCEPT ![r] = log[Opp(r)]]
           /\ verdict' = [verdict EXCEPT ![r] = "passed"] /\ result' = result
<1>1. audits[r] \in Seq(Seq(Records)) /\ audits[r] # <<>>
  BY DEF ReadAudit, TypeInv, TypeOK
<1>2. 1 \in DOMAIN audits[r] /\ Head(audits[r]) = audits[r][1]
  BY <1>1
<1>3. Head(audits[r]) = log[Opp(r)] /\ fsm[Opp(r)] \in {"AUDITING", "DONE"}
  BY <1>2 DEF AuditInv
<1>4. QED
  BY <1>3, HonestNotForged DEF ReadAudit

LEMMA ReadAuditAudit ==
    ASSUME TypeInv, OrderInv, AuditInv, NEW r \in Roles, ReadAudit(r)
    PROVE  AuditInv'
<1>1. /\ audits \in [Roles -> Seq(Seq(Records))] /\ fsm \in [Roles -> States]
      /\ verdict \in [Roles -> {"open", "passed", "forged", "absent"}]
  BY DEF TypeInv, TypeOK
<1>2. audits[r] \in Seq(Seq(Records)) /\ audits[r] # <<>>
  BY <1>1 DEF ReadAudit
<1>3. verdict' = [verdict EXCEPT ![r] = "passed"]
  BY AuditPasses
<1>4. /\ audits' = [audits EXCEPT ![r] = Tail(audits[r])]
      /\ fsm' = [fsm EXCEPT ![r] = "DONE"] /\ UNCHANGED <<log, pos>>
  BY DEF ReadAudit, own
<1>5. \A i \in DOMAIN Tail(audits[r]) : \E j \in DOMAIN audits[r] : Tail(audits[r])[i] = audits[r][j]
  BY <1>2, SMTT(30)
<1>6. \A q \in Roles : \A i \in DOMAIN audits'[q] : \E j \in DOMAIN audits[q] : audits'[q][i] = audits[q][j]
  BY <1>1, <1>4, <1>5
<1>7. \A q \in Roles : fsm[q] \in {"AUDITING", "DONE"} => fsm'[q] \in {"AUDITING", "DONE"}
  BY <1>1, <1>4
<1>8. \A q \in Roles : \A i \in DOMAIN audits'[q] :
          audits'[q][i] = log'[Opp(q)] /\ fsm'[Opp(q)] \in {"AUDITING", "DONE"}
  BY <1>4, <1>6, <1>7 DEF AuditInv, Opp, Roles
<1>9. NoFalseForgery'
  BY <1>1, <1>3 DEF AuditInv, NoFalseForgery
<1>10. QED
  BY <1>4, <1>8, <1>9 DEF AuditInv

LEMMA AuditTimeoutAudit ==
    ASSUME TypeInv, AuditInv, NEW r \in Roles, AuditTimeout(r)
    PROVE  AuditInv'
<1>1. /\ fsm \in [Roles -> States]
      /\ verdict \in [Roles -> {"open", "passed", "forged", "absent"}]
  BY DEF TypeInv, TypeOK
<1>2. /\ verdict' = [verdict EXCEPT ![r] = "absent"] /\ fsm' = [fsm EXCEPT ![r] = "DONE"]
      /\ UNCHANGED <<log, pos, audits>>
  BY DEF AuditTimeout, Goes, own
<1>3. \A q \in Roles : fsm[q] \in {"AUDITING", "DONE"} => fsm'[q] \in {"AUDITING", "DONE"}
  BY <1>1, <1>2
<1>4. NoFalseForgery'
  BY <1>1, <1>2 DEF AuditInv, NoFalseForgery
<1>5. QED
  BY <1>2, <1>3, <1>4 DEF AuditInv, Opp, Roles

-----------------------------------------------------------------------------
(* The theorems.                                                           *)

LEMMA NextOrder ==
    ASSUME OnlyOwnMessages
    PROVE  TypeInv /\ OrderInv /\ [Next]_vars => OrderInv'
<1> SUFFICES ASSUME TypeInv, OrderInv, [Next]_vars PROVE OrderInv'
  OBVIOUS
<1>1. ASSUME NEW r \in Roles, Peer(r) PROVE OrderInv'
  BY <1>1, TakeTurnOrder, EndingOrder, CallClosedOrder, RetryOrder, AcceptOrder, DropOrder,
     RejectNever DEF Peer
<1>2. \A r \in Roles : ~Stray(r)
  BY DEF Stray, OnlyOwnMessages
<1>3. ASSUME NEW c \in wire, Deliver(c) \/ Lose(c) PROVE OrderInv'
  BY <1>3, DeliverOrder, LoseOrder
<1>4. CASE UNCHANGED vars
  <2>1. Standstill /\ Onward /\ UNCHANGED net
    BY <1>4 DEF vars, own, gate, net, Standstill, Onward
  <2>2. QED
    BY <2>1, QuietAndStill
<1>5. QED
  BY <1>1, <1>2, <1>3, <1>4 DEF Next, Finished

LEMMA NextAudit ==
    ASSUME OnlyOwnMessages
    PROVE  TypeInv /\ OrderInv /\ AuditInv /\ [Next]_vars => AuditInv'
<1> SUFFICES ASSUME TypeInv, OrderInv, AuditInv, [Next]_vars PROVE AuditInv'
  OBVIOUS
<1>1. ASSUME NEW r \in Roles, Peer(r) PROVE AuditInv'
  BY <1>1, TakeTurnAudit, PlayingAudit, RevealAudit, ReadAuditAudit, AuditTimeoutAudit DEF Peer
<1>2. \A r \in Roles : ~Stray(r)
  BY DEF Stray, OnlyOwnMessages
<1>3. ASSUME NEW c \in wire, Deliver(c) \/ Lose(c) PROVE AuditInv'
  BY <1>3, NetworkAudit
<1>4. CASE UNCHANGED vars
  BY <1>4, AuditUntouched DEF vars, own, ending
<1>5. QED
  BY <1>1, <1>2, <1>3, <1>4 DEF Next, Finished

LEMMA OrderIsInvariant ==
    ASSUME OnlyOwnMessages
    PROVE  Spec => [](TypeInv /\ OrderInv /\ AuditInv)
<1>1. Init => TypeInv /\ OrderInv /\ AuditInv
  BY InitType, InitOrder, InitAudit
<1>2. TypeInv /\ OrderInv /\ AuditInv /\ [Next]_vars => (TypeInv /\ OrderInv /\ AuditInv)'
  BY NextType, NextOrder, NextAudit
<1>3. QED
  BY <1>1, <1>2, PTL DEF Spec

\* Exactly once and in order: on any network that loses, delays and repeats
\* requests, what a peer applied is a prefix of what the other sealed.
THEOREM ExactlyOnce ==
    ASSUME OnlyOwnMessages
    PROVE  Spec => []SeenIsPrefix
<1>1. OrderInv => SeenIsPrefix
  BY DEF OrderInv
<1>2. QED
  BY <1>1, OrderIsInvariant, PTL

\* The peers never decide at the same time and stay within one step.
THEOREM TokenUnique ==
    ASSUME OnlyOwnMessages
    PROVE  Spec => []OneToken
<1>1. TypeInv /\ OrderInv => OneToken
  <2> SUFFICES ASSUME TypeInv, OrderInv PROVE OneToken
    OBVIOUS
  <2>1. Len(log["thief"]) - Len(log["police"]) \in {0, 1}
    BY Chain
  <2>2. ~(fsm["police"] = "MY_TURN" /\ fsm["thief"] = "MY_TURN")
    <3> SUFFICES ASSUME fsm["police"] = "MY_TURN", fsm["thief"] = "MY_TURN" PROVE FALSE
      OBVIOUS
    <3>1. Len(log["thief"]) = LastStep("thief") /\ Len(log["police"]) + 1 = LastStep("police")
      BY DEF OrderInv, InPhase, Turns, Roles
    <3>2. QED
      BY <3>1, Chain
  <2>3. QED
    BY <2>1, <2>2 DEF OneToken
<1>2. QED
  BY <1>1, OrderIsInvariant, PTL

\* A thief about to move knows every barrier the police has built.
THEOREM MapsAgree ==
    ASSUME OnlyOwnMessages
    PROVE  Spec => []MapsInSync
<1>1. TypeInv /\ OrderInv => MapsInSync
  <2> SUFFICES ASSUME TypeInv, OrderInv, fsm["thief"] = "MY_TURN"
               PROVE  walls["thief"] = walls["police"]
    BY DEF MapsInSync
  <2>1. Len(log["thief"]) = LastStep("thief")
    BY DEF OrderInv, InPhase, Turns, Roles
  <2>2. LastStep("thief") = Len(log["police"])
    BY <2>1, Chain
  <2>3. QED
    BY <2>2 DEF OrderInv
<1>2. QED
  BY <1>1, OrderIsInvariant, PTL

\* Rule 5 never punishes an honest peer for what the network does.
THEOREM HonestNotRejected ==
    ASSUME OnlyOwnMessages
    PROVE  Spec => []NoHonestBreach
<1>1. OrderInv => NoHonestBreach
  BY DEF OrderInv
<1>2. QED
  BY <1>1, OrderIsInvariant, PTL

\* The audit accuses no honest peer, whatever the network does within the
\* sub-game (ruling A9a).
THEOREM HonestNotAccused ==
    ASSUME OnlyOwnMessages
    PROVE  Spec => []NoFalseForgery
<1>1. AuditInv => NoFalseForgery
  BY DEF AuditInv
<1>2. QED
  BY <1>1, OrderIsInvariant, PTL
=============================================================================
