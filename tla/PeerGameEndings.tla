-------------------------- MODULE PeerGameEndings --------------------------
(***************************************************************************)
(* What the two peers of PeerGame report is what happened on one board.    *)
(* TruthInv ties every message and every peer's own state to the sealed    *)
(* logs read as the trail of TurnGame; with it each step of PeerGame is a  *)
(* step of TurnGame or a stutter, and the properties about endings follow  *)
(* from the abstract game.  No message of another sub-game arrives.        *)
(***************************************************************************)
EXTENDS PeerGameProofs, FiniteSetTheorems

-----------------------------------------------------------------------------
(* The abstract game is played on the same board.                          *)

LEMMA SameBoard ==
    /\ Game!Roles = Roles /\ Game!Cells = Cells /\ Game!Directions = Directions
    /\ \A c, d : Game!Shift(c, d) = Shift(c, d)
    /\ \A c, d, w : Game!CanStep(c, d, w) <=> CanStep(c, d, w)
    /\ \A c, w : Game!Jailed(c, w) <=> Jailed(c, w)
    /\ \A c, w : Game!BarrierOptions(c, w) = BarrierOptions(c, w)
<1> USE DEF Game!Roles, Roles, Game!Cells, Cells, Game!Directions, Directions,
            Game!Delta, Delta, Game!Shift, Shift, Game!CanStep, CanStep,
            Game!Negotiated, Negotiated, Game!Orthogonals, Orthogonals,
            Game!Jailed, Jailed, Game!BarrierOptions, BarrierOptions
<1>1. /\ Game!Roles = Roles /\ Game!Cells = Cells /\ Game!Directions = Directions
      /\ \A c, d : Game!Shift(c, d) = Shift(c, d)
  OBVIOUS
<1>2. \A c, d, w : Game!CanStep(c, d, w) <=> CanStep(c, d, w)
  OBVIOUS
<1>3. \A c, w : Game!Jailed(c, w) <=> Jailed(c, w)
  OBVIOUS
<1>4. \A c, w : Game!BarrierOptions(c, w) = BarrierOptions(c, w)
  OBVIOUS
<1>5. QED
  BY <1>1, <1>2, <1>3, <1>4

\* One more barrier makes the set of them one larger.
LEMMA OneMore ==
    ASSUME NEW S, IsFiniteSet(S), NEW x, x \notin S
    PROVE  IsFiniteSet(S \cup {x}) /\ Cardinality(S \cup {x}) = Cardinality(S) + 1
  BY FS_AddElement

-----------------------------------------------------------------------------
(* The two logs as one trail.                                              *)

LEMMA TrailLengths ==
    ASSUME TypeInv, OrderInv
    PROVE  /\ log["police"] \in Seq(Records) /\ log["thief"] \in Seq(Records)
           /\ Len(log["police"]) \in Nat /\ Len(log["thief"]) \in Nat
           /\ Len(log["police"]) <= Len(log["thief"])
           /\ Len(log["thief"]) <= Len(log["police"]) + 1
<1>1. log["police"] \in Seq(Records) /\ log["thief"] \in Seq(Records)
  BY DEF TypeInv, TypeOK, Roles
<1>2. QED
  BY <1>1, Chain

LEMMA AfterType ==
    ASSUME TypeInv, NEW r \in Roles, NEW n \in 0 .. Len(log[r])
    PROVE  Game!After(r, n) \in Records
<1>1. log[r] \in Seq(Records)
  BY DEF TypeInv, TypeOK
<1>2. CASE n = 0
  <2>1. CopStart \in Cells /\ ThiefStart \in Cells
    BY PeerGameAssumption
  <2>2. QED
    BY <1>2, <2>1 DEF Game!After, Game!Opening, Records
<1>3. CASE n # 0
  BY <1>1, <1>3 DEF Game!After
<1>4. QED
  BY <1>2, <1>3

\* Every log keeps its records, or grows at its end.
Growing == \A q \in Roles : /\ Len(log'[q]) \in Nat /\ Len(log'[q]) >= Len(log[q])
                            /\ \A i \in 1 .. Len(log[q]) : log'[q][i] = log[q][i]

\* What has happened stays so.
LEMMA AfterKept ==
    ASSUME TypeInv, Growing, NEW r \in Roles, NEW n \in 0 .. Len(log[r])
    PROVE  Game!After(r, n)' = Game!After(r, n)
  BY DEF Game!After, Game!Opening, Growing

LEMMA CaughtKept ==
    ASSUME TypeInv, OrderInv, Growing, NEW n \in 0 .. Len(log["police"])
    PROVE  Game!CaughtAt(n)' <=> Game!CaughtAt(n)
<1>1. n \in 0 .. Len(log["thief"]) /\ (n # 0 => n - 1 \in 0 .. Len(log["police"]))
  BY TrailLengths
<1>2. /\ Game!After("police", n)' = Game!After("police", n)
      /\ Game!After("thief", n)' = Game!After("thief", n)
  BY <1>1, AfterKept DEF Roles
<1>3. n # 0 => Game!After("police", n - 1)' = Game!After("police", n - 1)
  BY <1>1, AfterKept DEF Roles
<1>4. n \in 1 .. Len(log'["police"]) <=> n \in 1 .. Len(log["police"])
  BY TrailLengths DEF Growing, Roles
<1>5. CASE n = 0
  BY <1>5, <1>4 DEF Game!CaughtAt, Game!Taken
<1>6. CASE n # 0
  BY <1>2, <1>3, <1>4, <1>6 DEF Game!CaughtAt, Game!Taken, Game!Jailed, Game!CanStep,
     Game!Negotiated, Game!Orthogonals, Game!Cells, Game!Shift, Game!Delta
<1>7. QED
  BY <1>5, <1>6

\* Nothing on the board changes as long as nothing is sealed.
LEMMA SameTrail ==
    ASSUME log' = log
    PROVE  /\ \A r, n : Game!After(r, n)' = Game!After(r, n)
           /\ \A n : Game!CaughtAt(n)' <=> Game!CaughtAt(n)
           /\ \A r : Game!Now(r)' = Game!Now(r)
           /\ Game!Caught' <=> Game!Caught
           /\ Game!ThiefToStep' <=> Game!ThiefToStep
           /\ \A m : Truthful(m)' <=> Truthful(m)
<1>1. \A r, n : Game!After(r, n)' = Game!After(r, n)
  BY DEF Game!After, Game!Opening
<1>2. \A n : Game!CaughtAt(n)' <=> Game!CaughtAt(n)
  BY <1>1 DEF Game!CaughtAt, Game!Taken, Game!Jailed, Game!CanStep, Game!Negotiated,
     Game!Orthogonals, Game!Cells, Game!Shift, Game!Delta
<1>3. /\ \A r : Game!Now(r)' = Game!Now(r)
      /\ Game!Caught' <=> Game!Caught
      /\ Game!ThiefToStep' <=> Game!ThiefToStep
  BY <1>1, <1>2 DEF Game!Now, Game!Caught, Game!ThiefToStep, Game!Taken
<1>4. \A m : Truthful(m)' <=> Truthful(m)
  BY <1>1, <1>2 DEF Truthful
<1>5. QED
  BY <1>1, <1>2, <1>3, <1>4

-----------------------------------------------------------------------------
(* The three kinds of turn.                                                *)

\* The fallback moves, when it moves at all.
LEMMA FallbackMoves ==
    ASSUME NEW r \in Roles, NEW a \in Fallback(r), a # Hold
    PROVE  a.type = "MOVE" /\ a.dir # "STAY"
<1> DEFINE first == FirstLegal(pos[r], walls[r])
<1>1. ~(first \subseteq {"STAY"}) /\ a \in [type : {"MOVE"}, dir : first]
  BY DEF Fallback
<1>2. \A d, e \in first : d = e
  <2> SUFFICES ASSUME NEW d \in first, NEW e \in first PROVE d = e
    OBVIOUS
  <2> DEFINE legal == {i \in DOMAIN MoveSet : CanStep(pos[r], MoveSet[i], walls[r])}
  <2>1. PICK i \in legal : d = MoveSet[i] /\ \A k \in legal : i <= k
    BY DEF FirstLegal
  <2>2. PICK j \in legal : e = MoveSet[j] /\ \A k \in legal : j <= k
    BY DEF FirstLegal
  <2>3. i \in Nat /\ j \in Nat
    BY BoardAssumption
  <2>4. QED
    BY <2>1, <2>2, <2>3
<1>3. QED
  BY <1>1, <1>2

LEMMA PlayMoves ==
    ASSUME NEW r \in Roles, NEW a \in Plays(r), a.type = "MOVE"
    PROVE  a.dir # "STAY" /\ due[r] # "caught"
<1>1. a # Hold
  BY DEF Hold
<1>2. PICK b \in Decisions : a \in Guard(r, b) /\ due[r] # "caught"
  BY <1>1 DEF Plays
<1>3. QED
  BY <1>1, <1>2, FallbackMoves DEF Guard

LEMMA ShiftMoves ==
    ASSUME NEW c \in Cells, NEW d \in Directions, d # "STAY"
    PROVE  Shift(c, d) # c
<1>1. c[1] \in Int /\ c[2] \in Int
  BY BoardAssumption DEF Cells
<1>2. QED
  BY <1>1 DEF Shift, Delta, Directions

\* A turn holds, moves one cell or builds one barrier, and its message says so.
Held(r, rec, m) ==
    rec = [pos |-> pos[r], walls |-> walls[r]] /\ m.claim = None /\ m.barrier = None

Moved(r, rec, m) ==
    /\ due[r] # "caught"
    /\ \E d \in Directions : CanStep(pos[r], d, walls[r]) /\ rec.pos = Shift(pos[r], d)
    /\ rec.pos # pos[r] /\ rec.walls = walls[r]
    /\ m.claim = (IF r = "police" THEN rec.pos ELSE None) /\ m.barrier = None

Built(r, rec, m) ==
    /\ r = "police" /\ placed[r] < MaxBarriers
    /\ m.barrier \in BarrierOptions(pos[r], walls[r]) /\ m.barrier \in Cells \ walls[r]
    /\ rec = [pos |-> pos[r], walls |-> walls[r] \cup {m.barrier}] /\ m.claim = None

\* The turn of r that seals record rec and sends message m.
Turn(r, rec, m) ==
    /\ Held(r, rec, m) \/ Moved(r, rec, m) \/ Built(r, rec, m)
    /\ m.from = r /\ m.step = Len(log[r]) + 1 /\ m.answer = due[r]
    /\ m.win <=> r = "thief" /\ due[r] # "caught" /\ m.step >= SurvivalThreshold
    /\ pos' = [pos EXCEPT ![r] = rec.pos]
    /\ walls' = [walls EXCEPT ![r] = rec.walls]
    /\ placed' = [placed EXCEPT ![r] = IF m.barrier = None THEN placed[r]
                                                         ELSE placed[r] + 1]
    /\ log' = [log EXCEPT ![r] = Append(log[r], rec)]
    /\ call' = [call EXCEPT ![r] = [msg |-> m, try |-> 1, ack |-> FALSE]]
    /\ wire' = wire \cup {Copy(m, 1)}

LEMMA TurnTaken ==
    ASSUME TypeInv, NEW r \in Roles, TakeTurn(r)
    PROVE  \E rec \in Records, m \in TurnMessages : Turn(r, rec, m)
<1>1. PICK a \in Plays(r) :
        LET built == IF a.type = "BARRIER" THEN {Shift(pos[r], a.dir)} ELSE {}
            rec == [pos |-> IF a.type = "MOVE" THEN Shift(pos[r], a.dir) ELSE pos[r],
                    walls |-> walls[r] \cup built]
            m == Compose(r, a, rec)
        IN  /\ pos' = [pos EXCEPT ![r] = rec.pos]
            /\ walls' = [walls EXCEPT ![r] = rec.walls]
            /\ placed' = [placed EXCEPT ![r] = IF built = {} THEN @ ELSE @ + 1]
            /\ log' = [log EXCEPT ![r] = Append(@, rec)]
            /\ call' = [call EXCEPT ![r] = [msg |-> m, try |-> 1, ack |-> FALSE]]
            /\ wire' = wire \cup {Copy(m, 1)}
  BY DEF TakeTurn
<1> DEFINE built == IF a.type = "BARRIER" THEN {Shift(pos[r], a.dir)} ELSE {}
           rec == [pos |-> IF a.type = "MOVE" THEN Shift(pos[r], a.dir) ELSE pos[r],
                   walls |-> walls[r] \cup built]
           m == Compose(r, a, rec)
<1>2. rec \in Records /\ m \in TurnMessages
  BY TurnType, ComposeType DEF TypeInv
<1>3. /\ m.from = r /\ m.step = Len(log[r]) + 1 /\ m.answer = due[r]
      /\ m.barrier = IF a.type = "BARRIER" THEN Shift(pos[r], a.dir) ELSE None
      /\ m.claim = IF r = "police" /\ a.type = "MOVE" THEN rec.pos ELSE None
      /\ m.win <=> r = "thief" /\ due[r] # "caught" /\ m.step >= SurvivalThreshold
  BY DEF Compose
<1>4. pos[r] \in Cells /\ None \notin Cells
  BY PeerGameAssumption DEF TypeInv, TypeOK
<1>5. Held(r, rec, m) \/ Moved(r, rec, m) \/ Built(r, rec, m)
  <2>1. CASE a = Hold
    BY <1>3, <2>1 DEF Held, Hold
  <2>2. CASE a.type = "MOVE" /\ a.dir \in Directions /\ CanStep(pos[r], a.dir, walls[r])
    <3>1. a.dir # "STAY" /\ due[r] # "caught"
      BY <2>2, PlayMoves
    <3>2. rec.pos = Shift(pos[r], a.dir) /\ rec.walls = walls[r]
      BY <2>2
    <3>3. rec.pos # pos[r]
      BY <1>4, <2>2, <3>1, <3>2, ShiftMoves
    <3>4. QED
      BY <1>3, <2>2, <3>1, <3>2, <3>3 DEF Moved
  <2>3. CASE a.type = "BARRIER" /\ a.dir \in Directions /\ CanBuild(r, a.dir)
    <3>1. /\ Shift(pos[r], a.dir) \in Cells \ walls[r] /\ r = "police"
          /\ placed[r] < MaxBarriers /\ Shift(pos[r], a.dir) \in BarrierOptions(pos[r], walls[r])
      BY <1>4, <2>3, BuildInReach DEF CanBuild
    <3>2. QED
      BY <1>3, <2>3, <3>1 DEF Built
  <2>4. QED
    BY <2>1, <2>2, <2>3, GuardLegal
<1>6. built = {} <=> m.barrier = None
  <2>1. a.type = "BARRIER" => Shift(pos[r], a.dir) \in Cells
    BY <1>4, PlayLegal
  <2>2. QED
    BY <1>3, <1>4, <2>1
<1> HIDE DEF rec, m, built
<1>7. /\ placed' = [placed EXCEPT ![r] = IF m.barrier = None THEN placed[r]
                                                           ELSE placed[r] + 1]
      /\ log' = [log EXCEPT ![r] = Append(log[r], rec)]
      /\ pos' = [pos EXCEPT ![r] = rec.pos] /\ walls' = [walls EXCEPT ![r] = rec.walls]
      /\ call' = [call EXCEPT ![r] = [msg |-> m, try |-> 1, ack |-> FALSE]]
      /\ wire' = wire \cup {Copy(m, 1)}
  BY <1>1, <1>6 DEF rec, m, built
<1>8. QED
  BY <1>2, <1>3, <1>5, <1>7 DEF Turn

-----------------------------------------------------------------------------
(* Steps that seal nothing.                                                *)

\* Only a turn puts a new message under way.
LEMMA NoNews ==
    ASSUME TypeInv, OrderInv, OnlyOwnMessages, [Next]_vars,
           \A r \in Roles : ~TakeTurn(r)
    PROVE  InTransit' \subseteq InTransit
<1>1. ASSUME NEW r \in Roles, Peer(r) PROVE InTransit' \subseteq InTransit
  <2>1. CASE SendReturns(r) \/ GiveUp(r)
    BY <2>1, CallClosedOrder
  <2>2. CASE Retry(r)
    BY <2>2, RetryOrder
  <2>3. CASE Accept(r) \/ BeliefRaises(r) \/ DropDuplicate(r)
    <3>1. Reads(r) /\ Pop(r) /\ UNCHANGED <<call, wire>>
      BY <2>3 DEF Accept, BeliefRaises, DropDuplicate, Fold
    <3>2. QED
      BY <3>1, PopTransit
  <2>4. CASE BrainRaises(r) \/ TurnTimeout(r) \/ Reveal(r) \/ ReadAudit(r) \/ AuditTimeout(r)
    <3>1. UNCHANGED <<call, wire, turns>>
      BY <2>4 DEF BrainRaises, TurnTimeout, Reveal, ReadAudit, AuditTimeout, net
    <3>2. QED
      BY <3>1 DEF InTransit
  <2>5. QED
    BY <1>1, <2>1, <2>2, <2>3, <2>4, RejectNever DEF Peer
<1>2. \A r \in Roles : ~Stray(r)
  BY DEF Stray, OnlyOwnMessages
<1>3. ASSUME NEW c \in wire, Deliver(c) \/ Lose(c) PROVE InTransit' \subseteq InTransit
  BY <1>3, DeliverOrder, LoseOrder
<1>4. CASE UNCHANGED vars
  BY <1>4 DEF vars, net, InTransit
<1>5. QED
  BY <1>1, <1>2, <1>3, <1>4 DEF Next, Finished

\* A step of control: whoever stays in play keeps its place there.
Keeps(q) == /\ fsm'[q] = fsm[q] /\ result'[q] = result[q] /\ due'[q] = due[q]
            /\ walls'[q] = walls[q]
            /\ fsm[q] = "SENDING" => call'[q].msg = call[q].msg
Leaves == /\ UNCHANGED <<log, pos>>
          /\ \A q \in Roles : ~InPlay(q)' \/ Keeps(q)

LEMMA LeavesMove ==
    ASSUME MoveInv, Leaves
    PROVE  MoveInv'
<1>1. /\ \A r : Game!Now(r)' = Game!Now(r)
      /\ Game!Caught' <=> Game!Caught
      /\ Game!ThiefToStep' <=> Game!ThiefToStep
  BY SameTrail DEF Leaves
<1>2. log' = log /\ pos' = pos /\ "thief" \in Roles /\ "police" \in Roles
  BY DEF Leaves, Roles
<1>3. \A r \in Roles : InPlay(r)' => result'[r] = "pending"
  BY DEF MoveInv, Leaves, Keeps, InPlay
<1>4. \A r \in Roles : fsm'[r] = "SENDING" =>
           call'[r].msg.from = r /\ call'[r].msg.step = Len(log'[r])
  BY <1>2 DEF MoveInv, Leaves, Keeps, InPlay
<1>5. /\ fsm'["thief"] = "MY_TURN" =>
           /\ due'["thief"] = "caught" <=> Game!Caught'
           /\ Game!Caught' \/ Len(log'["police"]) < MaxMoves
      /\ fsm'["thief"] = "OPP_TURN" =>
           Game!ThiefToStep' \/ (~Game!Caught' /\ Len(log'["thief"]) < SurvivalThreshold)
  <2>1. CASE Keeps("thief")
    BY <1>1, <1>2, <2>1 DEF MoveInv, Keeps
  <2>2. CASE ~InPlay("thief")'
    BY <2>2 DEF InPlay
  <2>3. QED
    BY <1>2, <2>1, <2>2 DEF Leaves
<1>6. pos'["thief"] \in walls'["thief"] => Yielding'
  <2>1. CASE Keeps("thief")
    BY <1>2, <2>1 DEF MoveInv, Keeps, Yielding, InPlay
  <2>2. CASE ~InPlay("thief")'
    BY <2>2 DEF Yielding
  <2>3. QED
    BY <1>2, <2>1, <2>2 DEF Leaves
<1>7. /\ fsm'["police"] = "MY_TURN" =>
           ~Game!Caught' /\ Len(log'["thief"]) < SurvivalThreshold
      /\ fsm'["police"] = "OPP_TURN" => Len(log'["police"]) < MaxMoves
  <2>1. CASE InPlay("police")'
    BY <1>1, <1>2, <2>1 DEF MoveInv, Leaves, Keeps
  <2>2. CASE ~InPlay("police")'
    BY <2>2 DEF InPlay
  <2>3. QED
    BY <2>1, <2>2
<1>8. QED
  BY <1>3, <1>4, <1>5, <1>6, <1>7 DEF MoveInv

LEMMA StillTruth ==
    ASSUME TruthInv, MoveInv', UNCHANGED <<log, pos, placed>>,
           InTransit' \subseteq InTransit, walls'["police"] = walls["police"],
           walls'["thief"] \subseteq walls["police"]
    PROVE  TruthInv'
<1>1. /\ \A r : Game!Now(r)' = Game!Now(r)
      /\ \A m : Truthful(m)' <=> Truthful(m)
  BY SameTrail
<1>2. Standing'
  BY <1>1 DEF TruthInv, Standing
<1>3. QED
  BY <1>1, <1>2 DEF TruthInv

\* Steps that end a peer's part, repeat a request or move the ending on.
LEMMA PeerLeaves ==
    ASSUME TypeInv, NEW r \in Roles,
           \/ BrainRaises(r) \/ Retry(r) \/ GiveUp(r) \/ BeliefRaises(r) \/ DropDuplicate(r)
           \/ TurnTimeout(r) \/ Reveal(r) \/ ReadAudit(r) \/ AuditTimeout(r)
    PROVE  Leaves
<1>1. /\ fsm \in [Roles -> States] /\ result \in [Roles -> Results]
      /\ call \in [Roles -> Calls \cup {None}] /\ walls \in [Roles -> SUBSET Cells]
  BY DEF TypeInv, TypeOK
<1>2. UNCHANGED <<log, pos, due>>
  BY DEF BrainRaises, Retry, GiveUp, BeliefRaises, DropDuplicate, TurnTimeout, Reveal,
         ReadAudit, AuditTimeout, Fold, own, gate
<1>3. CASE BrainRaises(r) \/ GiveUp(r) \/ TurnTimeout(r) \/ BeliefRaises(r)
  <2>1. fsm' = [fsm EXCEPT ![r] = "GAME_OVER"] /\ result' = [result EXCEPT ![r] = "technical_loss"]
    BY <1>3 DEF BrainRaises, GiveUp, TurnTimeout, BeliefRaises, Ends
  <2>2. \A q \in Roles : q # r => call'[q] = call[q] /\ walls'[q] = walls[q]
    BY <1>1, <1>3 DEF BrainRaises, GiveUp, TurnTimeout, BeliefRaises, Fold, own, net
  <2>3. QED
    BY <1>1, <1>2, <2>1, <2>2 DEF Leaves, Keeps, InPlay
<1>4. CASE Reveal(r) \/ ReadAudit(r) \/ AuditTimeout(r)
  <2>1. \E s \in {"AUDITING", "DONE"} : fsm' = [fsm EXCEPT ![r] = s]
    BY <1>4 DEF Reveal, ReadAudit, AuditTimeout, Goes
  <2>2. \A q \in Roles : q # r => result'[q] = result[q]
    BY <1>1, <1>4 DEF Reveal, ReadAudit, AuditTimeout, Goes
  <2>3. UNCHANGED <<call, walls>>
    BY <1>4 DEF Reveal, ReadAudit, AuditTimeout, own, net
  <2>4. QED
    BY <1>1, <1>2, <2>1, <2>2, <2>3 DEF Leaves, Keeps, InPlay
<1>5. CASE DropDuplicate(r)
  BY <1>2, <1>5 DEF DropDuplicate, Leaves, Keeps, own
<1>6. CASE Retry(r)
  <2>1. UNCHANGED <<fsm, result, walls>> /\ fsm[r] = "SENDING"
    BY <1>6 DEF Retry, AttemptFails, own
  <2>2. call[r] \in Calls
    BY <2>1 DEF TypeInv, CallOpen
  <2>3. \A q \in Roles : fsm[q] = "SENDING" => call'[q].msg = call[q].msg
    BY <1>1, <1>6, <2>2 DEF Retry, Calls
  <2>4. QED
    BY <1>2, <2>1, <2>3 DEF Leaves, Keeps
<1>7. QED
  BY <1>3, <1>4, <1>5, <1>6

LEMMA NetworkLeaves ==
    ASSUME TypeInv, NEW c \in wire, Deliver(c) \/ Lose(c)
    PROVE  Leaves
<1>1. UNCHANGED <<log, pos, due, fsm, result, walls>>
  BY DEF Deliver, Lose, own, gate
<1>2. \A q \in Roles : fsm[q] = "SENDING" => call'[q].msg = call[q].msg
  <2>1. call \in [Roles -> Calls \cup {None}]
    BY DEF TypeInv, TypeOK
  <2>2. \/ call' = call
        \/ call' = [call EXCEPT ![c.msg.from] = [call[c.msg.from] EXCEPT !.ack = TRUE]]
    BY DEF Deliver, Lose
  <2>3. \A q \in Roles : fsm[q] = "SENDING" => call[q] \in Calls
    BY DEF TypeInv, CallOpen
  <2>4. \A q \in Roles : call[q] \in Calls => [call[q] EXCEPT !.ack = TRUE].msg = call[q].msg
    BY DEF Calls
  <2>5. QED
    BY <2>1, <2>2, <2>3, <2>4
<1>3. QED
  BY <1>1, <1>2 DEF Leaves, Keeps

\* What accepting a message means on the one board.
LEMMA Applied ==
    ASSUME TypeInv, OrderInv, NEW r \in Roles, Accept(r) \/ BeliefRaises(r),
           NEW m, m = Head(turns[r])
    PROVE  /\ m \in InTransit /\ m \in TurnMessages /\ m.from = Opp(r) /\ fsm[r] = "OPP_TURN"
           /\ m.step = LastStep(r) + 1 /\ m.step = Len(log[Opp(r)])
           /\ UNCHANGED <<log, pos, placed>>
           /\ seen' = [seen EXCEPT ![r] = Append(seen[r], m.commit)]
           /\ r = "police" => walls' = walls
           /\ r = "thief" => /\ walls["police"] = walls["thief"] \cup ({m.barrier} \ {None})
                             /\ walls'["police"] = walls["police"]
                             /\ walls'["thief"] = walls["police"]
<1>1. Reads(r) /\ Fresh(r, m) /\ Fold(r, m)
  BY DEF Accept, BeliefRaises
<1>2. /\ m \in InTransit /\ m \in TurnMessages /\ m.from = Opp(r) /\ Genuine(m)
      /\ fsm[r] = "OPP_TURN"
  BY <1>1, HeadGenuine DEF Reads
<1>3. m.step = LastStep(r) + 1 /\ m.step = Len(log[Opp(r)])
  <2>1. m.step = LastStep(r) + 1
    BY <1>1 DEF Fresh, Valid
  <2>2. QED
    BY <1>1, <2>1, HeadStep
<1>4. /\ walls' = [walls EXCEPT ![r] = walls[r] \cup ({m.barrier} \ {None})]
      /\ UNCHANGED <<log, pos, placed>>
      /\ seen' = [seen EXCEPT ![r] = Append(seen[r], m.commit)]
  BY <1>1 DEF Fold
<1>5. walls \in [Roles -> SUBSET Cells]
  BY DEF TypeInv, TypeOK
<1>6. r = "police" => walls' = walls
  <2>1. r = "police" => m.barrier = None
    BY <1>2 DEF Genuine, Opp
  <2>2. QED
    BY <1>4, <1>5, <2>1
<1>7. CASE r = "thief"
  <2>1. Unread(m)
    BY <1>2, <1>3, <1>7, Chain DEF Unread, Opp
  <2>2. walls["police"] = walls["thief"] \cup ({m.barrier} \ {None})
    BY <1>2, <2>1 DEF OrderInv, Missing
  <2>3. QED
    BY <1>2, <1>3, <1>4, <1>5, <1>7, <2>2 DEF Roles
<1>8. QED
  BY <1>2, <1>3, <1>4, <1>6, <1>7 DEF Roles

LEMMA LeavesTruth ==
    ASSUME TypeInv, OrderInv, TruthInv, Leaves, InTransit' \subseteq InTransit,
           UNCHANGED <<placed, walls>>
    PROVE  TruthInv'
<1>1. MoveInv'
  BY LeavesMove DEF TruthInv
<1>2. UNCHANGED <<log, pos>> /\ walls["thief"] \subseteq walls["police"]
  BY DEF Leaves, TruthInv, Standing
<1>3. QED
  BY <1>1, <1>2, StillTruth

-----------------------------------------------------------------------------
(* A call that returns: the message sent is the peer's last.               *)

LEMMA SentLast ==
    ASSUME TypeInv, OrderInv, TruthInv, NEW r \in Roles, fsm[r] = "SENDING"
    PROVE  /\ call[r].msg \in InTransit /\ call[r].msg \in TurnMessages
           /\ call[r].msg.from = r /\ call[r].msg.step = Len(log[r])
           /\ Genuine(call[r].msg) /\ Truthful(call[r].msg)
<1>1. call[r] \in Calls /\ call[r] # None
  BY PeerGameAssumption DEF TypeInv, CallOpen
<1>2. call[r].msg \in InTransit /\ call[r].msg \in TurnMessages
  BY <1>1, TransitHas DEF Calls
<1>3. QED
  BY <1>2 DEF TruthInv, MoveInv, OrderInv

LEMMA ReturnMove ==
    ASSUME TypeInv, OrderInv, TruthInv, NEW r \in Roles, SendReturns(r)
    PROVE  MoveInv'
<1> DEFINE m == call[r].msg
<1>1. /\ fsm \in [Roles -> States] /\ result \in [Roles -> Results]
      /\ call \in [Roles -> Calls \cup {None}] /\ "thief" \in Roles /\ "police" \in Roles
  BY DEF TypeInv, TypeOK, Roles
<1>2. /\ UNCHANGED <<log, pos, due, walls>> /\ fsm[r] = "SENDING"
      /\ call' = [call EXCEPT ![r] = None]
  BY DEF SendReturns, own, gate
<1>3. \A q \in Roles : q # r => call'[q] = call[q]
  BY <1>1, <1>2
<1>4. MoveInv
  BY DEF TruthInv
<1>5. CASE fsm' = [fsm EXCEPT ![r] = "GAME_OVER"]
  <2>1. \A q \in Roles : q # r => result'[q] = result[q]
    BY <1>1 DEF SendReturns, Ends, Goes
  <2>2. Leaves
    BY <1>1, <1>2, <1>3, <1>5, <2>1 DEF Leaves, Keeps, InPlay
  <2>3. QED
    BY <1>4, <2>2, LeavesMove
<1>6. CASE /\ fsm' = [fsm EXCEPT ![r] = "OPP_TURN"] /\ result' = result
           /\ ~Terminal(m) /\ ~Spent(m)
  <2>1. /\ \A q : Game!Now(q)' = Game!Now(q)
        /\ Game!Caught' <=> Game!Caught
        /\ Game!ThiefToStep' <=> Game!ThiefToStep
    BY <1>2, SameTrail
  <2>2. m.from = r /\ m.step = Len(log[r]) /\ Truthful(m)
    BY <1>2, SentLast
  <2>3. fsm'[r] = "OPP_TURN" /\ \A q \in Roles : q # r => fsm'[q] = fsm[q]
    BY <1>1, <1>6
  <2>4. CASE r = "thief"
    <3>1. m.answer # "caught" /\ ~m.win /\ ~Game!CaughtAt(m.step - 1)
      BY <1>6, <2>2, <2>4 DEF Terminal, Truthful
    <3>2. Len(log["thief"]) < SurvivalThreshold
      BY <2>2, <2>4, <3>1, TrailLengths, PeerGameAssumption DEF Truthful
    <3>3. Game!ThiefToStep \/ ~Game!Caught
      <4>1. Len(log["thief"]) = Len(log["police"]) \/ m.step - 1 = Len(log["police"])
        BY <2>2, <2>4, TrailLengths
      <4>2. QED
        BY <3>1, <4>1 DEF Game!ThiefToStep, Game!Caught, Game!Taken
    <3>4. pos'["thief"] \notin walls'["thief"]
      BY <1>2, <1>4, <2>4, <3>1 DEF MoveInv, Yielding, InPlay
    <3>5. /\ \A q \in Roles : InPlay(q)' => result'[q] = "pending"
          /\ \A q \in Roles : fsm'[q] = "SENDING" =>
                call'[q].msg.from = q /\ call'[q].msg.step = Len(log'[q])
      BY <1>2, <1>3, <1>4, <1>6, <2>3 DEF MoveInv, InPlay
    <3>6. fsm'["police"] = fsm["police"] /\ fsm'["thief"] = "OPP_TURN"
      BY <1>1, <2>3, <2>4
    <3>7. QED
      BY <1>2, <1>4, <2>1, <3>2, <3>3, <3>4, <3>5, <3>6 DEF MoveInv
  <2>5. CASE r = "police"
    <3>1. Len(log["police"]) < MaxMoves
      BY <1>6, <2>2, <2>5, TrailLengths, PeerGameAssumption DEF Spent
    <3>2. /\ \A q \in Roles : InPlay(q)' => result'[q] = "pending"
          /\ \A q \in Roles : fsm'[q] = "SENDING" =>
                call'[q].msg.from = q /\ call'[q].msg.step = Len(log'[q])
      BY <1>2, <1>3, <1>4, <1>6, <2>3 DEF MoveInv, InPlay
    <3>3. /\ fsm'["police"] = "OPP_TURN" /\ fsm'["thief"] = fsm["thief"]
          /\ call'["thief"] = call["thief"]
      BY <1>1, <1>3, <2>3, <2>5
    <3>4. pos'["thief"] \in walls'["thief"] => Yielding'
      BY <1>2, <1>4, <3>3 DEF MoveInv, Yielding, InPlay
    <3>5. QED
      BY <1>2, <1>4, <2>1, <3>1, <3>2, <3>3, <3>4 DEF MoveInv
  <2>6. QED
    BY <2>4, <2>5 DEF Roles
<1>7. QED
  BY <1>5, <1>6 DEF SendReturns, Ends, Goes

-----------------------------------------------------------------------------
(* A turn applied: the thief's answer is the referee's.                    *)

LEMMA AnswerTruth ==
    ASSUME TypeInv, OrderInv, TruthInv, Accept("thief"), NEW m, m = Head(turns["thief"])
    PROVE  Answer("thief", m, walls["thief"] \cup ({m.barrier} \ {None})) = "caught"
              <=> Game!Caught
<1> DEFINE here == pos["thief"]
           rec == Game!Now("police")
           was == Game!After("police", Len(log["police"]) - 1)
<1>1. /\ m \in InTransit /\ m \in TurnMessages /\ m.from = "police" /\ fsm["thief"] = "OPP_TURN"
      /\ m.step = LastStep("thief") + 1 /\ m.step = Len(log["police"])
      /\ walls["police"] = walls["thief"] \cup ({m.barrier} \ {None})
  BY Applied DEF Opp, Roles
<1>2. Len(log["police"]) \in Nat /\ Len(log["police"]) >= 1 /\ Len(log["thief"]) = Len(log["police"])
  <2>1. InPhase("thief")
    BY DEF OrderInv, Roles
  <2>2. Len(log["thief"]) = LastStep("thief") + 1
    BY <1>1, <2>1 DEF InPhase, Turns
  <2>3. QED
    BY <1>1, <2>2, Chain
<1>3. /\ Game!Now("thief").pos = here /\ rec.walls = walls["police"]
      /\ here \notin walls["thief"] /\ here \in Cells /\ None \notin Cells
  BY <1>1, PeerGameAssumption DEF TruthInv, Standing, MoveInv, Yielding, InPlay, Roles, TypeInv, TypeOK
<1>4. /\ rec = Game!After("police", Len(log["police"]))
      /\ Game!Now("thief") = Game!After("thief", Len(log["police"]))
  BY <1>2 DEF Game!Now, Game!Taken
<1>5. /\ m.claim = IF rec.pos # was.pos THEN rec.pos ELSE None
      /\ m.barrier # None <=> rec.walls # was.walls
  BY <1>1, <1>4 DEF TruthInv, Truthful
<1>6. rec.pos \in Cells
  BY <1>2, <1>4, AfterType DEF Records, Roles
<1> HIDE DEF here, rec, was
<1>7. Game!Caught <=> \/ rec.pos # was.pos /\ rec.pos = here
                      \/ rec.walls # was.walls /\ (here \in rec.walls \/ Jailed(here, rec.walls))
  BY <1>2, <1>3, <1>4, SameBoard DEF Game!Caught, Game!CaughtAt, Game!Taken, was
<1>8. m.claim # None /\ m.claim = here <=> rec.pos # was.pos /\ rec.pos = here
  BY <1>3, <1>5, <1>6
<1>9. m.barrier # None => (m.barrier = here <=> here \in rec.walls)
  BY <1>1, <1>3
<1>10. QED
  BY <1>1, <1>3, <1>5, <1>7, <1>8, <1>9 DEF Answer, here

\* The police learns from the thief's message whether it goes on.
LEMMA ReplyTruth ==
    ASSUME TypeInv, OrderInv, TruthInv, Accept("police"), NEW m, m = Head(turns["police"])
    PROVE  /\ m.answer = "caught" <=> Game!Caught
           /\ m.win <=> ~Game!Caught /\ Len(log["thief"]) >= SurvivalThreshold
           /\ Len(log["thief"]) = Len(log["police"]) + 1
<1>1. /\ m \in InTransit /\ m.from = "thief" /\ fsm["police"] = "OPP_TURN"
      /\ m.step = LastStep("police") + 1 /\ m.step = Len(log["thief"])
  BY Applied DEF Opp, Roles
<1>2. Len(log["thief"]) = Len(log["police"]) + 1
  <2>1. InPhase("police")
    BY DEF OrderInv, Roles
  <2>2. QED
    BY <1>1, <2>1, Chain DEF InPhase, Turns
<1>3. m.step - 1 = Len(log["police"])
  BY <1>1, <1>2, TrailLengths
<1>4. m.answer = "caught" <=> Game!Caught
  BY <1>1, <1>3 DEF TruthInv, Truthful, Game!Caught, Game!Taken
<1>5. m.win <=> ~Game!Caught /\ Len(log["thief"]) >= SurvivalThreshold
  BY <1>1, <1>4 DEF TruthInv, Truthful
<1>6. QED
  BY <1>2, <1>4, <1>5

LEMMA AcceptMove ==
    ASSUME TypeInv, OrderInv, TruthInv, NEW r \in Roles, Accept(r)
    PROVE  MoveInv'
<1> DEFINE m == Head(turns[r])
           answer == IF r = "thief" THEN Answer(r, m, walls[r] \cup ({m.barrier} \ {None}))
                                    ELSE "none"
<1>1. /\ fsm \in [Roles -> States] /\ result \in [Roles -> Results] /\ due \in [Roles -> Answers]
      /\ walls \in [Roles -> SUBSET Cells] /\ "thief" \in Roles /\ "police" \in Roles
  BY DEF TypeInv, TypeOK, Roles
<1>2. /\ m \in InTransit /\ m \in TurnMessages /\ m.from = Opp(r) /\ fsm[r] = "OPP_TURN"
      /\ m.step = Len(log[Opp(r)]) /\ UNCHANGED <<log, pos>>
      /\ r = "police" => walls' = walls
      /\ r = "thief" => /\ walls["police"] = walls["thief"] \cup ({m.barrier} \ {None})
                        /\ walls'["police"] = walls["police"]
                        /\ walls'["thief"] = walls["police"]
  BY Applied
<1>3. call' = call /\ due' = [due EXCEPT ![r] = answer]
  BY DEF Accept, Fold
<1>4. MoveInv
  BY DEF TruthInv
<1>5. CASE fsm' = [fsm EXCEPT ![r] = "GAME_OVER"]
  <2>1. \A q \in Roles : q # r => result'[q] = result[q] /\ due'[q] = due[q] /\ fsm'[q] = fsm[q]
    BY <1>1, <1>3, <1>5 DEF Accept, Ends, Goes
  <2>2. \A q \in Roles : q # r => walls'[q] = walls[q]
    BY <1>2 DEF Roles
  <2>3. ~InPlay(r)'
    BY <1>1, <1>5 DEF InPlay
  <2>4. Leaves
    BY <1>2, <1>3, <2>1, <2>2, <2>3 DEF Leaves, Keeps
  <2>5. QED
    BY <1>4, <2>4, LeavesMove
<1>6. CASE /\ fsm' = [fsm EXCEPT ![r] = "MY_TURN"] /\ result' = result
           /\ ~Terminal(m) /\ ~(answer # "caught" /\ Spent(m))
  <2>1. /\ \A q : Game!Now(q)' = Game!Now(q)
        /\ Game!Caught' <=> Game!Caught
        /\ Game!ThiefToStep' <=> Game!ThiefToStep
    BY <1>2, SameTrail
  <2>2. fsm'[r] = "MY_TURN" /\ \A q \in Roles : q # r => fsm'[q] = fsm[q] /\ due'[q] = due[q]
    BY <1>1, <1>3, <1>6
  <2>3. /\ \A q \in Roles : InPlay(q)' => result'[q] = "pending"
        /\ \A q \in Roles : fsm'[q] = "SENDING" =>
              call'[q].msg.from = q /\ call'[q].msg.step = Len(log'[q])
    BY <1>2, <1>3, <1>4, <1>6, <2>2 DEF MoveInv, InPlay
  <2>4. CASE r = "thief"
    <3>1. due'["thief"] = answer /\ (answer = "caught" <=> Game!Caught)
      BY <1>1, <1>3, <2>4, AnswerTruth
    <3>2. answer = "caught" \/ Len(log["police"]) < MaxMoves
      BY <1>2, <1>6, <2>4, TrailLengths, PeerGameAssumption DEF Spent, Opp
    <3>3. pos'["thief"] \in walls'["thief"] => answer = "caught"
      <4> SUFFICES ASSUME pos["thief"] \in walls["police"] PROVE answer = "caught"
        BY <1>2, <2>4
      <4>1. pos["thief"] \notin walls["thief"]
        BY <1>2, <1>4, <2>4 DEF MoveInv, Yielding, InPlay
      <4>2. m.barrier # None /\ m.barrier = pos["thief"]
        BY <1>2, <2>4, <4>1
      <4>3. QED
        BY <2>4, <4>2 DEF Answer
    <3> HIDE DEF answer
    <3>4. fsm'["police"] = fsm["police"] /\ fsm'["thief"] = "MY_TURN"
      BY <1>1, <2>2, <2>4
    <3>5. QED
      BY <1>2, <1>4, <2>1, <2>3, <3>1, <3>2, <3>3, <3>4 DEF MoveInv, Yielding
  <2>5. CASE r = "police"
    <3>1. ~Game!Caught /\ Len(log["thief"]) < SurvivalThreshold
      <4>1. ~Game!Caught /\ ~(Len(log["thief"]) >= SurvivalThreshold)
        BY <1>6, <2>5, ReplyTruth DEF Terminal
      <4>2. QED
        BY <4>1, TrailLengths, PeerGameAssumption
    <3>2. /\ fsm'["thief"] = fsm["thief"] /\ due'["thief"] = due["thief"] /\ walls' = walls
          /\ fsm'["police"] = "MY_TURN"
      BY <1>1, <1>2, <2>2, <2>5
    <3>3. pos'["thief"] \in walls'["thief"] => Yielding'
      BY <1>2, <1>3, <1>4, <3>2 DEF MoveInv, Yielding, InPlay
    <3>4. QED
      BY <1>2, <1>4, <2>1, <2>3, <3>1, <3>2, <3>3 DEF MoveInv
  <2>6. QED
    BY <2>4, <2>5 DEF Roles
<1>7. QED
  BY <1>5, <1>6 DEF Accept, Ends, Goes

-----------------------------------------------------------------------------
(* A turn taken, as the referee sees it.                                   *)

LEMMA LogGrows ==
    ASSUME TypeInv, NEW r \in Roles, NEW rec \in Records,
           log' = [log EXCEPT ![r] = Append(log[r], rec)]
    PROVE  /\ Growing
           /\ Len(log'[r]) = Len(log[r]) + 1
           /\ \A n : n = Len(log[r]) + 1 => Game!After(r, n)' = rec
           /\ Game!Now(r)' = rec
           /\ \A q \in Roles : q # r => log'[q] = log[q] /\ Game!Now(q)' = Game!Now(q)
<1>1. log \in [Roles -> Seq(Records)] /\ log[r] \in Seq(Records)
  BY DEF TypeInv, TypeOK
<1>2. log'[r] = Append(log[r], rec) /\ \A q \in Roles : q # r => log'[q] = log[q]
  BY <1>1
<1>3. /\ Len(log[r]) \in Nat /\ Len(log'[r]) = Len(log[r]) + 1
      /\ log'[r][Len(log[r]) + 1] = rec
      /\ \A i \in 1 .. Len(log[r]) : log'[r][i] = log[r][i]
  BY <1>1, <1>2
<1>4. \A q \in Roles : Len(log[q]) \in Nat
  BY <1>1
<1>5. Growing
  BY <1>2, <1>3, <1>4 DEF Growing
<1>6. /\ \A n : n = Len(log[r]) + 1 => Game!After(r, n)' = rec
      /\ Game!Now(r)' = rec
  <2>1. Len(log[r]) + 1 # 0
    BY <1>3
  <2>2. QED
    BY <1>3, <2>1 DEF Game!Now, Game!After, Game!Taken
<1>7. \A q \in Roles : q # r => Game!Now(q)' = Game!Now(q)
  BY <1>2 DEF Game!Now, Game!After, Game!Taken, Game!Opening
<1>8. QED
  BY <1>2, <1>3, <1>5, <1>6, <1>7

\* Whose turn it is on the one board.
LEMMA ThiefMoves ==
    ASSUME TypeInv, OrderInv, fsm["thief"] = "MY_TURN"
    PROVE  Len(log["thief"]) = Len(log["police"]) /\ walls["thief"] = walls["police"]
<1>1. Len(log["thief"]) = LastStep("thief")
  BY DEF OrderInv, InPhase, Turns, Roles
<1>2. LastStep("thief") = Len(log["police"])
  BY <1>1, Chain
<1>3. QED
  BY <1>1, <1>2 DEF OrderInv

LEMMA PoliceMoves ==
    ASSUME TypeInv, OrderInv, fsm["police"] = "MY_TURN"
    PROVE  Len(log["thief"]) = Len(log["police"]) + 1 /\ fsm["thief"] # "MY_TURN"
<1>1. Len(log["police"]) + 1 = LastStep("police")
  BY DEF OrderInv, InPhase, Turns, Roles
<1>2. Len(log["thief"]) = Len(log["police"]) + 1
  BY <1>1, Chain
<1>3. QED
  BY <1>2, ThiefMoves, TrailLengths

\* The new message is true, and the old ones stay so.
LEMMA TurnTruthful ==
    ASSUME TypeInv, OrderInv, TruthInv, NEW r \in Roles, fsm[r] = "MY_TURN",
           NEW rec \in Records, NEW m \in TurnMessages, Turn(r, rec, m)
    PROVE  Truthful(m)' /\ \A n \in InTransit : Truthful(n)'
<1>1. /\ Growing /\ Len(log'[r]) = Len(log[r]) + 1
      /\ \A n : n = Len(log[r]) + 1 => Game!After(r, n)' = rec
  BY LogGrows DEF Turn
<1>2. m.from = r /\ m.step = Len(log[r]) + 1
  BY DEF Turn
<1>3. Truthful(m)'
  <2>1. CASE r = "thief"
    <3>1. Len(log["thief"]) = Len(log["police"])
      BY <2>1, ThiefMoves
    <3>2. m.step - 1 = Len(log["police"]) /\ Len(log["police"]) \in 0 .. Len(log["police"])
      BY <1>2, <2>1, <3>1, TrailLengths
    <3>3. Game!CaughtAt(m.step - 1)' <=> Game!CaughtAt(m.step - 1)
      BY <1>1, <3>2, CaughtKept
    <3>4. m.answer = "caught" <=> Game!CaughtAt(m.step - 1)
      BY <2>1, <3>2 DEF TruthInv, MoveInv, Turn, Game!Caught, Game!Taken
    <3>5. m.win <=> m.answer # "caught" /\ m.step >= SurvivalThreshold
      BY <2>1 DEF Turn
    <3>6. QED
      BY <1>2, <2>1, <3>3, <3>4, <3>5 DEF Truthful
  <2>2. CASE r = "police"
    <3> DEFINE was == Game!Now("police")
    <3>1. Game!After("police", m.step)' = rec
      BY <1>1, <1>2, <2>2
    <3>2. Game!After("police", m.step - 1)' = was
      <4>1. m.step - 1 = Len(log["police"]) /\ Len(log["police"]) \in 0 .. Len(log["police"])
        BY <1>2, <2>2, TrailLengths
      <4>2. QED
        BY <1>1, <4>1, AfterKept DEF Game!Now, Game!Taken, Roles
    <3>3. was.pos = pos["police"] /\ was.walls = walls["police"]
      BY DEF TruthInv, Standing, Roles
    <3> HIDE DEF was
    <3>4. None \notin Cells
      BY PeerGameAssumption
    <3>5. m.claim = IF rec.pos # was.pos THEN rec.pos ELSE None
      BY <2>2, <3>3 DEF Turn, Held, Moved, Built
    <3>6. m.barrier # None <=> rec.walls # was.walls
      BY <2>2, <3>3, <3>4 DEF Turn, Held, Moved, Built
    <3>7. QED
      BY <1>2, <2>2, <3>1, <3>2, <3>5, <3>6 DEF Truthful
  <2>3. QED
    BY <2>1, <2>2 DEF Roles
<1>4. ASSUME NEW n \in InTransit PROVE Truthful(n)'
  <2>1. Genuine(n) /\ Truthful(n) /\ n \in TurnMessages /\ n.from \in Roles
    BY TransitType DEF OrderInv, TruthInv, TurnMessages
  <2>2. log[n.from] \in Seq(Records)
    BY <2>1 DEF TypeInv, TypeOK
  <2>3. n.step \in 1 .. Len(log[n.from])
    BY <2>1, <2>2 DEF Genuine
  <2>4. CASE n.from = "thief"
    <3>1. n.step - 1 \in 0 .. Len(log["police"])
      BY <2>3, <2>4, TrailLengths
    <3>2. Game!CaughtAt(n.step - 1)' <=> Game!CaughtAt(n.step - 1)
      BY <1>1, <3>1, CaughtKept
    <3>3. QED
      BY <2>1, <2>4, <3>2 DEF Truthful
  <2>5. CASE n.from = "police"
    <3>1. n.step \in 0 .. Len(log["police"]) /\ n.step - 1 \in 0 .. Len(log["police"])
      BY <2>3, <2>5, TrailLengths
    <3>2. /\ Game!After("police", n.step)' = Game!After("police", n.step)
          /\ Game!After("police", n.step - 1)' = Game!After("police", n.step - 1)
      BY <1>1, <3>1, AfterKept DEF Roles
    <3>3. QED
      BY <2>1, <2>5, <3>2 DEF Truthful
  <2>6. QED
    BY <2>1, <2>4, <2>5 DEF Roles
<1>5. QED
  BY <1>3, <1>4

LEMMA TurnStanding ==
    ASSUME TypeInv, OrderInv, TruthInv, NEW r \in Roles, fsm[r] = "MY_TURN",
           NEW rec \in Records, NEW m, Turn(r, rec, m)
    PROVE  Standing'
<1>1. /\ pos \in [Roles -> Cells] /\ walls \in [Roles -> SUBSET Cells]
      /\ placed \in [Roles -> 0 .. MaxBarriers] /\ None \notin Cells
  BY PeerGameAssumption DEF TypeInv, TypeOK
<1>2. /\ Game!Now(r)' = rec /\ \A q \in Roles : q # r => Game!Now(q)' = Game!Now(q)
  BY LogGrows DEF Turn
<1>3. /\ pos'[r] = rec.pos /\ walls'[r] = rec.walls
      /\ placed'[r] = IF m.barrier = None THEN placed[r] ELSE placed[r] + 1
      /\ \A q \in Roles : q # r =>
            pos'[q] = pos[q] /\ walls'[q] = walls[q] /\ placed'[q] = placed[q]
  BY <1>1 DEF Turn
<1>4. Standing
  BY DEF TruthInv
<1>5. \A q \in Roles : Game!Now(q)'.pos = pos'[q]
  BY <1>2, <1>3, <1>4 DEF Standing
<1>6. Game!Now("police")'.walls = walls'["police"]
  BY <1>2, <1>3, <1>4 DEF Standing, Roles
<1>7. walls'["thief"] \subseteq walls'["police"]
  BY <1>3, <1>4 DEF Standing, Turn, Held, Moved, Built, Roles
<1>8. IsFiniteSet(walls'["police"]) /\ Cardinality(walls'["police"]) = placed'["police"]
  <2>1. CASE walls'["police"] = walls["police"] /\ placed'["police"] = placed["police"]
    BY <1>4, <2>1 DEF Standing
  <2>2. CASE /\ m.barrier \notin walls["police"] /\ walls'["police"] = walls["police"] \cup {m.barrier}
             /\ placed'["police"] = placed["police"] + 1
    <3>1. IsFiniteSet(walls["police"]) /\ Cardinality(walls["police"]) = placed["police"]
      BY <1>4 DEF Standing
    <3>2. /\ IsFiniteSet(walls["police"] \cup {m.barrier})
          /\ Cardinality(walls["police"] \cup {m.barrier}) = Cardinality(walls["police"]) + 1
      BY <2>2, <3>1, OneMore
    <3>3. QED
      BY <2>2, <3>1, <3>2
  <2>3. QED
    BY <1>1, <1>3, <2>1, <2>2 DEF Turn, Held, Moved, Built, Roles
<1>9. QED
  BY <1>5, <1>6, <1>7, <1>8 DEF Standing

LEMMA TurnMove ==
    ASSUME TypeInv, OrderInv, TruthInv, NEW r \in Roles, TakeTurn(r),
           NEW rec \in Records, NEW m, Turn(r, rec, m)
    PROVE  MoveInv'
<1>1. /\ fsm \in [Roles -> States] /\ call \in [Roles -> Calls \cup {None}]
      /\ due \in [Roles -> Answers] /\ pos \in [Roles -> Cells]
      /\ walls \in [Roles -> SUBSET Cells] /\ "thief" \in Roles /\ "police" \in Roles
  BY DEF TypeInv, TypeOK, Roles
<1>2. /\ fsm[r] = "MY_TURN" /\ fsm' = [fsm EXCEPT ![r] = "SENDING"] /\ result' = result
      /\ due' = [due EXCEPT ![r] = "none"]
  BY DEF TakeTurn, Goes
<1>3. /\ fsm'[r] = "SENDING" /\ call'[r].msg = m
      /\ \A q \in Roles : q # r =>
            fsm'[q] = fsm[q] /\ call'[q] = call[q] /\ due'[q] = due[q]
  BY <1>1, <1>2 DEF Turn
<1>4. /\ Growing /\ Len(log'[r]) = Len(log[r]) + 1
      /\ \A q \in Roles : q # r => log'[q] = log[q]
  BY LogGrows DEF Turn
<1>5. /\ pos'[r] = rec.pos /\ walls'[r] = rec.walls
      /\ \A q \in Roles : q # r => pos'[q] = pos[q] /\ walls'[q] = walls[q]
  BY <1>1 DEF Turn
<1>6. m.from = r /\ m.step = Len(log[r]) + 1 /\ m.answer = due[r]
  BY DEF Turn
<1>7. MoveInv
  BY DEF TruthInv
<1>8. /\ \A q \in Roles : InPlay(q)' => result'[q] = "pending"
      /\ \A q \in Roles : fsm'[q] = "SENDING" =>
            call'[q].msg.from = q /\ call'[q].msg.step = Len(log'[q])
  BY <1>2, <1>3, <1>4, <1>6, <1>7 DEF MoveInv, InPlay
<1>9. CASE r = "thief"
  <2>1. fsm["police"] # "MY_TURN"
    BY <1>2, <1>9, PoliceMoves
  <2>2. fsm'["police"] = fsm["police"] /\ log'["police"] = log["police"] /\ fsm'["thief"] = "SENDING"
    BY <1>1, <1>3, <1>4, <1>9
  <2>3. ASSUME pos'["thief"] \in walls'["thief"] PROVE Yielding'
    <3>1. rec.pos \in walls["thief"] /\ rec.walls = walls["thief"]
      BY <1>5, <1>9, <2>3 DEF Turn, Held, Moved, Built
    <3>2. rec.pos = pos["thief"]
      BY <1>9, <3>1 DEF Turn, Held, Moved, Built, CanStep
    <3>3. due["thief"] = "caught"
      BY <1>2, <1>7, <1>9, <3>1, <3>2 DEF MoveInv, Yielding, InPlay
    <3>4. QED
      BY <1>3, <1>6, <1>9, <3>3 DEF Yielding
  <2>4. QED
    BY <1>7, <1>8, <2>1, <2>2, <2>3 DEF MoveInv
<1>10. CASE r = "police"
  <2>1. Len(log["thief"]) = Len(log["police"]) + 1 /\ fsm["thief"] # "MY_TURN"
    BY <1>2, <1>10, PoliceMoves
  <2>2. /\ fsm'["thief"] = fsm["thief"] /\ log'["thief"] = log["thief"]
        /\ call'["thief"] = call["thief"] /\ due'["thief"] = due["thief"]
        /\ pos'["thief"] = pos["thief"] /\ walls'["thief"] = walls["thief"]
        /\ fsm'["police"] = "SENDING"
    BY <1>1, <1>3, <1>4, <1>5, <1>10
  <2>3. Game!ThiefToStep'
    BY <1>4, <1>10, <2>1, <2>2 DEF Game!ThiefToStep, Game!Taken
  <2>4. pos'["thief"] \in walls'["thief"] => Yielding'
    BY <1>7, <2>2 DEF MoveInv, Yielding, InPlay
  <2>5. QED
    BY <1>7, <1>8, <2>1, <2>2, <2>3, <2>4 DEF MoveInv
<1>11. QED
  BY <1>9, <1>10 DEF Roles

LEMMA TakeTurnTruth ==
    ASSUME TypeInv, OrderInv, TruthInv, NEW r \in Roles, TakeTurn(r)
    PROVE  TruthInv'
<1>1. PICK rec \in Records, m \in TurnMessages : Turn(r, rec, m)
  BY TurnTaken
<1>2. fsm[r] = "MY_TURN" /\ turns' = turns
  BY DEF TakeTurn
<1>3. Truthful(m)' /\ \A n \in InTransit : Truthful(n)'
  BY <1>1, <1>2, TurnTruthful
<1>4. InTransit' \subseteq InTransit \cup {m}
  <2>1. call \in [Roles -> Calls \cup {None}]
    BY DEF TypeInv, TypeOK
  <2>2. \A c \in wire' : c.msg \in InTransit \cup {m}
    BY <1>1, TransitHas DEF Turn, Copy
  <2>3. \A q \in Roles : call'[q] # None => call'[q].msg \in InTransit \cup {m}
    BY <1>1, <2>1, TransitHas DEF Turn
  <2>4. \A q \in Roles : \A i \in DOMAIN turns'[q] : turns'[q][i] \in InTransit \cup {m}
    BY <1>2, TransitHas
  <2>5. QED
    BY <2>2, <2>3, <2>4, TransitOnly
<1>5. Standing' /\ MoveInv'
  BY <1>1, <1>2, TurnStanding, TurnMove
<1>6. QED
  BY <1>3, <1>4, <1>5 DEF TruthInv

-----------------------------------------------------------------------------
(* TruthInv is inductive.                                                  *)

LEMMA InitTruth == Init => TruthInv
<1> SUFFICES ASSUME Init PROVE TruthInv
  OBVIOUS
<1>1. InTransit = {}
  BY DEF Init, InTransit, Roles
<1>2. /\ \A r \in Roles : log[r] = <<>> /\ Len(log[r]) = 0
      /\ "thief" \in Roles /\ "police" \in Roles
  BY DEF Init, Roles
<1>3. \A r \in Roles : Game!Now(r) = Game!Opening(r)
  BY <1>2 DEF Game!Now, Game!After, Game!Taken
<1>4. \A r \in Roles : pos[r] = Start(r) /\ walls[r] = {} /\ placed[r] = 0
  BY DEF Init
<1>5. Standing
  <2>1. \A r \in Roles : Game!Now(r).pos = pos[r]
    BY <1>3, <1>4 DEF Game!Opening, Start
  <2>2. Game!Now("police").walls = {} /\ walls["police"] = {} /\ walls["thief"] = {}
    BY <1>2, <1>3, <1>4 DEF Game!Opening
  <2>3. IsFiniteSet({}) /\ Cardinality({}) = 0
    BY FS_EmptySet
  <2>4. QED
    BY <1>2, <1>4, <2>1, <2>2, <2>3 DEF Standing
<1>6. ~Game!Caught
  BY <1>2 DEF Game!Caught, Game!CaughtAt, Game!Taken
<1>7. Len(log["police"]) < MaxMoves
  BY <1>2, PeerGameAssumption
<1>8. /\ fsm["thief"] = "MY_TURN" /\ fsm["police"] = "OPP_TURN" /\ due["thief"] = "none"
      /\ \A r \in Roles : fsm[r] # "SENDING" /\ result[r] = "pending"
  BY <1>2 DEF Init, FirstState
<1>9. MoveInv
  BY <1>2, <1>4, <1>6, <1>7, <1>8 DEF MoveInv
<1>10. QED
  BY <1>1, <1>5, <1>9 DEF TruthInv

LEMMA NextTruth ==
    ASSUME OnlyOwnMessages
    PROVE  TypeInv /\ OrderInv /\ TruthInv /\ [Next]_vars => TruthInv'
<1> SUFFICES ASSUME TypeInv, OrderInv, TruthInv, [Next]_vars PROVE TruthInv'
  OBVIOUS
<1>1. CASE \E r \in Roles : TakeTurn(r)
  BY <1>1, TakeTurnTruth
<1>2. CASE \A r \in Roles : ~TakeTurn(r)
  <2>1. InTransit' \subseteq InTransit
    BY <1>2, NoNews
  <2>2. CASE \E r \in Roles : Accept(r)
    <3>1. PICK r \in Roles : Accept(r)
      BY <2>2
    <3>2. MoveInv'
      BY <3>1, AcceptMove
    <3>3. /\ UNCHANGED <<log, pos, placed>> /\ walls'["police"] = walls["police"]
          /\ walls'["thief"] = walls["thief"] \/ walls'["thief"] = walls["police"]
      BY <3>1, Applied DEF Roles
    <3>4. walls["thief"] \subseteq walls["police"]
      BY DEF TruthInv, Standing
    <3>5. QED
      BY <2>1, <3>2, <3>3, <3>4, StillTruth
  <2>3. CASE \E r \in Roles : BeliefRaises(r)
    <3>1. PICK r \in Roles : BeliefRaises(r)
      BY <2>3
    <3>2. MoveInv'
      BY <3>1, PeerLeaves, LeavesMove DEF TruthInv
    <3>3. /\ UNCHANGED <<log, pos, placed>> /\ walls'["police"] = walls["police"]
          /\ walls'["thief"] = walls["thief"] \/ walls'["thief"] = walls["police"]
      BY <3>1, Applied DEF Roles
    <3>4. walls["thief"] \subseteq walls["police"]
      BY DEF TruthInv, Standing
    <3>5. QED
      BY <2>1, <3>2, <3>3, <3>4, StillTruth
  <2>4. CASE \E r \in Roles : SendReturns(r)
    <3>1. PICK r \in Roles : SendReturns(r)
      BY <2>4
    <3>2. MoveInv'
      BY <3>1, ReturnMove
    <3>3. UNCHANGED <<log, pos, placed, walls>>
      BY <3>1 DEF SendReturns, own
    <3>4. walls["thief"] \subseteq walls["police"]
      BY DEF TruthInv, Standing
    <3>5. QED
      BY <2>1, <3>2, <3>3, <3>4, StillTruth
  <2>5. ASSUME NEW r \in Roles,
               \/ BrainRaises(r) \/ Retry(r) \/ GiveUp(r) \/ DropDuplicate(r)
               \/ TurnTimeout(r) \/ Reveal(r) \/ ReadAudit(r) \/ AuditTimeout(r)
        PROVE  TruthInv'
    <3>1. Leaves
      BY <2>5, PeerLeaves
    <3>2. UNCHANGED <<placed, walls>>
      BY <2>5 DEF BrainRaises, Retry, GiveUp, DropDuplicate, TurnTimeout, Reveal, ReadAudit,
                  AuditTimeout, own
    <3>3. QED
      BY <2>1, <3>1, <3>2, LeavesTruth
  <2>6. ASSUME NEW c \in wire, Deliver(c) \/ Lose(c) PROVE TruthInv'
    <3>1. UNCHANGED <<placed, walls>>
      BY <2>6 DEF Deliver, Lose, own
    <3>2. QED
      BY <2>1, <2>6, <3>1, NetworkLeaves, LeavesTruth
  <2>7. CASE UNCHANGED vars
    <3>1. Leaves /\ UNCHANGED <<placed, walls>>
      BY <2>7 DEF vars, own, gate, net, Leaves, Keeps
    <3>2. QED
      BY <2>1, <3>1, LeavesTruth
  <2>8. \A r \in Roles : ~Stray(r) /\ ~Reject(r)
    BY RejectNever DEF Stray, OnlyOwnMessages
  <2>9. QED
    BY <1>2, <2>2, <2>3, <2>4, <2>5, <2>6, <2>7, <2>8 DEF Next, Peer, Finished
<1>3. QED
  BY <1>1, <1>2

LEMMA TruthIsInvariant ==
    ASSUME OnlyOwnMessages
    PROVE  Spec => [](TypeInv /\ OrderInv /\ AuditInv /\ TruthInv)
<1>1. Init => TruthInv
  BY InitTruth
<1>2. TypeInv /\ OrderInv /\ TruthInv /\ [Next]_vars => TruthInv'
  BY NextTruth
<1>3. QED
  BY <1>1, <1>2, OrderIsInvariant, PTL DEF Spec

-----------------------------------------------------------------------------
(* Every step is a step of TurnGame: a turn taken.                         *)

LEMMA ThiefStepsGame ==
    ASSUME TypeInv, OrderInv, TruthInv, TakeTurn("thief")
    PROVE  Game!ThiefSteps
<1>1. PICK rec \in Records, m \in TurnMessages : Turn("thief", rec, m)
  BY TurnTaken DEF Roles
<1>2. /\ fsm["thief"] = "MY_TURN" /\ result' = result
  BY DEF TakeTurn, Goes
<1>3. /\ Len(log["thief"]) = Len(log["police"]) /\ walls["thief"] = walls["police"]
  BY <1>2, ThiefMoves
<1>4. /\ Game!Now("thief").pos = pos["thief"] /\ Game!Now("police").walls = walls["police"]
      /\ result["thief"] = "pending"
      /\ due["thief"] = "caught" <=> Game!Caught
      /\ Game!Caught \/ Len(log["police"]) < MaxMoves
  BY <1>2 DEF TruthInv, Standing, MoveInv, InPlay, Roles
<1>5. rec.pos \in Game!Cells /\ rec = [pos |-> rec.pos, walls |-> rec.walls]
  BY SameBoard DEF Records
<1>6. rec.walls = walls["police"]
  BY <1>1, <1>3 DEF Turn, Held, Moved, Built
<1>7. Game!Steps("thief", [pos |-> rec.pos, walls |-> Game!Now("police").walls])
  BY <1>1, <1>2, <1>4, <1>5, <1>6 DEF Game!Steps, Turn
<1>8. Game!Caught => rec.pos = pos["thief"]
  BY <1>1, <1>4 DEF Turn, Held, Moved, Built
<1>9. Game!LegalStep(pos["thief"], rec.pos, walls["police"])
  <2>1. CASE rec.pos = pos["thief"]
    BY <2>1 DEF Game!LegalStep
  <2>2. CASE \E d \in Directions : CanStep(pos["thief"], d, walls["thief"]) /\ rec.pos = Shift(pos["thief"], d)
    BY <1>3, <2>2, SameBoard DEF Game!LegalStep
  <2>3. QED
    BY <1>1, <2>1, <2>2 DEF Turn, Held, Moved, Built
<1>10. Game!ThiefToStep /\ (~Game!Caught => ~Game!CeilingSpent)
  BY <1>3, <1>4, TrailLengths, PeerGameAssumption
     DEF Game!ThiefToStep, Game!Taken, Game!CeilingSpent
<1>11. QED
  BY <1>4, <1>5, <1>7, <1>8, <1>9, <1>10 DEF Game!ThiefSteps

LEMMA PoliceStepsGame ==
    ASSUME TypeInv, OrderInv, TruthInv, TakeTurn("police")
    PROVE  Game!PoliceSteps
<1> DEFINE here == Game!Now("police").pos
           known == Game!Now("police").walls
<1>1. PICK rec \in Records, m \in TurnMessages : Turn("police", rec, m)
  BY TurnTaken DEF Roles
<1>2. /\ fsm["police"] = "MY_TURN" /\ result' = result
  BY DEF TakeTurn, Goes
<1>3. Len(log["thief"]) = Len(log["police"]) + 1
  BY <1>2, PoliceMoves
<1>4. /\ here = pos["police"] /\ known = walls["police"] /\ result["police"] = "pending"
      /\ ~Game!Caught /\ Len(log["thief"]) < SurvivalThreshold
      /\ Cardinality(known) = placed["police"]
  BY <1>2 DEF TruthInv, Standing, MoveInv, InPlay, Roles
<1>5. ~Game!ThiefToStep /\ ~Game!Survived
  BY <1>3, <1>4, TrailLengths, PeerGameAssumption
     DEF Game!ThiefToStep, Game!Taken, Game!Survived
<1>6. rec.pos \in Game!Cells /\ rec = [pos |-> rec.pos, walls |-> rec.walls]
  BY SameBoard DEF Records
<1>7. Game!Steps("police", rec)
  BY <1>1, <1>2, <1>4 DEF Game!Steps, Turn
<1> HIDE DEF here, known
<1>8. CASE Held("police", rec, m) \/ Moved("police", rec, m)
  <2>1. rec.walls = known
    BY <1>4, <1>8 DEF Held, Moved
  <2>2. rec.pos = here \/ \E d \in Directions : CanStep(here, d, known) /\ rec.pos = Shift(here, d)
    BY <1>4, <1>8 DEF Held, Moved
  <2>3. Game!LegalStep(here, rec.pos, known)
    BY <2>2, SameBoard DEF Game!LegalStep
  <2>4. Game!Steps("police", [pos |-> rec.pos, walls |-> known])
    BY <1>6, <1>7, <2>1
  <2>5. QED
    BY <1>4, <1>5, <1>6, <2>3, <2>4 DEF Game!PoliceSteps, here, known
<1>9. CASE Built("police", rec, m)
  <2>1. /\ rec = [pos |-> here, walls |-> known \cup {m.barrier}]
        /\ m.barrier \in Game!BarrierOptions(here, known)
        /\ placed["police"] < MaxBarriers
    BY <1>4, <1>9, SameBoard DEF Built
  <2>2. Cardinality(known) < MaxBarriers
    BY <1>4, <2>1
  <2>3. Game!Cardinality(known) < MaxBarriers
    BY <2>2 DEF Game!Cardinality, Cardinality
  <2>4. QED
    BY <1>4, <1>5, <1>7, <2>1, <2>3 DEF Game!PoliceSteps, here, known
<1>10. QED
  BY <1>1, <1>8, <1>9 DEF Turn

-----------------------------------------------------------------------------
(* Every step is a step of TurnGame: an ending reported.                   *)

\* What the thief's last message says of the game, until it is played on.
LEMMA ThiefWord ==
    ASSUME TypeInv, OrderInv, EarnedInv, NEW m, Truthful(m), m.from = "thief",
           m.step = Len(log["thief"]), Terminal(m)
    PROVE  Game!Earned(IF m.answer = "caught" THEN "capture" ELSE "survival")
<1>1. /\ Len(log["police"]) \in Nat /\ Len(log["thief"]) \in Nat
      /\ Len(log["police"]) <= Len(log["thief"]) /\ Len(log["thief"]) <= Len(log["police"]) + 1
  BY TrailLengths
<1>2. CASE m.answer = "caught"
  <2>1. Game!CaughtAt(m.step - 1)
    BY <1>2 DEF Truthful
  <2>2. m.step - 1 \in 1 .. Len(log["police"])
    BY <2>1 DEF Game!CaughtAt, Game!Taken
  <2>3. m.step - 1 = Len(log["police"])
    BY <2>1, <2>2 DEF EarnedInv
  <2>4. Game!Caught /\ ~Game!ThiefToStep
    BY <1>1, <2>1, <2>3 DEF Game!Caught, Game!ThiefToStep, Game!Taken
  <2>5. QED
    BY <1>2, <2>4 DEF Game!Earned
<1>3. CASE m.answer # "caught"
  <2>1. m.win /\ ~Game!CaughtAt(m.step - 1)
    BY <1>3 DEF Truthful, Terminal
  <2>2. Len(log["thief"]) >= SurvivalThreshold
    BY <2>1 DEF Truthful
  <2>3. Len(log["thief"]) = Len(log["police"]) + 1
    BY <1>1, <2>2, PeerGameAssumption DEF EarnedInv
  <2>4. m.step - 1 = Len(log["police"]) /\ Len(log["thief"]) # Len(log["police"])
    BY <1>1, <2>3
  <2>5. Game!Survived /\ ~Game!Caught /\ ~Game!ThiefToStep
    BY <2>1, <2>2, <2>4 DEF Game!Caught, Game!ThiefToStep, Game!Survived, Game!Taken
  <2>6. QED
    BY <1>3, <2>5 DEF Game!Earned
<1>4. QED
  BY <1>2, <1>3

\* The police has used up its ceiling.
LEMMA PoliceWord ==
    ASSUME TypeInv, NEW m, Spent(m), m.step = Len(log["police"])
    PROVE  Game!Earned("survival")
  BY DEF Spent, Game!Earned, Game!CeilingSpent, Game!Taken

LEMMA EndsReports ==
    ASSUME TypeInv, TruthInv, NEW r \in Roles, InPlay(r), log' = log,
           NEW o \in {"capture", "survival", "technical_loss"}, Ends(r, o), Game!Earned(o)
    PROVE  Game!Reports(r)
<1>1. result[r] = "pending"
  BY DEF TruthInv, MoveInv
<1>2. QED
  BY <1>1 DEF Ends, Game!Reports

LEMMA ReturnGame ==
    ASSUME TypeInv, OrderInv, TruthInv, EarnedInv, NEW r \in Roles, SendReturns(r)
    PROVE  Game!Reports(r) \/ UNCHANGED <<log, result>>
<1> DEFINE m == call[r].msg
<1>1. fsm[r] = "SENDING" /\ InPlay(r) /\ log' = log
  BY DEF SendReturns, InPlay, own
<1>2. m.from = r /\ m.step = Len(log[r]) /\ Genuine(m) /\ Truthful(m)
  BY <1>1, SentLast
<1>3. CASE Terminal(m) /\ Ends(r, IF m.answer = "caught" THEN "capture" ELSE "survival")
  <2>1. r = "thief"
    BY <1>2, <1>3 DEF Genuine, Terminal, Roles
  <2>2. Game!Earned(IF m.answer = "caught" THEN "capture" ELSE "survival")
    BY <1>2, <1>3, <2>1, ThiefWord
  <2>3. QED
    BY <1>1, <1>3, <2>2, EndsReports
<1>4. CASE Spent(m) /\ Ends(r, "survival")
  <2>1. r = "police"
    BY <1>2, <1>4 DEF Spent
  <2>2. Game!Earned("survival")
    BY <1>2, <1>4, <2>1, PoliceWord
  <2>3. QED
    BY <1>1, <1>4, <2>2, EndsReports
<1>5. CASE Goes(r, "OPP_TURN")
  BY <1>1, <1>5 DEF Goes
<1>6. QED
  BY <1>3, <1>4, <1>5 DEF SendReturns

LEMMA AcceptGame ==
    ASSUME TypeInv, OrderInv, TruthInv, EarnedInv, NEW r \in Roles, Accept(r)
    PROVE  Game!Reports(r) \/ UNCHANGED <<log, result>>
<1> DEFINE m == Head(turns[r])
<1>1. /\ m \in InTransit /\ m.from = Opp(r) /\ fsm[r] = "OPP_TURN"
      /\ m.step = Len(log[Opp(r)]) /\ log' = log
  BY Applied
<1>2. Genuine(m) /\ Truthful(m) /\ InPlay(r)
  BY <1>1 DEF OrderInv, TruthInv, InPlay
<1>3. CASE Terminal(m) /\ Ends(r, IF m.answer = "caught" THEN "capture" ELSE "survival")
  <2>1. m.from = "thief"
    BY <1>1, <1>2, <1>3 DEF Genuine, Terminal, Opp, Roles
  <2>2. Game!Earned(IF m.answer = "caught" THEN "capture" ELSE "survival")
    BY <1>1, <1>2, <1>3, <2>1, ThiefWord DEF Opp, Roles
  <2>3. QED
    BY <1>1, <1>2, <1>3, <2>2, EndsReports
<1>4. CASE Spent(m) /\ Ends(r, "survival")
  <2>1. m.from = "police"
    BY <1>4 DEF Spent
  <2>2. Game!Earned("survival")
    BY <1>1, <1>4, <2>1, PoliceWord DEF Opp, Roles
  <2>3. QED
    BY <1>1, <1>2, <1>4, <2>2, EndsReports
<1>5. CASE Goes(r, "MY_TURN")
  BY <1>1, <1>5 DEF Goes
<1>6. QED
  BY <1>3, <1>4, <1>5 DEF Accept

\* What one step of the two peers is on the one board.
LEMMA StepGame ==
    ASSUME OnlyOwnMessages, TypeInv, OrderInv, AuditInv, TruthInv, EarnedInv, [Next]_vars
    PROVE  \/ TakeTurn("thief") /\ Game!ThiefSteps
           \/ TakeTurn("police") /\ Game!PoliceSteps
           \/ \E r \in Roles : Game!Reports(r)
           \/ UNCHANGED <<log, result>>
<1>1. CASE \E r \in Roles : TakeTurn(r)
  BY <1>1, ThiefStepsGame, PoliceStepsGame DEF Roles
<1>2. CASE \E r \in Roles : SendReturns(r) \/ Accept(r)
  BY <1>2, ReturnGame, AcceptGame
<1>3. ASSUME NEW r \in Roles, BrainRaises(r) \/ GiveUp(r) \/ TurnTimeout(r) \/ BeliefRaises(r)
      PROVE  Game!Reports(r)
  <2>1. InPlay(r) /\ Ends(r, "technical_loss")
    BY <1>3 DEF BrainRaises, GiveUp, AttemptFails, TurnTimeout, BeliefRaises, Reads, InPlay
  <2>2. log' = log
    BY <1>3 DEF BrainRaises, GiveUp, TurnTimeout, BeliefRaises, Fold, own
  <2>3. Game!Earned("technical_loss")
    BY DEF Game!Earned
  <2>4. QED
    BY <2>1, <2>2, <2>3, EndsReports
<1>4. ASSUME NEW r \in Roles, ReadAudit(r)
      PROVE  UNCHANGED <<log, result>>
  BY <1>4, AuditPasses DEF ReadAudit, own
<1>5. ASSUME NEW r \in Roles,
             Retry(r) \/ DropDuplicate(r) \/ Reveal(r) \/ AuditTimeout(r)
      PROVE  UNCHANGED <<log, result>>
  BY <1>5 DEF Retry, DropDuplicate, Reveal, AuditTimeout, Goes, own
<1>6. ASSUME NEW c \in wire, Deliver(c) \/ Lose(c) PROVE UNCHANGED <<log, result>>
  BY <1>6 DEF Deliver, Lose, own
<1>7. CASE UNCHANGED vars
  BY <1>7 DEF vars, own
<1>8. \A r \in Roles : ~Stray(r) /\ ~Reject(r)
  BY RejectNever DEF Stray, OnlyOwnMessages
<1>9. QED
  BY <1>1, <1>2, <1>3, <1>4, <1>5, <1>6, <1>7, <1>8 DEF Next, Peer, Finished

-----------------------------------------------------------------------------
(* EarnedInv is inductive.                                                 *)

LEMMA InitEarned == Init => EarnedInv
<1> SUFFICES ASSUME Init PROVE EarnedInv
  OBVIOUS
<1>1. Len(log["police"]) = 0 /\ \A r \in Roles : result[r] = "pending"
  BY DEF Init, Roles
<1>2. ~Game!Caught
  BY <1>1 DEF Game!Caught, Game!CaughtAt, Game!Taken
<1>3. QED
  BY <1>1, <1>2, PeerGameAssumption DEF EarnedInv

\* The thief's turn takes back no capture and no spent ceiling.
LEMMA ThiefEarned ==
    ASSUME TypeInv, OrderInv, TruthInv, EarnedInv, TakeTurn("thief")
    PROVE  EarnedInv'
<1> DEFINE P == Len(log["police"])
<1>1. PICK rec \in Records, m \in TurnMessages : Turn("thief", rec, m)
  BY TurnTaken DEF Roles
<1>2. fsm["thief"] = "MY_TURN" /\ result' = result
  BY DEF TakeTurn, Goes
<1>3. Len(log["thief"]) = P /\ P \in Nat
  BY <1>2, ThiefMoves, TrailLengths
<1>4. /\ Growing /\ log'["police"] = log["police"] /\ Len(log'["thief"]) = P + 1
  BY <1>1, <1>3, LogGrows DEF Turn, Roles
<1>5. \A n \in 0 .. P : Game!CaughtAt(n)' <=> Game!CaughtAt(n)
  BY <1>4, CaughtKept
<1>6. Game!Caught' <=> Game!Caught
  BY <1>3, <1>4, <1>5 DEF Game!Caught, Game!Taken
<1>7. ASSUME NEW r \in Roles, result'[r] # "pending" PROVE Game!Earned(result[r])'
  <2>1. Game!Earned(result[r])
    BY <1>2, <1>7 DEF EarnedInv
  <2>2. Game!ThiefToStep
    BY <1>3 DEF Game!ThiefToStep, Game!Taken
  <2>3. result[r] = "technical_loss" \/ (result[r] = "survival" /\ P >= MaxMoves)
    BY <2>1, <2>2 DEF Game!Earned, Game!CeilingSpent, Game!Taken
  <2>4. QED
    BY <1>2, <1>4, <2>3 DEF Game!Earned, Game!CeilingSpent, Game!Taken
<1>8. ASSUME Game!Caught' PROVE Game!After("thief", P)' = Game!After("thief", P)
                                /\ pos'["thief"] = pos["thief"]
  <2>1. due["thief"] = "caught"
    BY <1>2, <1>6, <1>8 DEF TruthInv, MoveInv
  <2>2. rec.pos = pos["thief"]
    BY <1>1, <2>1 DEF Turn, Held, Moved, Built
  <2>3. pos'["thief"] = pos["thief"]
    BY <1>1, <2>2 DEF Turn, TypeInv, TypeOK, Roles
  <2>4. QED
    BY <1>3, <1>4, <2>3, AfterKept DEF Roles
<1>9. QED
  <2>1. P < SurvivalThreshold /\ \A n \in 1 .. P : Game!CaughtAt(n) => n = P
    BY DEF EarnedInv
  <2>2. \A n \in 1 .. P : Game!CaughtAt(n)' => n = P
    BY <1>3, <1>5, <2>1
  <2>3. Game!Caught' => Game!After("thief", P)'.pos = pos'["thief"]
    BY <1>6, <1>8 DEF EarnedInv
  <2>4. QED
    BY <1>4, <1>7, <2>1, <2>2, <2>3 DEF EarnedInv

\* The police moves on only while nothing is decided.
LEMMA PoliceEarned ==
    ASSUME TypeInv, OrderInv, TruthInv, EarnedInv, TakeTurn("police")
    PROVE  EarnedInv'
<1> DEFINE P == Len(log["police"])
           T == Len(log["thief"])
<1>1. PICK rec \in Records, m \in TurnMessages : Turn("police", rec, m)
  BY TurnTaken DEF Roles
<1>2. fsm["police"] = "MY_TURN" /\ result' = result
  BY DEF TakeTurn, Goes
<1>3. T = P + 1 /\ P \in Nat /\ T \in Nat
  BY <1>2, PoliceMoves, TrailLengths
<1>4. /\ Growing /\ log'["thief"] = log["thief"] /\ Len(log'["police"]) = T
      /\ Game!Now("thief")' = Game!Now("thief")
  BY <1>1, <1>3, LogGrows DEF Turn, Roles
<1>5. ~Game!Caught /\ T < SurvivalThreshold
  BY <1>2 DEF TruthInv, MoveInv
<1>6. \A n \in 1 .. T : Game!CaughtAt(n)' => n = T
  <2> SUFFICES ASSUME NEW n \in 1 .. T, Game!CaughtAt(n)', n # T PROVE FALSE
    OBVIOUS
  <2>1. n \in 1 .. P /\ n \in 0 .. P
    BY <1>3
  <2>2. Game!CaughtAt(n)
    BY <1>4, <2>1, CaughtKept
  <2>3. n = P
    BY <2>1, <2>2 DEF EarnedInv
  <2>4. QED
    BY <1>5, <2>2, <2>3 DEF Game!Caught, Game!Taken
<1>7. ASSUME NEW r \in Roles, result'[r] # "pending" PROVE Game!Earned(result[r])'
  <2>1. Game!Earned(result[r])
    BY <1>2, <1>7 DEF EarnedInv
  <2>2. ~Game!Survived
    BY <1>3, <1>5, PeerGameAssumption DEF Game!Survived, Game!Taken
  <2>3. result[r] = "technical_loss" \/ (result[r] = "survival" /\ P >= MaxMoves)
    BY <1>5, <2>1, <2>2 DEF Game!Earned, Game!CeilingSpent, Game!Taken
  <2>4. CASE result[r] = "technical_loss"
    BY <1>2, <2>4 DEF Game!Earned
  <2>5. CASE result[r] = "survival" /\ P >= MaxMoves
    <3>1. T >= MaxMoves
      BY <1>3, <2>5, PeerGameAssumption
    <3>2. QED
      BY <1>2, <1>4, <2>5, <3>1 DEF Game!Earned, Game!CeilingSpent, Game!Taken
  <2>6. QED
    BY <2>3, <2>4, <2>5
<1>8. Game!Now("thief")'.pos = pos'["thief"]
  <2>1. pos'["thief"] = pos["thief"]
    BY <1>1 DEF Turn, TypeInv, TypeOK, Roles
  <2>2. QED
    BY <1>4, <2>1 DEF TruthInv, Standing, Roles
<1>9. \A n : n = T => Game!After("thief", n)' = Game!Now("thief")'
  BY <1>4 DEF Game!Now, Game!After, Game!Taken, Game!Opening
<1>10. Game!After("thief", Len(log["police"]))' = Game!Now("thief")'
  BY <1>4, <1>9 DEF Game!Now, Game!After, Game!Taken, Game!Opening
<1>11. QED
  BY <1>4, <1>5, <1>6, <1>7, <1>8, <1>10 DEF EarnedInv

LEMMA QuietEarned ==
    ASSUME TypeInv, EarnedInv, UNCHANGED <<log, pos>>,
           result' = result \/ \E r \in Roles : Game!Reports(r)
    PROVE  EarnedInv'
<1>1. /\ \A n : Game!CaughtAt(n)' <=> Game!CaughtAt(n)
      /\ \A r, n : Game!After(r, n)' = Game!After(r, n)
      /\ Game!Caught' <=> Game!Caught
      /\ Game!ThiefToStep' <=> Game!ThiefToStep
  BY SameTrail
<1>2. \A o : Game!Earned(o)' <=> Game!Earned(o)
  BY <1>1 DEF Game!Earned, Game!CeilingSpent, Game!Survived, Game!Taken
<1>3. \A r \in Roles : result'[r] # "pending" => Game!Earned(result'[r])
  <2>1. CASE result' = result
    BY <2>1 DEF EarnedInv
  <2>2. CASE \E r \in Roles : Game!Reports(r)
    <3>1. PICK r \in Roles, o \in {"capture", "survival", "technical_loss"} :
             Game!Earned(o) /\ result' = [result EXCEPT ![r] = o]
      BY <2>2 DEF Game!Reports
    <3>2. \A q \in Roles : result'[q] = o \/ result'[q] = result[q]
      BY <3>1 DEF TypeInv, TypeOK
    <3>3. QED
      BY <3>1, <3>2 DEF EarnedInv
  <2>3. QED
    BY <2>1, <2>2
<1>4. \A r \in Roles : \A o : o = result'[r] => (Game!Earned(result[r])' <=> Game!Earned(o))
  BY <1>1 DEF Game!Earned, Game!CeilingSpent, Game!Survived, Game!Taken
<1>5. log' = log /\ pos' = pos
  OBVIOUS
<1>6. Game!After("thief", Len(log["police"]))' = Game!After("thief", Len(log["police"]))
  BY <1>5 DEF Game!After, Game!Opening
<1>7. QED
  BY <1>1, <1>3, <1>4, <1>5, <1>6 DEF EarnedInv

LEMMA NextEarned ==
    ASSUME OnlyOwnMessages
    PROVE  TypeInv /\ OrderInv /\ AuditInv /\ TruthInv /\ EarnedInv /\ [Next]_vars => EarnedInv'
<1> SUFFICES ASSUME TypeInv, OrderInv, AuditInv, TruthInv, EarnedInv, [Next]_vars
             PROVE  EarnedInv'
  OBVIOUS
<1>1. CASE \E r \in Roles : TakeTurn(r)
  BY <1>1, ThiefEarned, PoliceEarned DEF Roles
<1>2. CASE \A r \in Roles : ~TakeTurn(r)
  <2>1. UNCHANGED <<log, pos>>
    BY <1>2 DEF Next, Peer, Finished, vars, own, BrainRaises, SendReturns, Retry, GiveUp, Accept,
       DropDuplicate, Reject, BeliefRaises, TurnTimeout, Reveal, ReadAudit, AuditTimeout, Stray,
       Deliver, Lose, Fold
  <2>2. result' = result \/ \E r \in Roles : Game!Reports(r)
    BY <1>2, StepGame DEF Roles
  <2>3. QED
    BY <2>1, <2>2, QuietEarned
<1>3. QED
  BY <1>1, <1>2

\* The inductive invariant behind the refinement and the endings.
LEMMA EarnedIsInvariant ==
    ASSUME OnlyOwnMessages
    PROVE  Spec => [](TypeInv /\ OrderInv /\ AuditInv /\ TruthInv /\ EarnedInv)
<1>1. Init => EarnedInv
  BY InitEarned
<1>2. TypeInv /\ OrderInv /\ AuditInv /\ TruthInv /\ EarnedInv /\ [Next]_vars => EarnedInv'
  BY NextEarned
<1>3. QED
  BY <1>1, <1>2, TruthIsInvariant, PTL DEF Spec

\* The two peers and the network implement the game one referee would hold on
\* one board: every sealed step is the next legal one on the true barrier map,
\* a caught thief concedes, and what a peer reports was earned (runtime.py,
\* turn_sender.py and turn_handler.py together).
THEOREM PlaysOneGame ==
    ASSUME OnlyOwnMessages
    PROVE  Spec => ImplementsTurnGame
<1>1. Init => Game!GameInit
  BY SameBoard DEF Init, Game!GameInit
<1>2. TypeInv /\ OrderInv /\ AuditInv /\ TruthInv /\ EarnedInv /\ [Next]_vars
        => [Game!GameNext]_(Game!gameVars)
  BY StepGame, SameBoard DEF Game!GameNext, Game!gameVars
<1>3. QED
  BY <1>1, <1>2, EarnedIsInvariant, PTL DEF Spec, ImplementsTurnGame, Game!GameSpec

\* A peer reports a capture only if the thief is on the cop's cell, on a
\* barrier or jailed, and still is whenever the report is read (rules 21, 46
\* and 47).
THEOREM CapturesAreReal ==
    ASSUME OnlyOwnMessages
    PROVE  Spec => []CaptureSound
<1>1. TypeInv /\ OrderInv /\ TruthInv /\ EarnedInv => CaptureSound
  <2> SUFFICES ASSUME TypeInv, OrderInv, TruthInv, EarnedInv,
                      NEW r \in Roles, result[r] = "capture"
               PROVE  InCaptivity
    BY DEF CaptureSound
  <2> DEFINE P == Len(log["police"])
  <2>1. Game!Caught
    BY DEF EarnedInv, Game!Earned
  <2>2. /\ Game!After("police", P).pos = pos["police"]
        /\ Game!After("police", P).walls = walls["police"]
        /\ Game!After("thief", P).pos = pos["thief"]
    BY <2>1 DEF TruthInv, Standing, EarnedInv, Game!Now, Game!Taken, Roles
  <2>3. QED
    BY <2>1, <2>2, SameBoard DEF Game!Caught, Game!CaughtAt, Game!Taken, InCaptivity
<1>2. QED
  BY <1>1, EarnedIsInvariant, PTL

-----------------------------------------------------------------------------
(* Nobody plays on from a lost position.                                   *)

\* The signed move set has every direction (Table 15 and every configuration
\* of the repository fix N, S, E, W and STAY), so that a move can be undone.
AllWays == Orthogonals \subseteq Negotiated

LEMMA StayStays ==
    ASSUME NEW c \in Cells
    PROVE  Shift(c, "STAY") = c
<1>1. c[1] \in Int /\ c[2] \in Int /\ c = <<c[1], c[2]>>
  BY BoardAssumption DEF Cells
<1>2. QED
  BY <1>1 DEF Shift, Delta

LEMMA WayBack ==
    ASSUME AllWays, NEW c \in Cells, NEW w, c \notin w, NEW d \in Orthogonals
    PROVE  ~Jailed(Shift(c, d), w)
<1>1. c[1] \in Int /\ c[2] \in Int /\ c = <<c[1], c[2]>>
  BY BoardAssumption DEF Cells
<1> DEFINE e == IF d = "N" THEN "S" ELSE IF d = "S" THEN "N" ELSE IF d = "E" THEN "W" ELSE "E"
<1>2. e \in Orthogonals /\ Shift(Shift(c, d), e) = c
  BY <1>1 DEF Shift, Delta, Orthogonals
<1>3. CanStep(Shift(c, d), e, w)
  BY <1>2 DEF CanStep, AllWays
<1>4. QED
  BY <1>2, <1>3 DEF Jailed

\* On a board with two cells nobody starts in jail.
LEMMA OpenBoard ==
    ASSUME AllWays
    PROVE  ~Jailed(ThiefStart, {})
<1>1. /\ ThiefStart[1] \in 0 .. Size - 1 /\ ThiefStart[2] \in 0 .. Size - 1
      /\ CopStart[1] \in 0 .. Size - 1 /\ CopStart[2] \in 0 .. Size - 1
      /\ ThiefStart = <<ThiefStart[1], ThiefStart[2]>> /\ CopStart = <<CopStart[1], CopStart[2]>>
      /\ ThiefStart # CopStart /\ Size \in Nat
  BY PeerGameAssumption, BoardAssumption DEF Cells
<1>2. Size >= 2
  BY <1>1
<1> DEFINE d == IF ThiefStart[1] = 0 THEN "S" ELSE "N"
<1>3. d \in Orthogonals /\ Shift(ThiefStart, d)[1] \in 0 .. Size - 1
      /\ Shift(ThiefStart, d)[2] \in 0 .. Size - 1
  BY <1>1, <1>2 DEF Shift, Delta, Orthogonals
<1>4. Shift(ThiefStart, d) \in Cells
  BY <1>3 DEF Shift, Cells
<1>5. CanStep(ThiefStart, d, {})
  BY <1>3, <1>4 DEF CanStep, AllWays
<1>6. QED
  BY <1>3, <1>5 DEF Jailed

LEMMA InitFree == ASSUME AllWays PROVE Init => FreeInv
<1>1. Init => pos["thief"] = ThiefStart /\ walls["thief"] = {}
  BY DEF Init, Roles, Start
<1>2. QED
  BY <1>1, OpenBoard DEF FreeInv

LEMMA LeavesFree ==
    ASSUME FreeInv, Leaves
    PROVE  FreeInv'
<1>1. CASE ~InPlay("thief")'
  BY <1>1 DEF FreeInv, Yielding
<1>2. CASE Keeps("thief")
  BY <1>2 DEF FreeInv, Yielding, Leaves, Keeps, InPlay, Jailed, CanStep, Cells, Negotiated,
     Shift, Delta, Orthogonals
<1>3. QED
  BY <1>1, <1>2 DEF Leaves, Roles

LEMMA TurnFree ==
    ASSUME AllWays, TypeInv, OrderInv, TruthInv, FreeInv, NEW r \in Roles, TakeTurn(r)
    PROVE  FreeInv'
<1>1. PICK rec \in Records, m \in TurnMessages : Turn(r, rec, m)
  BY TurnTaken
<1>2. /\ fsm \in [Roles -> States] /\ call \in [Roles -> Calls \cup {None}]
      /\ due \in [Roles -> Answers] /\ pos \in [Roles -> Cells]
      /\ walls \in [Roles -> SUBSET Cells] /\ "thief" \in Roles
  BY DEF TypeInv, TypeOK, Roles
<1>3. /\ fsm[r] = "MY_TURN" /\ fsm' = [fsm EXCEPT ![r] = "SENDING"]
      /\ due' = [due EXCEPT ![r] = "none"]
  BY DEF TakeTurn, Goes
<1>4. CASE r = "police"
  <2>1. /\ fsm'["thief"] = fsm["thief"] /\ due'["thief"] = due["thief"]
        /\ call'["thief"] = call["thief"] /\ pos'["thief"] = pos["thief"]
        /\ walls'["thief"] = walls["thief"]
    BY <1>1, <1>2, <1>3, <1>4 DEF Turn
  <2>2. Jailed(pos'["thief"], walls'["thief"]) <=> Jailed(pos["thief"], walls["thief"])
    BY <2>1
  <2>3. QED
    BY <2>1, <2>2 DEF FreeInv, Yielding, InPlay
<1>5. CASE r = "thief"
  <2>1. /\ fsm'["thief"] = "SENDING" /\ call'["thief"].msg = m /\ m.answer = due["thief"]
        /\ pos'["thief"] = rec.pos /\ walls'["thief"] = rec.walls
    BY <1>1, <1>2, <1>3, <1>5 DEF Turn
  <2>2. CASE due["thief"] = "caught"
    BY <2>1, <2>2 DEF FreeInv, Yielding
  <2>3. CASE due["thief"] # "caught"
    <3>1. ~Jailed(pos["thief"], walls["thief"]) /\ pos["thief"] \notin walls["thief"]
      BY <1>3, <1>5, <2>3 DEF FreeInv, TruthInv, MoveInv, Yielding, InPlay
    <3>2. CASE Held("thief", rec, m)
      BY <2>1, <3>1, <3>2 DEF FreeInv, Held
    <3>3. CASE Moved("thief", rec, m)
      <4>1. PICK d \in Directions : rec.pos = Shift(pos["thief"], d)
        BY <3>3 DEF Moved
      <4>2. d # "STAY"
        BY <1>2, <3>3, <4>1, StayStays DEF Moved
      <4>3. d \in Orthogonals /\ rec.walls = walls["thief"] /\ pos["thief"] \in Cells
        BY <1>2, <3>3, <4>2 DEF Moved, Orthogonals, Directions
      <4>4. ~Jailed(rec.pos, rec.walls)
        BY <3>1, <4>1, <4>3, WayBack
      <4>5. QED
        BY <2>1, <4>4 DEF FreeInv
    <3>4. QED
      BY <1>1, <1>5, <3>2, <3>3 DEF Turn, Built
  <2>4. QED
    BY <2>2, <2>3
<1>6. QED
  BY <1>4, <1>5 DEF Roles

LEMMA ReturnFree ==
    ASSUME TypeInv, OrderInv, TruthInv, FreeInv, NEW r \in Roles, SendReturns(r)
    PROVE  FreeInv'
<1>1. /\ fsm \in [Roles -> States] /\ call \in [Roles -> Calls \cup {None}] /\ "thief" \in Roles
  BY DEF TypeInv, TypeOK, Roles
<1>2. /\ UNCHANGED <<pos, due, walls>> /\ fsm[r] = "SENDING" /\ call' = [call EXCEPT ![r] = None]
  BY DEF SendReturns, own, gate
<1>3. \/ fsm' = [fsm EXCEPT ![r] = "GAME_OVER"]
      \/ fsm' = [fsm EXCEPT ![r] = "OPP_TURN"] /\ ~Terminal(call[r].msg)
  BY DEF SendReturns, Ends, Goes
<1>4. Jailed(pos'["thief"], walls'["thief"]) <=> Jailed(pos["thief"], walls["thief"])
  BY <1>2
<1>5. CASE r = "police"
  <2>1. fsm'["thief"] = fsm["thief"] /\ call'["thief"] = call["thief"]
    BY <1>1, <1>2, <1>3, <1>5
  <2>2. QED
    BY <1>2, <1>4, <2>1 DEF FreeInv, Yielding, InPlay
<1>6. CASE r = "thief"
  <2>1. CASE fsm'["thief"] = "GAME_OVER"
    BY <2>1 DEF FreeInv, Yielding, InPlay
  <2>2. CASE ~Terminal(call["thief"].msg)
    BY <1>2, <1>4, <1>6, <2>2 DEF FreeInv, Yielding, InPlay, Terminal
  <2>3. QED
    BY <1>1, <1>3, <1>6, <2>1, <2>2
<1>7. QED
  BY <1>5, <1>6 DEF Roles

LEMMA AcceptFree ==
    ASSUME TypeInv, OrderInv, TruthInv, FreeInv, NEW r \in Roles, Accept(r)
    PROVE  FreeInv'
<1> DEFINE m == Head(turns[r])
           answer == IF r = "thief" THEN Answer(r, m, walls[r] \cup ({m.barrier} \ {None}))
                                    ELSE "none"
<1>1. /\ fsm \in [Roles -> States] /\ due \in [Roles -> Answers] /\ "thief" \in Roles
  BY DEF TypeInv, TypeOK, Roles
<1>2. /\ fsm[r] = "OPP_TURN" /\ pos' = pos
      /\ r = "police" => walls' = walls
      /\ r = "thief" => /\ walls["police"] = walls["thief"] \cup ({m.barrier} \ {None})
                        /\ walls'["thief"] = walls["police"]
  BY Applied
<1>3. call' = call /\ due' = [due EXCEPT ![r] = answer]
  BY DEF Accept, Fold
<1>4. fsm' = [fsm EXCEPT ![r] = "GAME_OVER"] \/ fsm' = [fsm EXCEPT ![r] = "MY_TURN"]
  BY DEF Accept, Ends, Goes
<1>5. CASE r = "police"
  <2>1. /\ fsm'["thief"] = fsm["thief"] /\ due'["thief"] = due["thief"]
        /\ walls' = walls
    BY <1>1, <1>2, <1>3, <1>4, <1>5
  <2>2. Jailed(pos'["thief"], walls'["thief"]) <=> Jailed(pos["thief"], walls["thief"])
    BY <1>2, <2>1
  <2>3. QED
    BY <1>3, <2>1, <2>2 DEF FreeInv, Yielding, InPlay
<1>6. CASE r = "thief"
  <2>1. due'["thief"] = answer /\ pos'["thief"] = pos["thief"] /\ walls'["thief"] = walls["police"]
    BY <1>1, <1>2, <1>3, <1>6
  <2>2. ~Jailed(pos["thief"], walls["thief"])
    BY <1>2, <1>6 DEF FreeInv, Yielding, InPlay
  <2>3. Jailed(pos["thief"], walls["police"]) => answer = "caught"
    <3>1. Jailed(pos["thief"], walls["police"]) => m.barrier # None
      BY <1>2, <1>6, <2>2
    <3>2. QED
      BY <1>2, <1>6, <3>1 DEF Answer
  <2>4. CASE fsm'["thief"] = "GAME_OVER"
    BY <2>4 DEF FreeInv, Yielding, InPlay
  <2>5. CASE fsm'["thief"] = "MY_TURN"
    <3>1. Jailed(pos'["thief"], walls'["thief"]) => Jailed(pos["thief"], walls["police"])
      BY <2>1
    <3>2. QED
      BY <2>1, <2>3, <2>5, <3>1 DEF FreeInv, Yielding
  <2>6. QED
    BY <1>1, <1>4, <1>6, <2>4, <2>5
<1>7. QED
  BY <1>5, <1>6 DEF Roles

LEMMA NextFree ==
    ASSUME OnlyOwnMessages, AllWays
    PROVE  TypeInv /\ OrderInv /\ TruthInv /\ FreeInv /\ [Next]_vars => FreeInv'
<1> SUFFICES ASSUME TypeInv, OrderInv, TruthInv, FreeInv, [Next]_vars PROVE FreeInv'
  OBVIOUS
<1>1. ASSUME NEW r \in Roles, TakeTurn(r) \/ SendReturns(r) \/ Accept(r) PROVE FreeInv'
  BY <1>1, TurnFree, ReturnFree, AcceptFree
<1>2. ASSUME NEW r \in Roles,
             \/ BrainRaises(r) \/ Retry(r) \/ GiveUp(r) \/ BeliefRaises(r) \/ DropDuplicate(r)
             \/ TurnTimeout(r) \/ Reveal(r) \/ ReadAudit(r) \/ AuditTimeout(r)
      PROVE  FreeInv'
  BY <1>2, PeerLeaves, LeavesFree
<1>3. ASSUME NEW c \in wire, Deliver(c) \/ Lose(c) PROVE FreeInv'
  BY <1>3, NetworkLeaves, LeavesFree
<1>4. CASE UNCHANGED vars
  <2>1. Leaves
    BY <1>4 DEF vars, own, gate, net, Leaves, Keeps
  <2>2. QED
    BY <2>1, LeavesFree
<1>5. \A r \in Roles : ~Stray(r) /\ ~Reject(r)
  BY RejectNever DEF Stray, OnlyOwnMessages
<1>6. QED
  BY <1>1, <1>2, <1>3, <1>4, <1>5 DEF Next, Peer, Finished

\* A thief whose cell is barriered or that is jailed owes the concession when
\* it is to move, although respond_to_opponent looks for a jail only when a
\* barrier has just been declared: a thief that walked in can walk out.
THEOREM LostPositionsConcede ==
    ASSUME OnlyOwnMessages, AllWays
    PROVE  Spec => []NoSilentCapture
<1>1. Init => FreeInv
  BY InitFree
<1>2. TypeInv /\ OrderInv /\ TruthInv /\ FreeInv /\ [Next]_vars => FreeInv'
  BY NextFree
<1>3. OrderInv /\ TypeInv /\ TruthInv /\ FreeInv => NoSilentCapture
  <2> SUFFICES ASSUME OrderInv, TypeInv, TruthInv, FreeInv, fsm["thief"] = "MY_TURN",
                      \/ pos["thief"] \in walls["police"]
                      \/ Jailed(pos["thief"], walls["police"])
               PROVE  due["thief"] = "caught"
    BY DEF NoSilentCapture
  <2>1. walls["thief"] = walls["police"]
    BY ThiefMoves
  <2>2. pos["thief"] \in walls["thief"] \/ Jailed(pos["thief"], walls["thief"])
    BY <2>1
  <2>3. Yielding
    BY <2>2 DEF FreeInv, TruthInv, MoveInv
  <2>4. QED
    BY <2>3 DEF Yielding, InPlay
<1>4. QED
  BY <1>1, <1>2, <1>3, TruthIsInvariant, PTL DEF Spec

-----------------------------------------------------------------------------
(* One verdict.                                                            *)

\* The signed move ceiling does not end a sub-game before the survival
\* threshold does (max_moves = survival_threshold in every configuration of the
\* repository; MCPeerGameCeilingResult shows what happens below).
CeilingNotFirst == SurvivalThreshold <= MaxMoves

\* With such a ceiling a survival is the thief's.
LEMMA SurvivalFree ==
    ASSUME CeilingNotFirst, TypeInv, OrderInv, EarnedInv, Game!Earned("survival")
    PROVE  /\ ~Game!Caught /\ Len(log["thief"]) = Len(log["police"]) + 1
           /\ Len(log["thief"]) = SurvivalThreshold
<1>1. /\ Len(log["police"]) \in Nat /\ Len(log["thief"]) \in Nat
      /\ Len(log["police"]) <= Len(log["thief"]) /\ Len(log["thief"]) <= Len(log["police"]) + 1
      /\ Len(log["police"]) < SurvivalThreshold
      /\ SurvivalThreshold \in Nat /\ MaxMoves \in Nat
  BY TrailLengths, PeerGameAssumption DEF EarnedInv
<1>2. ~Game!CeilingSpent
  BY <1>1 DEF Game!CeilingSpent, Game!Taken, CeilingNotFirst
<1>3. Game!Survived /\ ~Game!Caught /\ ~Game!ThiefToStep
  BY <1>2 DEF Game!Earned
<1>4. Len(log["thief"]) >= SurvivalThreshold /\ Len(log["thief"]) # Len(log["police"])
  BY <1>3 DEF Game!Survived, Game!ThiefToStep, Game!Taken
<1>5. QED
  BY <1>1, <1>3, <1>4

\* Faults may cost a peer its result, but the two never both claim the game.
THEOREM OneVictor ==
    ASSUME OnlyOwnMessages, CeilingNotFirst
    PROVE  Spec => []NoConflictingVictory
<1>1. TypeInv /\ OrderInv /\ EarnedInv => NoConflictingVictory
  <2> SUFFICES ASSUME TypeInv, OrderInv, EarnedInv,
                      {result["police"], result["thief"]} = {"capture", "survival"}
               PROVE  FALSE
    BY DEF NoConflictingVictory
  <2>1. \E r, q \in Roles : result[r] = "capture" /\ result[q] = "survival"
    BY DEF Roles
  <2>2. Game!Earned("capture") /\ Game!Earned("survival")
    BY <2>1 DEF EarnedInv
  <2>3. Game!Caught
    BY <2>2 DEF Game!Earned
  <2>4. QED
    BY <2>2, <2>3, SurvivalFree
<1>2. QED
  BY <1>1, EarnedIsInvariant, PTL

-----------------------------------------------------------------------------
(* What holds whatever arrives: CountInv is inductive with strays as well. *)

LEMMA FoldCounts ==
    ASSUME TypeInv, CountInv, NEW r \in Roles, NEW m, Fresh(r, m), Fold(r, m)
    PROVE  /\ IsFiniteSet(walls'["thief"]) /\ WallsAccounted'
           /\ LastStep("police")' >= LastStep("police")
           /\ r = "police" => m.step = LastStep("police")' /\ m.from = "thief"
           /\ UNCHANGED <<log, call>>
<1>1. /\ walls \in [Roles -> SUBSET Cells] /\ seen \in [Roles -> Seq(Records)]
      /\ oppPlaced \in [Roles -> 0 .. MaxBarriers]
      /\ "thief" \in Roles /\ "police" \in Roles /\ MaxBarriers \in Nat
  BY PeerGameAssumption DEF TypeInv, TypeOK, Roles
<1>2. /\ walls' = [walls EXCEPT ![r] = walls[r] \cup ({m.barrier} \ {None})]
      /\ seen' = [seen EXCEPT ![r] = Append(seen[r], m.commit)]
      /\ oppPlaced' = [oppPlaced EXCEPT ![r] = IF m.barrier = None THEN oppPlaced[r]
                                                                   ELSE oppPlaced[r] + 1]
      /\ UNCHANGED <<log, call>>
  BY DEF Fold
<1>3. m.barrier # None => oppPlaced[r] < MaxBarriers /\ m.barrier \notin walls[r]
  BY DEF Fresh, Valid
<1>4. IsFiniteSet(walls["thief"]) /\ Cardinality(walls["thief"]) = oppPlaced["thief"]
  BY DEF CountInv, WallsAccounted
<1>5. IsFiniteSet(walls'["thief"]) /\ WallsAccounted'
  <2>1. CASE walls'["thief"] = walls["thief"] /\ oppPlaced'["thief"] = oppPlaced["thief"]
    BY <1>1, <1>4, <2>1 DEF WallsAccounted
  <2>2. CASE r = "thief" /\ m.barrier # None
    <3>1. /\ walls'["thief"] = walls["thief"] \cup {m.barrier}
          /\ oppPlaced'["thief"] = oppPlaced["thief"] + 1
      BY <1>1, <1>2, <2>2
    <3>2. m.barrier \notin walls["thief"] /\ oppPlaced["thief"] < MaxBarriers
      BY <1>3, <2>2
    <3>3. /\ IsFiniteSet(walls'["thief"])
          /\ Cardinality(walls'["thief"]) = oppPlaced["thief"] + 1
      <4>1. /\ IsFiniteSet(walls["thief"] \cup {m.barrier})
            /\ Cardinality(walls["thief"] \cup {m.barrier}) = Cardinality(walls["thief"]) + 1
        BY <1>4, <3>2, OneMore
      <4>2. QED
        BY <1>4, <3>1, <4>1
    <3>4. oppPlaced'["thief"] <= MaxBarriers
      BY <1>1, <3>1, <3>2
    <3>5. QED
      BY <3>1, <3>3, <3>4 DEF WallsAccounted
  <2>3. QED
    BY <1>1, <1>2, <2>1, <2>2
<1>6. seen["police"] \in Seq(Records) /\ m.step = LastStep(r) + 1 /\ m.from = Opp(r)
  BY <1>1 DEF Fresh, Valid
<1>7. LastStep("police")' >= LastStep("police")
  BY <1>1, <1>2, <1>6 DEF LastStep
<1>8. r = "police" => LastStep("police")' = LastStep("police") + 1
  BY <1>1, <1>2, <1>6 DEF LastStep
<1>9. QED
  BY <1>2, <1>5, <1>6, <1>7, <1>8 DEF Opp

\* The count of a survival, once conceded, stays right.
LEMMA SurvivalKept ==
    ASSUME TypeInv, SurvivalCounted, result'["police"] \in {result["police"], "capture", "technical_loss"},
           LastStep("police")' >= LastStep("police"), Len(log'["police"]) >= Len(log["police"]),
           Len(log'["police"]) \in Nat, LastStep("police")' \in Nat
    PROVE  SurvivalCounted'
<1>1. /\ LastStep("police") \in Nat /\ Len(log["police"]) \in Nat
      /\ MaxMoves \in Nat /\ SurvivalThreshold \in Nat
  BY PeerGameAssumption, SMTT(30) DEF TypeInv, TypeOK, LastStep, Roles
<1>2. QED
  BY <1>1 DEF SurvivalCounted

LEMMA InitCount == Init => CountInv
<1> SUFFICES ASSUME Init PROVE CountInv
  OBVIOUS
<1>1. /\ walls["thief"] = {} /\ oppPlaced["thief"] = 0 /\ result["police"] = "pending"
      /\ due["police"] = "none" /\ fsm["police"] = "OPP_TURN"
  BY DEF Init, Roles, FirstState
<1>2. IsFiniteSet({}) /\ Cardinality({}) = 0 /\ 0 <= MaxBarriers
  BY FS_EmptySet, PeerGameAssumption
<1>3. QED
  BY <1>1, <1>2 DEF CountInv, WallsAccounted, SurvivalCounted

LEMMA TurnCount ==
    ASSUME TypeInv, TypeInv', CountInv, NEW r \in Roles, TakeTurn(r)
    PROVE  CountInv'
<1>1. PICK rec \in Records, m \in TurnMessages : Turn(r, rec, m)
  BY TurnTaken
<1>2. /\ fsm \in [Roles -> States] /\ call \in [Roles -> Calls \cup {None}]
      /\ due \in [Roles -> Answers] /\ walls \in [Roles -> SUBSET Cells]
      /\ log["police"] \in Seq(Records) /\ seen'["police"] \in Seq(Records)
      /\ "thief" \in Roles /\ "police" \in Roles
  BY DEF TypeInv, TypeOK, Roles
<1>3. /\ fsm[r] = "MY_TURN" /\ fsm' = [fsm EXCEPT ![r] = "SENDING"]
      /\ due' = [due EXCEPT ![r] = "none"] /\ UNCHANGED <<result, seen, oppPlaced>>
  BY DEF TakeTurn, Goes
<1>4. Growing /\ Len(log'[r]) = Len(log[r]) + 1 /\ \A q \in Roles : q # r => log'[q] = log[q]
  BY <1>1, LogGrows DEF Turn
<1>5. walls'["thief"] = walls["thief"]
  BY <1>1, <1>2 DEF Turn, Held, Moved, Built
<1>6. SurvivalCounted'
  <2>1. Len(log'["police"]) \in Nat /\ Len(log'["police"]) >= Len(log["police"])
    BY <1>4 DEF Growing, Roles
  <2>2. LastStep("police")' = LastStep("police") /\ LastStep("police")' \in Nat
    BY <1>2, <1>3 DEF LastStep
  <2>3. QED
    BY <1>3, <2>1, <2>2, SurvivalKept DEF CountInv
<1>7. CASE r = "police"
  <2>1. call'["police"].msg = m /\ due'["police"] = "none"
    BY <1>1, <1>2, <1>3, <1>7 DEF Turn
  <2>2. m.answer = "none" /\ ~m.win /\ m.step = Len(log'["police"])
    BY <1>1, <1>4, <1>7 DEF Turn, CountInv
  <2>3. QED
    BY <1>3, <1>5, <1>6, <2>1, <2>2 DEF CountInv, WallsAccounted
<1>8. CASE r = "thief"
  <2>1. /\ call'["police"] = call["police"] /\ due'["police"] = due["police"]
        /\ fsm'["police"] = fsm["police"] /\ log'["police"] = log["police"]
    BY <1>1, <1>2, <1>3, <1>4, <1>8 DEF Turn
  <2>2. QED
    BY <1>3, <1>5, <1>6, <2>1 DEF CountInv, WallsAccounted
<1>9. QED
  BY <1>7, <1>8 DEF Roles

LEMMA ReturnCount ==
    ASSUME TypeInv, TypeInv', CountInv, NEW r \in Roles, SendReturns(r)
    PROVE  CountInv'
<1>1. /\ fsm \in [Roles -> States] /\ call \in [Roles -> Calls \cup {None}]
      /\ result \in [Roles -> Results] /\ log["police"] \in Seq(Records)
      /\ seen["police"] \in Seq(Records) /\ "thief" \in Roles /\ "police" \in Roles
  BY DEF TypeInv, TypeOK, Roles
<1>2. /\ UNCHANGED <<log, seen, oppPlaced, due, walls>> /\ fsm[r] = "SENDING"
      /\ call' = [call EXCEPT ![r] = None]
  BY DEF SendReturns, own, gate
<1>3. \E s \in {"GAME_OVER", "OPP_TURN"} : fsm' = [fsm EXCEPT ![r] = s]
  BY DEF SendReturns, Ends, Goes
<1>4. SurvivalCounted'
  <2>1. CASE r = "police"
    <3>1. ~Terminal(call[r].msg) /\ call[r].msg.step = Len(log["police"])
      BY <1>2, <2>1 DEF CountInv, Terminal
    <3>2. \/ Spent(call[r].msg)
          \/ result' = result
      BY <3>1 DEF SendReturns, Goes
    <3>3. CASE Spent(call[r].msg)
      BY <1>2, <3>1, <3>3 DEF Spent, SurvivalCounted
    <3>4. CASE result' = result
      BY <1>2, <3>4 DEF CountInv, SurvivalCounted, LastStep
    <3>5. QED
      BY <3>2, <3>3, <3>4
  <2>2. CASE r = "thief"
    <3>1. result'["police"] = result["police"]
      BY <1>1, <2>2 DEF SendReturns, Ends, Goes
    <3>2. QED
      BY <1>2, <3>1 DEF CountInv, SurvivalCounted, LastStep
  <2>3. QED
    BY <2>1, <2>2 DEF Roles
<1>5. fsm'["police"] = "SENDING" => fsm["police"] = "SENDING" /\ call'["police"] = call["police"]
  BY <1>1, <1>2, <1>3
<1>6. QED
  BY <1>2, <1>4, <1>5 DEF CountInv, WallsAccounted

LEMMA AcceptCount ==
    ASSUME TypeInv, TypeInv', CountInv, NEW r \in Roles, Accept(r)
    PROVE  CountInv'
<1> DEFINE m == Head(turns[r])
           answer == IF r = "thief" THEN Answer(r, m, walls[r] \cup ({m.barrier} \ {None}))
                                    ELSE "none"
<1>1. /\ fsm \in [Roles -> States] /\ result \in [Roles -> Results]
      /\ due \in [Roles -> Answers] /\ log["police"] \in Seq(Records)
      /\ seen'["police"] \in Seq(Records) /\ "thief" \in Roles /\ "police" \in Roles
  BY DEF TypeInv, TypeOK, Roles
<1>2. Fresh(r, m) /\ Fold(r, m) /\ fsm[r] = "OPP_TURN"
  BY DEF Accept, Reads
<1>3. /\ IsFiniteSet(walls'["thief"]) /\ WallsAccounted'
      /\ LastStep("police")' >= LastStep("police") /\ LastStep("police")' \in Nat
      /\ r = "police" => m.step = LastStep("police")' /\ m.from = "thief"
      /\ UNCHANGED <<log, call>>
  BY <1>1, <1>2, FoldCounts DEF LastStep
<1>4. \E s \in {"GAME_OVER", "MY_TURN"} : fsm' = [fsm EXCEPT ![r] = s]
  BY DEF Accept, Ends, Goes
<1>5. due' = [due EXCEPT ![r] = answer]
  BY DEF Accept
<1>6. due'["police"] = "none"
  BY <1>1, <1>5 DEF CountInv
<1>7. Len(log'["police"]) \in Nat /\ Len(log'["police"]) >= Len(log["police"])
  BY <1>1, <1>3
<1>8. SurvivalCounted'
  <2>1. CASE result'["police"] \in {result["police"], "capture", "technical_loss"}
    BY <1>3, <1>7, <2>1, SurvivalKept DEF CountInv
  <2>2. CASE r = "police" /\ Ends(r, "survival") /\ (Spent(m) \/ (Terminal(m) /\ m.answer # "caught"))
    <3>1. ~Spent(m)
      BY <1>3, <2>2 DEF Spent
    <3>2. m.win
      BY <2>2, <3>1 DEF Terminal
    <3>3. LastStep("police")' >= SurvivalThreshold
      BY <1>2, <1>3, <2>2, <3>2 DEF Fresh, Valid
    <3>4. QED
      BY <3>3 DEF SurvivalCounted
  <2>3. CASE r = "thief"
    <3>1. result'["police"] = result["police"]
      BY <1>1, <2>3 DEF Accept, Ends, Goes
    <3>2. QED
      BY <2>1, <3>1
  <2>4. CASE r = "police"
    <3>1. \/ Ends(r, "capture")
          \/ Ends(r, "survival") /\ (Spent(m) \/ (Terminal(m) /\ m.answer # "caught"))
          \/ Goes(r, "MY_TURN")
      BY DEF Accept
    <3>2. Ends(r, "capture") \/ Goes(r, "MY_TURN") => result'["police"] \in {result["police"], "capture"}
      BY <1>1, <2>4 DEF Ends, Goes
    <3>3. QED
      BY <2>1, <2>2, <2>4, <3>1, <3>2
  <2>5. QED
    BY <2>3, <2>4 DEF Roles
<1>9. fsm'["police"] = "SENDING" => fsm["police"] = "SENDING"
  BY <1>1, <1>4
<1>10. QED
  BY <1>3, <1>6, <1>8, <1>9 DEF CountInv

LEMMA QuietCount ==
    ASSUME TypeInv, TypeInv', CountInv, UNCHANGED <<log, seen, oppPlaced, due, walls>>,
           result'["police"] \in {result["police"], "technical_loss"},
           ~InPlay("police")' \/ Keeps("police")
    PROVE  CountInv'
<1>1. log["police"] \in Seq(Records) /\ seen["police"] \in Seq(Records)
  BY DEF TypeInv, TypeOK, Roles
<1>2. SurvivalCounted'
  BY DEF CountInv, SurvivalCounted, LastStep
<1>3. fsm'["police"] = "SENDING" =>
         fsm["police"] = "SENDING" /\ call'["police"].msg = call["police"].msg
  BY DEF InPlay, Keeps
<1>4. QED
  BY <1>2, <1>3 DEF CountInv, WallsAccounted

LEMMA NextCount == TypeInv /\ CountInv /\ [Next]_vars => CountInv'
<1> SUFFICES ASSUME TypeInv, CountInv, [Next]_vars PROVE CountInv'
  OBVIOUS
<1>1. TypeInv'
  BY NextType
<1>2. ASSUME NEW r \in Roles, TakeTurn(r) \/ SendReturns(r) \/ Accept(r) PROVE CountInv'
  BY <1>1, <1>2, TurnCount, ReturnCount, AcceptCount
<1>3. result \in [Roles -> Results] /\ "police" \in Roles /\ fsm \in [Roles -> States]
  BY DEF TypeInv, TypeOK, Roles
<1>4. ASSUME NEW r \in Roles,
             \/ BrainRaises(r) \/ Retry(r) \/ GiveUp(r) \/ DropDuplicate(r)
             \/ TurnTimeout(r) \/ Reveal(r) \/ ReadAudit(r) \/ AuditTimeout(r)
      PROVE  CountInv'
  <2>1. UNCHANGED <<log, seen, oppPlaced, due, walls>>
    BY <1>4 DEF BrainRaises, Retry, GiveUp, DropDuplicate, TurnTimeout, Reveal, ReadAudit,
                AuditTimeout, own, gate
  <2>2. result'["police"] \in {result["police"], "technical_loss"}
    BY <1>3, <1>4 DEF BrainRaises, Retry, GiveUp, DropDuplicate, TurnTimeout, Reveal, ReadAudit,
                      AuditTimeout, Ends, Goes
  <2>3. ~InPlay("police")' \/ Keeps("police")
    BY <1>3, <1>4, PeerLeaves DEF Leaves
  <2>4. QED
    BY <1>1, <2>1, <2>2, <2>3, QuietCount
<1>5. ASSUME NEW r \in Roles, BeliefRaises(r) PROVE CountInv'
  <2> DEFINE m == Head(turns[r])
  <2>1. Fresh(r, m) /\ Fold(r, m) /\ due' = due
    BY <1>5 DEF BeliefRaises
  <2>2. /\ IsFiniteSet(walls'["thief"]) /\ WallsAccounted'
        /\ LastStep("police")' >= LastStep("police") /\ UNCHANGED <<log, call>>
    BY <2>1, FoldCounts
  <2>3. fsm' = [fsm EXCEPT ![r] = "GAME_OVER"] /\ result' = [result EXCEPT ![r] = "technical_loss"]
    BY <1>5 DEF BeliefRaises, Ends
  <2>4. LastStep("police")' \in Nat /\ Len(log["police"]) \in Nat
    <3>1. seen'["police"] \in Seq(Records) /\ log["police"] \in Seq(Records)
      BY <1>1 DEF TypeInv, TypeOK, Roles
    <3>2. QED
      BY <3>1 DEF LastStep
  <2>5. SurvivalCounted'
    <3>1. result'["police"] \in {result["police"], "capture", "technical_loss"}
      BY <1>3, <2>3
    <3>2. QED
      BY <2>2, <2>4, <3>1, SurvivalKept DEF CountInv
  <2>6. fsm'["police"] = "SENDING" => fsm["police"] = "SENDING"
    BY <1>3, <2>3
  <2>7. QED
    BY <2>1, <2>2, <2>5, <2>6 DEF CountInv
<1>6. ASSUME NEW r \in Roles, Reject(r) \/ Stray(r) PROVE CountInv'
  <2>1. /\ UNCHANGED <<log, seen, oppPlaced, due, walls, call>>
        /\ UNCHANGED <<fsm, result>> \/ Ends(r, "technical_loss")
    BY <1>6 DEF Reject, Stray, own, gate
  <2>2. result'["police"] \in {result["police"], "technical_loss"}
    BY <1>3, <2>1 DEF Ends
  <2>3. ~InPlay("police")' \/ Keeps("police")
    BY <1>3, <2>1 DEF Ends, InPlay, Keeps
  <2>4. QED
    BY <1>1, <2>1, <2>2, <2>3, QuietCount
<1>7. ASSUME NEW c \in wire, Deliver(c) \/ Lose(c) PROVE CountInv'
  <2>1. UNCHANGED <<log, seen, oppPlaced, due, walls, result>>
    BY <1>7 DEF Deliver, Lose, own, gate
  <2>2. ~InPlay("police")' \/ Keeps("police")
    BY <1>3, <1>7, NetworkLeaves DEF Leaves
  <2>3. QED
    BY <1>1, <2>1, <2>2, QuietCount
<1>8. CASE UNCHANGED vars
  <2>1. UNCHANGED <<log, seen, oppPlaced, due, walls, result>> /\ Keeps("police")
    BY <1>8 DEF vars, own, gate, net, Keeps
  <2>2. QED
    BY <1>1, <2>1, QuietCount
<1>9. QED
  BY <1>2, <1>4, <1>5, <1>6, <1>7, <1>8 DEF Next, Peer, Finished

LEMMA CountIsInvariant == Spec => [](TypeInv /\ CountInv)
<1>1. Init => TypeInv /\ CountInv
  BY InitType, InitCount
<1>2. TypeInv /\ CountInv /\ [Next]_vars => (TypeInv /\ CountInv)'
  BY NextType, NextCount
<1>3. QED
  BY <1>1, <1>2, PTL DEF Spec

\* Whatever arrives, messages of other sub-games included, the thief's barrier
\* map holds one cell per declaration it accepted and never more than the
\* signed quota (rules 14 and 45).
THEOREM QuotaHolds == Spec => []WallsAccounted
<1>1. CountInv => WallsAccounted
  BY DEF CountInv
<1>2. QED
  BY <1>1, CountIsInvariant, PTL

\* Whatever arrives, the police concedes a survival only to a thief whose
\* steps it has counted up to the signed threshold.
THEOREM SurvivalIsCounted == Spec => []SurvivalCounted
<1>1. CountInv => SurvivalCounted
  BY DEF CountInv
<1>2. QED
  BY <1>1, CountIsInvariant, PTL

-----------------------------------------------------------------------------
(* What a peer learns from the audit is final: LearnedInv is inductive.    *)

\* Nobody comes back into play, and who leaves it has a result.
NoneReturns ==
    /\ UNCHANGED <<theirs, verdict>>
    /\ \A q \in Roles : log'[q] = log[q] \/ InPlay(q)
    /\ \A q \in Roles : fsm[q] = "DONE" => fsm'[q] = "DONE"
    /\ \A q \in Roles : ~InPlay(q) => ~InPlay(q)' /\ result'[q] = result[q]
    /\ \A q \in Roles : InPlay(q) /\ ~InPlay(q)' => result'[q] # "pending"

LEMMA NoneReturnsLearned == LearnedInv /\ NoneReturns => LearnedInv'
<1> SUFFICES ASSUME LearnedInv, NoneReturns PROVE LearnedInv'
  OBVIOUS
<1>1. \A r \in Roles : Opp(r) \in Roles
  BY DEF Opp, Roles
<1>2. \A r \in Roles : ~InPlay(r)' => result'[r] # "pending"
  BY DEF LearnedInv, NoneReturns
<1>3. \A r \in Roles : verdict'[r] # "open" => fsm'[r] = "DONE"
  BY DEF LearnedInv, NoneReturns
<1>4. \A r \in Roles : verdict'[r] = "passed" => theirs'[r] = log'[Opp(r)] /\ ~InPlay(Opp(r))'
  BY <1>1 DEF LearnedInv, NoneReturns
<1>5. \A r \in Roles : theirs'[r] # <<>> => verdict'[r] = "passed"
  BY DEF LearnedInv, NoneReturns
<1>6. QED
  BY <1>2, <1>3, <1>4, <1>5 DEF LearnedInv

LEMMA PeerReturnsNot ==
    ASSUME TypeInv, NEW r \in Roles,
           \/ TakeTurn(r) \/ BrainRaises(r) \/ SendReturns(r) \/ Retry(r) \/ GiveUp(r)
           \/ Accept(r) \/ DropDuplicate(r) \/ BeliefRaises(r) \/ TurnTimeout(r) \/ Reveal(r)
    PROVE  NoneReturns
<1>1. /\ fsm \in [Roles -> States] /\ result \in [Roles -> Results]
      /\ log \in [Roles -> Seq(Records)]
  BY DEF TypeInv, TypeOK
<1>2. UNCHANGED <<theirs, verdict>>
  BY DEF TakeTurn, BrainRaises, SendReturns, Retry, GiveUp, Accept, DropDuplicate, BeliefRaises,
         TurnTimeout, Reveal, Fold, ending
<1>3. CASE TakeTurn(r)
  <2>1. PICK rec \in Records, m \in TurnMessages : Turn(r, rec, m)
    BY <1>3, TurnTaken
  <2>2. \A q \in Roles : q # r => log'[q] = log[q]
    BY <1>1, <2>1 DEF Turn
  <2>3. fsm[r] = "MY_TURN" /\ fsm' = [fsm EXCEPT ![r] = "SENDING"] /\ result' = result
    BY <1>3 DEF TakeTurn, Goes
  <2>4. QED
    BY <1>1, <1>2, <2>2, <2>3 DEF NoneReturns, InPlay
<1>4. CASE ~TakeTurn(r)
  <2>1. log' = log
    BY <1>4 DEF BrainRaises, SendReturns, Retry, GiveUp, Accept, DropDuplicate, BeliefRaises,
       TurnTimeout, Reveal, Fold, own
  <2>2. CASE \E o \in {"capture", "survival", "technical_loss"} : InPlay(r) /\ Ends(r, o)
    BY <1>1, <1>2, <2>1, <2>2 DEF NoneReturns, InPlay, Ends
  <2>3. CASE \E s \in {"MY_TURN", "OPP_TURN"} : InPlay(r) /\ Goes(r, s)
    BY <1>1, <1>2, <2>1, <2>3 DEF NoneReturns, InPlay, Goes
  <2>4. CASE UNCHANGED <<fsm, result>>
    BY <1>2, <2>1, <2>4 DEF NoneReturns, InPlay
  <2>5. CASE fsm[r] = "GAME_OVER" /\ Goes(r, "AUDITING")
    BY <1>1, <1>2, <2>1, <2>5 DEF NoneReturns, InPlay, Goes
  <2>6. CASE BrainRaises(r) \/ GiveUp(r) \/ TurnTimeout(r) \/ BeliefRaises(r)
    BY <2>2, <2>6 DEF BrainRaises, GiveUp, AttemptFails, TurnTimeout, BeliefRaises, Reads, InPlay
  <2>7. CASE SendReturns(r)
    <3>1. InPlay(r)
      BY <2>7 DEF SendReturns, InPlay
    <3>2. QED
      BY <2>2, <2>3, <2>7, <3>1 DEF SendReturns
  <2>8. CASE Accept(r)
    <3>1. InPlay(r)
      BY <2>8 DEF Accept, Reads, InPlay
    <3>2. QED
      BY <2>2, <2>3, <2>8, <3>1 DEF Accept
  <2>9. CASE Retry(r) \/ DropDuplicate(r)
    BY <2>4, <2>9 DEF Retry, DropDuplicate
  <2>10. CASE Reveal(r)
    BY <2>5, <2>10 DEF Reveal
  <2>11. QED
    BY <1>4, <2>6, <2>7, <2>8, <2>9, <2>10
<1>5. QED
  BY <1>3, <1>4

LEMMA AuditLearned ==
    ASSUME TypeInv, OrderInv, AuditInv, LearnedInv, NEW r \in Roles,
           ReadAudit(r) \/ AuditTimeout(r)
    PROVE  LearnedInv'
<1>1. /\ fsm \in [Roles -> States] /\ theirs \in [Roles -> Seq(Records)]
      /\ verdict \in [Roles -> {"open", "passed", "forged", "absent"}]
      /\ \A q \in Roles : Opp(q) \in Roles /\ Opp(q) # q
  BY DEF TypeInv, TypeOK, Opp, Roles
<1>2. /\ log' = log /\ fsm[r] = "AUDITING" /\ fsm' = [fsm EXCEPT ![r] = "DONE"] /\ result' = result
  BY AuditPasses DEF ReadAudit, AuditTimeout, Goes, own
<1>3. /\ fsm'[r] = "DONE" /\ \A q \in Roles : q # r => fsm'[q] = fsm[q]
      /\ \A q \in Roles : InPlay(q)' <=> InPlay(q)
  BY <1>1, <1>2 DEF InPlay
<1>4. verdict[r] = "open" /\ theirs[r] = <<>>
  BY <1>2 DEF LearnedInv
<1>5. \/ /\ theirs'[r] = log[Opp(r)] /\ verdict'[r] = "passed" /\ ~InPlay(Opp(r))
         /\ \A q \in Roles : q # r => theirs'[q] = theirs[q] /\ verdict'[q] = verdict[q]
      \/ /\ theirs' = theirs /\ verdict'[r] = "absent"
         /\ \A q \in Roles : q # r => verdict'[q] = verdict[q]
  <2>1. CASE ReadAudit(r)
    BY <1>1, <2>1, AuditPasses DEF InPlay
  <2>2. CASE AuditTimeout(r)
    BY <1>1, <2>2 DEF AuditTimeout
  <2>3. QED
    BY <2>1, <2>2
<1>6. \A q \in Roles : ~InPlay(q)' => result'[q] # "pending"
  BY <1>2, <1>3 DEF LearnedInv
<1>7. \A q \in Roles : verdict'[q] # "open" => fsm'[q] = "DONE"
  BY <1>3, <1>5 DEF LearnedInv
<1>8. \A q \in Roles : verdict'[q] = "passed" => theirs'[q] = log'[Opp(q)] /\ ~InPlay(Opp(q))'
  BY <1>1, <1>2, <1>3, <1>5 DEF LearnedInv
<1>9. \A q \in Roles : theirs'[q] # <<>> => verdict'[q] = "passed"
  BY <1>4, <1>5 DEF LearnedInv
<1>10. QED
  BY <1>6, <1>7, <1>8, <1>9 DEF LearnedInv

LEMMA NextLearned ==
    ASSUME OnlyOwnMessages
    PROVE  TypeInv /\ OrderInv /\ AuditInv /\ LearnedInv /\ [Next]_vars => LearnedInv'
<1> SUFFICES ASSUME TypeInv, OrderInv, AuditInv, LearnedInv, [Next]_vars PROVE LearnedInv'
  OBVIOUS
<1>1. ASSUME NEW r \in Roles, Peer(r) PROVE LearnedInv'
  BY <1>1, PeerReturnsNot, NoneReturnsLearned, AuditLearned, RejectNever DEF Peer
<1>2. ASSUME NEW c \in wire, Deliver(c) \/ Lose(c) PROVE LearnedInv'
  <2>1. UNCHANGED <<fsm, result, log, theirs, verdict>>
    BY <1>2 DEF Deliver, Lose, own, ending
  <2>2. QED
    BY <2>1, NoneReturnsLearned DEF NoneReturns, InPlay
<1>3. CASE UNCHANGED vars
  <2>1. UNCHANGED <<fsm, result, log, theirs, verdict>>
    BY <1>3 DEF vars, own, ending
  <2>2. QED
    BY <2>1, NoneReturnsLearned DEF NoneReturns, InPlay
<1>4. \A r \in Roles : ~Stray(r)
  BY DEF Stray, OnlyOwnMessages
<1>5. QED
  BY <1>1, <1>2, <1>3, <1>4 DEF Next, Finished

LEMMA InitLearned == Init => LearnedInv
<1> SUFFICES ASSUME Init PROVE LearnedInv
  OBVIOUS
<1>1. \A r \in Roles : InPlay(r) /\ verdict[r] = "open" /\ theirs[r] = <<>>
  BY DEF Init, InPlay, FirstState
<1>2. QED
  BY <1>1 DEF LearnedInv

\* All that the comparison of the two endings rests on.
EndingInv == TypeInv /\ OrderInv /\ AuditInv /\ TruthInv /\ EarnedInv /\ CountInv /\ LearnedInv

LEMMA EndingIsInvariant ==
    ASSUME OnlyOwnMessages
    PROVE  Spec => []EndingInv
<1>1. Init => LearnedInv
  BY InitLearned
<1>2. TypeInv /\ OrderInv /\ AuditInv /\ LearnedInv /\ [Next]_vars => LearnedInv'
  BY NextLearned
<1>3. QED
  BY <1>1, <1>2, EarnedIsInvariant, CountIsInvariant, PTL DEF Spec, EndingInv

-----------------------------------------------------------------------------
(* Two accounts of one ending.                                             *)

\* How many turns a decided game has had, whoever counts.
LEMMA SettledCounts ==
    ASSUME CeilingNotFirst, EndingInv, NEW r \in Roles
    PROVE  /\ result[r] = "capture" =>
                 /\ Len(log["police"]) >= 1 /\ LastStep("thief") = Len(log["police"])
           /\ result[r] = "survival" => Len(log["thief"]) >= 1
           /\ r = "police" /\ result[r] = "survival" => LastStep("police") = Len(log["thief"])
<1> USE DEF EndingInv
<1>1. /\ LastStep("thief") <= Len(log["police"]) /\ LastStep("police") <= Len(log["thief"])
      /\ Len(log["thief"]) <= LastStep("thief") + 1
      /\ LastStep("thief") \in Nat /\ LastStep("police") \in Nat
      /\ Len(log["thief"]) \in Nat /\ Len(log["police"]) \in Nat
      /\ SurvivalThreshold \in Nat \ {0} /\ MaxMoves \in Nat
      /\ Len(log["police"]) <= Len(log["thief"]) /\ Len(log["thief"]) <= Len(log["police"]) + 1
  BY Chain, TrailLengths, PeerGameAssumption
<1>2. CASE result[r] = "capture"
  <2>1. Game!Caught /\ ~Game!ThiefToStep
    BY <1>2 DEF EarnedInv, Game!Earned
  <2>2. Len(log["police"]) \in 1 .. Len(log["police"])
    BY <2>1 DEF Game!Caught, Game!CaughtAt, Game!Taken
  <2>3. Len(log["thief"]) # Len(log["police"])
    BY <2>1 DEF Game!ThiefToStep, Game!Taken
  <2>4. QED
    BY <1>1, <1>2, <2>2, <2>3
<1>3. CASE result[r] = "survival"
  <2>1. Game!Earned("survival")
    BY <1>3 DEF EarnedInv
  <2>2. /\ Len(log["thief"]) = SurvivalThreshold
        /\ Len(log["thief"]) = Len(log["police"]) + 1
    BY <2>1, SurvivalFree
  <2>3. r = "police" => LastStep("police") >= SurvivalThreshold \/ Len(log["police"]) >= MaxMoves
    BY <1>3 DEF CountInv, SurvivalCounted
  <2>4. QED
    BY <1>1, <1>3, <2>2, <2>3 DEF CeilingNotFirst
<1>4. QED
  BY <1>2, <1>3

\* The turns of a decided game, as the one board counts them.
Played(o) == IF o = "capture" THEN Len(log["police"]) ELSE Len(log["thief"])

LEMMA TurnsSettled ==
    ASSUME CeilingNotFirst, EndingInv, NEW r \in Roles, result[r] \in {"capture", "survival"}
    PROVE  TurnsCompleted(r) = Played(result[r])
<1>1. CASE result[r] = "capture"
  BY <1>1, SettledCounts DEF TurnsCompleted, Played, Roles
<1>2. CASE result[r] = "survival"
  BY <1>2, SettledCounts DEF TurnsCompleted, Played, Roles
<1>3. QED
  BY <1>1, <1>2

LEMMA RowsSettled ==
    ASSUME CeilingNotFirst, EndingInv, NEW r \in Roles, result[r] \in {"capture", "survival"},
           verdict[r] = "passed"
    PROVE  RowTurns(r) = Played(result[r])
<1>1. theirs[r] = log[Opp(r)]
  BY DEF EndingInv, LearnedInv
<1>2. CASE result[r] = "capture"
  BY <1>1, <1>2, SettledCounts DEF RowTurns, Played, Roles, Opp
<1>3. CASE result[r] = "survival"
  BY <1>1, <1>3, SettledCounts DEF RowTurns, Played, Roles, Opp
<1>4. QED
  BY <1>2, <1>3

\* A row of a peer whose audit arrived counts the turns its digest counts, and
\* the two groups' rows count the same, one from its own log and the other
\* from what was revealed to it (series_log.py and audit.py).
THEOREM RowsCountAlike ==
    ASSUME OnlyOwnMessages, CeilingNotFirst
    PROVE  Spec => []RowTurnsAgree
<1>1. EndingInv => RowTurnsAgree
  <2> SUFFICES ASSUME EndingInv PROVE RowTurnsAgree
    OBVIOUS
  <2>1. ASSUME NEW r \in Roles, verdict[r] = "passed", result[r] # "technical_loss"
        PROVE  result[r] \in {"capture", "survival"}
    <3>1. fsm[r] = "DONE"
      BY <2>1 DEF EndingInv, LearnedInv
    <3>2. result[r] # "pending" /\ result[r] \in Results
      BY <3>1 DEF EndingInv, LearnedInv, InPlay, TypeInv, TypeOK
    <3>3. QED
      BY <2>1, <3>2 DEF Results
  <2>2. \A r \in Roles : verdict[r] = "passed" /\ result[r] # "technical_loss" =>
              RowTurns(r) = Played(result[r]) /\ TurnsCompleted(r) = Played(result[r])
    BY <2>1, TurnsSettled, RowsSettled
  <2>3. QED
    BY <2>2 DEF RowTurnsAgree, Roles
<1>2. QED
  BY <1>1, EndingIsInvariant, PTL

\* Two peers that know both logs compute one digest.
LEMMA DigestsEqual ==
    ASSUME CeilingNotFirst, EndingInv, \A r \in Roles : theirs[r] = log[Opp(r)],
           result["police"] = result["thief"], result["thief"] \in {"capture", "survival"}
    PROVE  Digest("police") = Digest("thief")
<1>1. /\ \A r \in Roles : result[r] \in {"capture", "survival"}
      /\ "police" \in Roles /\ "thief" \in Roles /\ Opp("police") = "thief" /\ Opp("thief") = "police"
  BY DEF Roles, Opp
<1>2. Digest("police").positions = Digest("thief").positions
  BY <1>1 DEF Digest, Roles
<1>3. TurnsCompleted("police") = TurnsCompleted("thief")
  BY <1>1, TurnsSettled
<1>4. walls["police"] \subseteq Walls(log["police"])
  <2>1. log["police"] \in Seq(Records)
    BY DEF EndingInv, TypeInv, TypeOK, Roles
  <2>2. Game!Now("police").walls = walls["police"]
    BY DEF EndingInv, TruthInv, Standing
  <2>3. CASE Len(log["police"]) = 0
    BY <2>2, <2>3 DEF Game!Now, Game!After, Game!Taken, Game!Opening
  <2>4. CASE Len(log["police"]) # 0
    <3>1. Len(log["police"]) \in DOMAIN log["police"]
      BY <2>1, <2>4
    <3>2. log["police"][Len(log["police"])].walls = walls["police"]
      BY <2>2, <2>4 DEF Game!Now, Game!After, Game!Taken
    <3>3. QED
      BY <3>1, <3>2 DEF Walls
  <2>5. QED
    BY <2>3, <2>4
<1>5. walls["thief"] \subseteq walls["police"]
  BY DEF EndingInv, TruthInv, Standing
<1>6. Digest("police").barriers = Digest("thief").barriers
  BY <1>1, <1>4, <1>5 DEF Digest
<1>7. QED
  BY <1>1, <1>2, <1>3, <1>6 DEF Digest

\* The two victories exclude each other.
LEMMA SameVictory ==
    ASSUME CeilingNotFirst, EndingInv, \A r \in Roles : result[r] \in {"capture", "survival"}
    PROVE  result["police"] = result["thief"]
<1> SUFFICES ASSUME result["police"] # result["thief"] PROVE FALSE
  OBVIOUS
<1>1. \E r, q \in Roles : result[r] = "capture" /\ result[q] = "survival"
  BY DEF Roles
<1>2. Game!Earned("capture") /\ Game!Earned("survival")
  BY <1>1 DEF EndingInv, EarnedInv
<1>3. QED
  BY <1>2, SurvivalFree DEF EndingInv, Game!Earned

\* A peer that names both last positions has read the other's log.
LEMMA DigestRead ==
    ASSUME EndingInv, NEW r \in Roles, HasDigest(r)
    PROVE  theirs[r] = log[Opp(r)]
<1>1. Opp(r) \in Roles /\ Opp(r) # r
  BY DEF Opp, Roles
<1>2. Digest(r).positions[Opp(r)] = LastPosition(theirs[r])
  BY <1>1 DEF Digest
<1>3. LastPosition(theirs[r]) # None
  BY <1>1, <1>2 DEF HasDigest
<1>4. theirs[r] # <<>>
  BY <1>3 DEF LastPosition
<1>5. QED
  BY <1>4 DEF EndingInv, LearnedInv

\* Two end-state digests that are both filed are byte-identical: the same
\* cells, barriers, turns and outcome, computed from two different logs
\* (runtime.py, _comparable_end_state_digest).
THEOREM DigestsAgree ==
    ASSUME OnlyOwnMessages, CeilingNotFirst
    PROVE  Spec => []DigestAgreement
<1>1. EndingInv => DigestAgreement
  <2> SUFFICES ASSUME EndingInv, \A r \in Roles : HasDigest(r)
               PROVE  Digest("police") = Digest("thief")
    BY DEF DigestAgreement
  <2>1. \A r \in Roles : result[r] \in {"capture", "survival"}
    BY DEF HasDigest
  <2>2. QED
    BY <2>1, DigestRead, SameVictory, DigestsEqual DEF Roles
<1>2. QED
  BY <1>1, EndingIsInvariant, PTL

-----------------------------------------------------------------------------
(* Without a fault nobody waits in vain: FaultFreeInv is inductive.        *)

LEMMA FaultCounts ==
    ASSUME TypeInv, Fault
    PROVE  faults' # 0
  BY PeerGameAssumption DEF TypeInv, TypeOK, Fault

LEMMA FaultsGrow == TypeInv /\ [Next]_vars /\ faults' = 0 => faults = 0
<1> SUFFICES ASSUME TypeInv, [Next]_vars, faults' = 0 PROVE faults = 0
  OBVIOUS
<1>1. UNCHANGED faults \/ Fault
  BY DEF Next, Peer, Finished, vars, env, TakeTurn, BrainRaises, SendReturns, Retry, GiveUp,
     AttemptFails, Accept, DropDuplicate, Reject, BeliefRaises, TurnTimeout, Reveal, ReadAudit,
     AuditTimeout, Stray, Deliver, Lose
<1>2. QED
  BY <1>1, FaultCounts

\* What was under way stays so while nothing is taken out or sealed.
LEMMA StillCarried ==
    ASSUME NEW r \in Roles, Carried(r), LastStep(r)' = LastStep(r), log'[Opp(r)] = log[Opp(r)],
           wire \subseteq wire', turns'[r] = turns[r],
           fsm'[r] = "SENDING" => fsm[r] = "SENDING" /\ call'[r] = call[r]
    PROVE  Carried(r)'
<1>1. LastStep(r)' < Len(log'[Opp(r)]) => Underway(r)'
  <2>1. \A m : Brings(m, r)' <=> Brings(m, r)
    BY DEF Brings
  <2>2. Underway(r) => Underway(r)'
    BY <2>1 DEF Underway
  <2>3. QED
    BY <2>2 DEF Carried
<1>2. fsm'[r] = "SENDING" => call'[r].ack \/ Pending(r)'
  BY DEF Carried, Pending
<1>3. QED
  BY <1>1, <1>2 DEF Carried

LEMMA TurnCarried ==
    ASSUME TypeInv, NEW r \in Roles, TakeTurn(r), \A q \in Roles : Carried(q), NEW p \in Roles
    PROVE  Carried(p)'
<1>1. PICK rec \in Records, m \in TurnMessages : Turn(r, rec, m)
  BY TurnTaken
<1>2. /\ fsm \in [Roles -> States] /\ call \in [Roles -> Calls \cup {None}]
      /\ log \in [Roles -> Seq(Records)] /\ Opp(p) \in Roles /\ Opp(p) # p
  BY DEF TypeInv, TypeOK, Opp, Roles
<1>3. /\ fsm' = [fsm EXCEPT ![r] = "SENDING"] /\ UNCHANGED <<seen, turns>>
      /\ wire \subseteq wire' /\ Copy(m, 1) \in wire'
      /\ call' = [call EXCEPT ![r] = [msg |-> m, try |-> 1, ack |-> FALSE]]
      /\ log' = [log EXCEPT ![r] = Append(log[r], rec)]
  BY <1>1 DEF TakeTurn, Goes, Turn
<1>4. CASE p = r
  <2>1. log'[Opp(p)] = log[Opp(p)] /\ LastStep(p)' = LastStep(p)
    BY <1>2, <1>3, <1>4 DEF LastStep
  <2>2. \A n : Brings(n, p)' <=> Brings(n, p)
    BY <2>1 DEF Brings
  <2>3. Underway(p) => Underway(p)'
    BY <1>3, <2>2 DEF Underway
  <2>4. Pending(p)'
    BY <1>2, <1>3, <1>4 DEF Pending
  <2>5. QED
    BY <2>1, <2>3, <2>4 DEF Carried
<1>5. CASE p # r
  <2>1. Opp(p) = r /\ Len(log'[r]) = Len(log[r]) + 1
    BY <1>1, <1>5, LogGrows DEF Turn, Opp, Roles
  <2>2. Brings(m, p)'
    BY <1>1, <2>1 DEF Brings, Turn
  <2>3. Copy(m, 1).msg = m
    BY DEF Copy
  <2>4. Underway(p)'
    BY <1>3, <2>2, <2>3 DEF Underway
  <2>5. fsm'[p] = fsm[p] /\ call'[p] = call[p]
    BY <1>2, <1>3, <1>5
  <2>6. fsm'[p] = "SENDING" => call'[p].ack \/ Pending(p)'
    BY <1>3, <2>5 DEF Carried, Pending
  <2>7. QED
    BY <2>4, <2>6 DEF Carried
<1>6. QED
  BY <1>4, <1>5

LEMMA DeliverCarried ==
    ASSUME TypeInv, MoveInv, NEW c \in wire, Deliver(c), NEW p \in Roles, Carried(p)
    PROVE  Carried(p)'
<1>1. /\ turns \in [Roles -> Seq(TurnMessages \cup {Garbage})]
      /\ call \in [Roles -> Calls \cup {None}]
      /\ c \in Copies /\ c.msg \in TurnMessages /\ c.msg.from \in Roles
  BY DEF TypeInv, TypeOK, Copies, TurnMessages
<1>2. /\ UNCHANGED <<fsm, seen, log>> /\ wire' = wire \ {c}
      /\ turns' = [turns EXCEPT ![Opp(c.msg.from)] = Append(@, c.msg)]
  BY DEF Deliver, own, gate
<1>3. \A m : Brings(m, p)' <=> Brings(m, p)
  BY <1>2 DEF Brings
<1>4. turns[p] \in Seq(TurnMessages \cup {Garbage})
  BY <1>1
<1>5. Underway(p) => Underway(p)'
  <2>1. CASE \E e \in wire \ {c} : Brings(e.msg, p)
    BY <1>2, <1>3, <2>1 DEF Underway
  <2>2. CASE \E i \in DOMAIN turns[p] : Brings(turns[p][i], p)
    <3>1. PICK i \in DOMAIN turns[p] : Brings(turns[p][i], p)
      BY <2>2
    <3>2. turns'[p] = turns[p] \/ turns'[p] = Append(turns[p], c.msg)
      BY <1>1, <1>2
    <3>3. i \in DOMAIN turns'[p] /\ turns'[p][i] = turns[p][i]
      BY <1>4, <3>1, <3>2
    <3>4. QED
      BY <1>3, <3>1, <3>3 DEF Underway
  <2>3. CASE Brings(c.msg, p)
    <3>1. p = Opp(c.msg.from)
      BY <2>3 DEF Brings, Opp, Roles
    <3>2. turns'[p] = Append(turns[p], c.msg)
      BY <1>1, <1>2, <3>1
    <3>3. Len(turns[p]) + 1 \in DOMAIN turns'[p] /\ turns'[p][Len(turns[p]) + 1] = c.msg
      BY <1>4, <3>2
    <3>4. QED
      BY <1>3, <2>3, <3>3 DEF Underway
  <2>4. QED
    BY <2>1, <2>2, <2>3 DEF Underway
<1>6. fsm'[p] = "SENDING" => call'[p].ack \/ Pending(p)'
  <2> SUFFICES ASSUME fsm[p] = "SENDING" PROVE call'[p].ack \/ Pending(p)'
    BY <1>2
  <2>1. call[p] \in Calls /\ call[p] # None /\ call[p].msg.from = p
    BY PeerGameAssumption DEF TypeInv, CallOpen, MoveInv
  <2>2. CASE Copy(call[p].msg, call[p].try) = c
    <3>1. c.msg = call[p].msg /\ c.try = call[p].try
      BY <2>2 DEF Copy
    <3>2. call' = [call EXCEPT ![p] = [call[p] EXCEPT !.ack = TRUE]]
      BY <2>1, <3>1 DEF Deliver
    <3>3. QED
      BY <1>1, <2>1, <3>2 DEF Calls
  <2>3. CASE Copy(call[p].msg, call[p].try) # c
    <3>1. \/ call' = call
          \/ call' = [call EXCEPT ![c.msg.from] = [call[c.msg.from] EXCEPT !.ack = TRUE]]
      BY DEF Deliver
    <3>2. /\ call'[p].msg = call[p].msg /\ call'[p].try = call[p].try
          /\ call[p].ack => call'[p].ack
      <4>1. call'[p] = call[p] \/ call'[p] = [call[p] EXCEPT !.ack = TRUE]
        BY <1>1, <3>1
      <4>2. CASE call'[p] = [call[p] EXCEPT !.ack = TRUE]
        BY <2>1, <4>2 DEF Calls
      <4>3. QED
        BY <4>1, <4>2
    <3>3. QED
      BY <1>2, <2>3, <3>2 DEF Carried, Pending
  <2>4. QED
    BY <2>2, <2>3
<1>7. LastStep(p)' = LastStep(p) /\ log' = log
  BY <1>2 DEF LastStep
<1>8. QED
  BY <1>5, <1>6, <1>7 DEF Carried

\* Reading a message of a known step takes nothing out that is still needed.
LEMMA DropCarried ==
    ASSUME TypeInv, OrderInv, NEW r \in Roles, DropDuplicate(r), NEW p \in Roles, Carried(p)
    PROVE  Carried(p)'
<1> DEFINE m == Head(turns[r])
<1>1. /\ turns \in [Roles -> Seq(TurnMessages \cup {Garbage})]
      /\ Reads(r) /\ Known(r, m)
      /\ turns' = [turns EXCEPT ![r] = Tail(turns[r])]
      /\ UNCHANGED <<fsm, seen, log, call, wire>>
  BY DEF DropDuplicate, Pop, TypeInv, TypeOK, own, gate
<1>2. LastStep(p)' = LastStep(p)
  BY <1>1 DEF LastStep
<1>3. CASE p # r
  <2>1. turns'[p] = turns[p]
    BY <1>1, <1>3
  <2>2. QED
    BY <1>1, <1>2, <2>1, StillCarried
<1>4. CASE p = r
  <2>1. \A n : Brings(n, p)' <=> Brings(n, p)
    BY <1>1 DEF Brings
  <2>2. turns[r] \in Seq(TurnMessages \cup {Garbage}) /\ turns[r] # <<>>
    BY <1>1 DEF Reads
  <2>3. ASSUME LastStep(r) < Len(log[Opp(r)]), Underway(r) PROVE Underway(r)'
    <3>1. CASE \E c \in wire : Brings(c.msg, r)
      BY <1>1, <1>4, <2>1, <3>1 DEF Underway
    <3>2. CASE \E i \in DOMAIN turns[r] : Brings(turns[r][i], r)
      <4>1. PICK i \in DOMAIN turns[r] : Brings(turns[r][i], r)
        BY <3>2
      <4>2. i # 1
        <5>1. turns[r][1] = m
          BY <2>2
        <5>2. m.step <= LastStep(r) /\ m.step \in Nat /\ LastStep(r) \in Nat
          BY <1>1, HeadStep DEF Known
        <5>3. Len(log[Opp(r)]) \in Nat
          BY Chain DEF Opp, Roles
        <5>4. m.step # Len(log[Opp(r)])
          BY <2>3, <5>2, <5>3
        <5>5. QED
          BY <4>1, <5>1, <5>4 DEF Brings
      <4>3. turns'[r] = Tail(turns[r])
        BY <1>1
      <4>4. i - 1 \in DOMAIN Tail(turns[r]) /\ Tail(turns[r])[i - 1] = turns[r][i]
        BY <2>2, <4>1, <4>2
      <4>5. QED
        BY <1>4, <2>1, <4>1, <4>3, <4>4 DEF Underway
    <3>3. QED
      BY <2>3, <3>1, <3>2 DEF Underway
  <2>4. QED
    BY <1>1, <1>2, <1>4, <2>3 DEF Carried, Pending
<1>5. QED
  BY <1>3, <1>4

LEMMA AcceptCarried ==
    ASSUME TypeInv, OrderInv, NEW r \in Roles, Accept(r), NEW p \in Roles, Carried(p)
    PROVE  Carried(p)'
<1> DEFINE m == Head(turns[r])
<1>1. /\ fsm \in [Roles -> States] /\ seen \in [Roles -> Seq(Records)]
      /\ turns \in [Roles -> Seq(TurnMessages \cup {Garbage})]
  BY DEF TypeInv, TypeOK
<1>2. /\ m.step = LastStep(r) + 1 /\ m.step = Len(log[Opp(r)]) /\ log' = log
      /\ seen' = [seen EXCEPT ![r] = Append(seen[r], m.commit)]
  BY Applied
<1>3. /\ turns' = [turns EXCEPT ![r] = Tail(turns[r])] /\ UNCHANGED <<call, wire>>
      /\ \E s \in {"GAME_OVER", "MY_TURN"} : fsm' = [fsm EXCEPT ![r] = s]
  BY DEF Accept, Fold, Pop, Ends, Goes
<1>4. CASE p # r
  <2>1. turns'[p] = turns[p] /\ seen'[p] = seen[p] /\ fsm'[p] = fsm[p]
    BY <1>1, <1>2, <1>3, <1>4
  <2>2. LastStep(p)' = LastStep(p)
    BY <2>1 DEF LastStep
  <2>3. QED
    BY <1>2, <1>3, <2>1, <2>2, StillCarried
<1>5. CASE p = r
  <2>1. LastStep(r)' = LastStep(r) + 1
    BY <1>1, <1>2 DEF LastStep
  <2>2. ~(LastStep(r)' < Len(log'[Opp(r)]))
    <3>1. LastStep(r) \in Nat
      BY <1>1 DEF LastStep
    <3>2. LastStep(r)' = Len(log'[Opp(r)]) /\ LastStep(r)' \in Nat
      BY <1>2, <2>1, <3>1
    <3>3. QED
      BY <3>2
  <2>3. fsm'[r] # "SENDING"
    BY <1>1, <1>3
  <2>4. QED
    BY <1>5, <2>2, <2>3 DEF Carried
<1>6. QED
  BY <1>4, <1>5

\* A peer whose opponent has left the game does not wait for it.
LEMMA LeftNotAwaited ==
    ASSUME CeilingNotFirst, EndingInv, NEW r \in Roles, fsm[r] = "OPP_TURN",
           LastStep(r) = Len(log[Opp(r)]), ~InPlay(Opp(r)), Heard(Opp(r))
    PROVE  FALSE
<1> USE DEF EndingInv
<1>1. /\ LastStep("thief") \in Nat /\ LastStep("police") \in Nat
      /\ Len(log["thief"]) \in Nat /\ Len(log["police"]) \in Nat
  BY Chain
<1>2. Turns(r) = LastStep(r) + 1
  BY DEF OrderInv, InPhase
<1>3. result[Opp(r)] \in {"capture", "survival"}
  <2>1. result[Opp(r)] \in Results /\ result[Opp(r)] # "pending" /\ result[Opp(r)] # "technical_loss"
    BY DEF TypeInv, TypeOK, LearnedInv, Heard, Opp, Roles
  <2>2. QED
    BY <2>1 DEF Results
<1>4. Game!Earned(result[Opp(r)])
  BY <1>3 DEF EarnedInv, Opp, Roles
<1>5. result[Opp(r)] = "survival" => ~Game!Caught /\ Len(log["thief"]) = SurvivalThreshold
                                     /\ Len(log["thief"]) = Len(log["police"]) + 1
  BY <1>4, SurvivalFree
<1>6. result[Opp(r)] = "capture" => Game!Caught /\ Len(log["thief"]) # Len(log["police"])
  BY <1>4 DEF Game!Earned, Game!ThiefToStep, Game!Taken
<1>7. CASE r = "police"
  <2>1. Len(log["police"]) = Len(log["thief"])
    BY <1>1, <1>2, <1>7 DEF Turns, Opp
  <2>2. QED
    BY <1>1, <1>3, <1>5, <1>6, <2>1
<1>8. CASE r = "thief"
  <2>1. Len(log["thief"]) = Len(log["police"]) + 1
    BY <1>1, <1>2, <1>8 DEF Turns, Opp
  <2>2. ~Game!ThiefToStep
    BY <1>1, <2>1 DEF Game!ThiefToStep, Game!Taken
  <2>3. ~Game!Caught /\ Len(log["thief"]) < SurvivalThreshold
    BY <1>8, <2>2 DEF TruthInv, MoveInv
  <2>4. QED
    BY <1>1, <1>3, <1>5, <1>6, <2>3, PeerGameAssumption
<1>9. QED
  BY <1>7, <1>8 DEF Roles

\* Two peers never wait for each other at once with nothing under way.
LEMMA NotBothWaiting ==
    ASSUME EndingInv, NEW r \in Roles, fsm[r] = "OPP_TURN", fsm[Opp(r)] = "OPP_TURN",
           LastStep(r) = Len(log[Opp(r)]), LastStep(Opp(r)) = Len(log[r])
    PROVE  FALSE
<1> USE DEF EndingInv
<1>1. /\ LastStep("thief") \in Nat /\ LastStep("police") \in Nat
      /\ Len(log["thief"]) \in Nat /\ Len(log["police"]) \in Nat
  BY Chain
<1>2. Turns("police") = LastStep("police") + 1 /\ Turns("thief") = LastStep("thief") + 1
  BY DEF OrderInv, InPhase, Opp, Roles
<1>3. LastStep("police") = Len(log["thief"]) /\ LastStep("thief") = Len(log["police"])
  BY DEF Opp, Roles
<1>4. QED
  BY <1>1, <1>2, <1>3 DEF Turns

\* What is neither queued nor coming is not under way.
LEMMA NothingUnderway ==
    ASSUME NEW r \in Roles, turns[r] = <<>>, ~Coming(r), Carried(r), EndingInv
    PROVE  LastStep(r) = Len(log[Opp(r)])
<1>1. ~Underway(r)
  BY DEF Underway, Coming, Brings
<1>2. /\ LastStep(r) \in Nat /\ Len(log[Opp(r)]) \in Nat /\ LastStep(r) <= Len(log[Opp(r)])
  BY Chain DEF EndingInv, Opp, Roles
<1>3. QED
  BY <1>1, <1>2 DEF Carried

LEMMA NoVainWait ==
    ASSUME CeilingNotFirst, EndingInv, \A q \in Roles : Carried(q) /\ Heard(q),
           NEW r \in Roles, TurnTimeout(r)
    PROVE  faults' # 0
<1> SUFFICES ASSUME Silent(r) PROVE FALSE
  BY FaultCounts DEF TurnTimeout, EndingInv
<1>1. fsm[r] = "OPP_TURN" /\ turns[r] = <<>> /\ Opp(r) \in Roles /\ Opp(Opp(r)) = r
  BY DEF TurnTimeout, Opp, Roles
<1>2. LastStep(r) = Len(log[Opp(r)])
  BY <1>1, NothingUnderway DEF Silent
<1>3. CASE fsm[Opp(r)] = "OPP_TURN"
  <2>1. turns[Opp(r)] = <<>> /\ ~Coming(Opp(r))
    BY <1>3 DEF Silent
  <2>2. LastStep(Opp(r)) = Len(log[r])
    BY <1>1, <2>1, NothingUnderway
  <2>3. QED
    BY <1>1, <1>2, <1>3, <2>2, NotBothWaiting
<1>4. CASE fsm[Opp(r)] # "OPP_TURN"
  <2>1. ~InPlay(Opp(r))
    BY <1>4 DEF Silent, InPlay
  <2>2. QED
    BY <1>1, <1>2, <2>1, LeftNotAwaited
<1>5. QED
  BY <1>3, <1>4

\* The steps that cost a fault, or would have been in vain.
LEMMA FaultyStep ==
    ASSUME CeilingNotFirst, EndingInv, \A q \in Roles : Carried(q) /\ Heard(q), NEW r \in Roles,
           \/ BrainRaises(r) \/ Retry(r) \/ GiveUp(r) \/ BeliefRaises(r) \/ TurnTimeout(r)
           \/ AuditTimeout(r)
    PROVE  faults' # 0
<1>1. CASE TurnTimeout(r)
  BY <1>1, NoVainWait
<1>2. CASE Retry(r) \/ GiveUp(r)
  <2>1. Fault
    BY <1>2 DEF Retry, GiveUp, AttemptFails, Carried
  <2>2. QED
    BY <2>1, FaultCounts DEF EndingInv
<1>3. CASE AuditTimeout(r)
  <2>1. Fault
    BY <1>3 DEF AuditTimeout, Heard
  <2>2. QED
    BY <2>1, FaultCounts DEF EndingInv
<1>4. CASE BrainRaises(r) \/ BeliefRaises(r)
  BY <1>4, FaultCounts DEF BrainRaises, BeliefRaises, EndingInv
<1>5. QED
  BY <1>1, <1>2, <1>3, <1>4

LEMMA PlayHeard ==
    ASSUME TypeInv, \A q \in Roles : Heard(q), NEW r \in Roles,
           TakeTurn(r) \/ SendReturns(r) \/ Accept(r) \/ DropDuplicate(r), NEW p \in Roles
    PROVE  Heard(p)'
<1>1. /\ fsm \in [Roles -> States] /\ result \in [Roles -> Results]
      /\ Opp(p) \in Roles
  BY DEF TypeInv, TypeOK, Opp, Roles
<1>2. UNCHANGED <<verdict, audits>>
  BY DEF TakeTurn, SendReturns, Accept, DropDuplicate, Fold, ending
<1>3. \/ UNCHANGED <<fsm, result>>
      \/ /\ fsm[r] \notin {"AUDITING", "DONE"}
         /\ \E s \in States \ {"AUDITING", "DONE"} : fsm' = [fsm EXCEPT ![r] = s]
         /\ result' = result \/ \E o \in {"capture", "survival"} : result' = [result EXCEPT ![r] = o]
  <2>1. TakeTurn(r) => fsm[r] = "MY_TURN" /\ Goes(r, "SENDING")
    BY DEF TakeTurn
  <2>2. SendReturns(r) => /\ fsm[r] = "SENDING"
                          /\ Goes(r, "OPP_TURN") \/ Ends(r, "capture") \/ Ends(r, "survival")
    BY DEF SendReturns
  <2>3. Accept(r) => /\ fsm[r] = "OPP_TURN"
                     /\ Goes(r, "MY_TURN") \/ Ends(r, "capture") \/ Ends(r, "survival")
    BY DEF Accept, Reads
  <2>4. DropDuplicate(r) => UNCHANGED <<fsm, result>>
    BY DEF DropDuplicate
  <2>5. CASE DropDuplicate(r)
    BY <2>4, <2>5
  <2>6. CASE ~DropDuplicate(r)
    <3>1. /\ fsm[r] \notin {"AUDITING", "DONE"}
          /\ \/ \E s \in {"SENDING", "OPP_TURN", "MY_TURN"} : Goes(r, s)
             \/ \E o \in {"capture", "survival"} : Ends(r, o)
      BY <2>1, <2>2, <2>3, <2>6
    <3>2. {"SENDING", "OPP_TURN", "MY_TURN", "GAME_OVER"} \subseteq States \ {"AUDITING", "DONE"}
      BY DEF States
    <3>3. QED
      BY <3>1, <3>2 DEF Goes, Ends
  <2>7. QED
    BY <2>5, <2>6
<1>4. /\ \A q \in Roles : fsm'[q] = fsm[q]
                          \/ (fsm[q] \notin {"AUDITING", "DONE"} /\ fsm'[q] \notin {"AUDITING", "DONE"})
      /\ result'[p] \in {result[p], "capture", "survival"}
  BY <1>1, <1>3
<1>5. result'[p] # "technical_loss"
  BY <1>4 DEF Heard
<1>6. fsm'[p] = "DONE" => verdict'[p] = "passed"
  BY <1>2, <1>4 DEF Heard
<1>7. fsm'[p] # "DONE" /\ fsm'[Opp(p)] \in {"AUDITING", "DONE"} => audits'[p] # <<>>
  <2>1. fsm'[p] # "DONE" => fsm[p] # "DONE"
    BY <1>4
  <2>2. fsm'[Opp(p)] \in {"AUDITING", "DONE"} => fsm[Opp(p)] \in {"AUDITING", "DONE"}
    BY <1>1, <1>4
  <2>3. QED
    BY <1>2, <2>1, <2>2 DEF Heard
<1>8. QED
  BY <1>5, <1>6, <1>7 DEF Heard

LEMMA AuditHeard ==
    ASSUME TypeInv, OrderInv, AuditInv, \A q \in Roles : Heard(q), NEW r \in Roles,
           Reveal(r) \/ ReadAudit(r), faults' = 0, NEW p \in Roles
    PROVE  Heard(p)'
<1>1. /\ fsm \in [Roles -> States] /\ result \in [Roles -> Results]
      /\ audits \in [Roles -> Seq(Seq(Records))] /\ log \in [Roles -> Seq(Records)]
      /\ verdict \in [Roles -> {"open", "passed", "forged", "absent"}]
      /\ Opp(p) \in Roles /\ Opp(r) \in Roles /\ Opp(p) # p /\ (p # r => Opp(p) = r /\ p = Opp(r))
  BY DEF TypeInv, TypeOK, Opp, Roles
<1>2. CASE Reveal(r)
  <2>1. /\ fsm[r] = "GAME_OVER" /\ fsm' = [fsm EXCEPT ![r] = "AUDITING"]
        /\ UNCHANGED <<result, verdict>>
        /\ audits' = [audits EXCEPT ![Opp(r)] = Append(audits[Opp(r)], log[r])]
    BY <1>2, FaultCounts DEF Reveal, Goes
  <2>2. audits[p] \in Seq(Seq(Records)) /\ log[r] \in Seq(Records)
    BY <1>1
  <2>3. audits'[p] = audits[p] \/ audits'[p] = Append(audits[p], log[r])
    BY <1>1, <2>1
  <2>4. audits[p] # <<>> => audits'[p] # <<>>
    BY <2>2, <2>3
  <2>5. p # r => audits'[p] # <<>>
    <3>1. p # r => audits'[p] = Append(audits[p], log[r])
      BY <1>1, <2>1
    <3>2. QED
      BY <2>2, <3>1
  <2>6. p = r => fsm'[Opp(p)] = fsm[Opp(p)] /\ fsm[p] # "DONE" /\ fsm'[p] # "DONE"
    BY <1>1, <2>1
  <2>7. p # r => fsm'[p] = fsm[p]
    BY <1>1, <2>1
  <2>8. QED
    BY <2>1, <2>4, <2>5, <2>6, <2>7 DEF Heard
<1>3. CASE ReadAudit(r)
  <2>1. /\ fsm[r] = "AUDITING" /\ fsm' = [fsm EXCEPT ![r] = "DONE"]
        /\ verdict' = [verdict EXCEPT ![r] = "passed"] /\ result' = result
        /\ audits' = [audits EXCEPT ![r] = Tail(@)]
    BY <1>3, AuditPasses DEF ReadAudit
  <2>2. CASE p = r
    BY <1>1, <2>1, <2>2 DEF Heard
  <2>3. CASE p # r
    <3>1. /\ fsm'[p] = fsm[p] /\ audits'[p] = audits[p] /\ verdict'[p] = verdict[p]
          /\ fsm[Opp(p)] = "AUDITING"
      BY <1>1, <2>1, <2>3
    <3>2. QED
      BY <2>1, <3>1 DEF Heard
  <2>4. QED
    BY <2>2, <2>3
<1>4. QED
  BY <1>2, <1>3

\* Ending a call or moving the audit on touches nothing under way.
LEMMA QuietCarried ==
    ASSUME TypeInv, NEW r \in Roles, SendReturns(r) \/ Reveal(r) \/ ReadAudit(r),
           NEW p \in Roles, Carried(p)
    PROVE  Carried(p)'
<1>1. /\ fsm \in [Roles -> States] /\ call \in [Roles -> Calls \cup {None}]
  BY DEF TypeInv, TypeOK
<1>2. UNCHANGED <<seen, log, wire, turns>>
  BY DEF SendReturns, Reveal, ReadAudit, own, gate, net
<1>3. \E s \in {"GAME_OVER", "OPP_TURN", "AUDITING", "DONE"} : fsm' = [fsm EXCEPT ![r] = s]
  BY DEF SendReturns, Reveal, ReadAudit, Ends, Goes
<1>4. call' = call \/ call' = [call EXCEPT ![r] = None]
  BY DEF SendReturns, Reveal, ReadAudit, net
<1>5. fsm'[p] = "SENDING" => fsm[p] = "SENDING" /\ call'[p] = call[p]
  BY <1>1, <1>3, <1>4
<1>6. QED
  BY <1>2, <1>5, StillCarried DEF LastStep

LEMMA NextFaultFree ==
    ASSUME OnlyOwnMessages, CeilingNotFirst
    PROVE  EndingInv /\ FaultFreeInv /\ [Next]_vars => FaultFreeInv'
<1> SUFFICES ASSUME EndingInv, FaultFreeInv, [Next]_vars, faults' = 0, NEW p \in Roles
             PROVE  Carried(p)' /\ Heard(p)'
  BY DEF FaultFreeInv
<1>1. \A q \in Roles : Carried(q) /\ Heard(q)
  BY FaultsGrow DEF FaultFreeInv, EndingInv
<1>2. ASSUME NEW r \in Roles, Peer(r) PROVE Carried(p)' /\ Heard(p)'
  <2>1. CASE TakeTurn(r)
    BY <1>1, <2>1, TurnCarried, PlayHeard DEF EndingInv
  <2>2. CASE SendReturns(r)
    BY <1>1, <2>2, QuietCarried, PlayHeard DEF EndingInv
  <2>3. CASE Accept(r)
    BY <1>1, <2>3, AcceptCarried, PlayHeard DEF EndingInv
  <2>4. CASE DropDuplicate(r)
    BY <1>1, <2>4, DropCarried, PlayHeard DEF EndingInv
  <2>5. CASE Reveal(r) \/ ReadAudit(r)
    BY <1>1, <2>5, QuietCarried, AuditHeard DEF EndingInv
  <2>6. ~Reject(r)
    BY RejectNever DEF EndingInv
  <2>7. QED
    BY <1>1, <1>2, <2>1, <2>2, <2>3, <2>4, <2>5, <2>6, FaultyStep DEF Peer
<1>3. ASSUME NEW c \in wire, Deliver(c) \/ Lose(c) PROVE Carried(p)' /\ Heard(p)'
  <2>1. Deliver(c)
    BY <1>3, FaultCounts DEF Lose, EndingInv
  <2>2. Carried(p)'
    BY <1>1, <2>1, DeliverCarried DEF EndingInv, TruthInv
  <2>3. UNCHANGED <<fsm, result, verdict, audits>>
    BY <2>1 DEF Deliver, ending
  <2>4. QED
    BY <1>1, <2>2, <2>3 DEF Heard
<1>4. CASE UNCHANGED vars
  <2>1. UNCHANGED <<fsm, result, verdict, audits, seen, log, wire, turns, call>>
    BY <1>4 DEF vars, own, gate, net, ending
  <2>2. Carried(p)'
    BY <1>1, <2>1, StillCarried DEF LastStep
  <2>3. QED
    BY <1>1, <2>1, <2>2 DEF Heard
<1>5. \A r \in Roles : ~Stray(r)
  BY DEF Stray, OnlyOwnMessages
<1>6. QED
  BY <1>2, <1>3, <1>4, <1>5 DEF Next, Finished

LEMMA InitFaultFree == Init => FaultFreeInv
<1> SUFFICES ASSUME Init, NEW r \in Roles PROVE Carried(r) /\ Heard(r)
  BY DEF FaultFreeInv
<1>1. /\ fsm[r] = FirstState(r) /\ fsm[Opp(r)] = FirstState(Opp(r)) /\ result[r] = "pending"
      /\ log[Opp(r)] = <<>> /\ seen[r] = <<>>
  BY DEF Init, Opp, Roles
<1>2. ~(LastStep(r) < Len(log[Opp(r)]))
  BY <1>1 DEF LastStep
<1>3. QED
  BY <1>1, <1>2 DEF Carried, Heard, FirstState

\* Without a fault both peers finish with the same victory, audits that pass
\* and one digest, whatever order the messages and the audits are read in.
THEOREM FaultFreeAgrees ==
    ASSUME OnlyOwnMessages, CeilingNotFirst
    PROVE  Spec => []FaultFreeAgreement
<1>1. Init => FaultFreeInv
  BY InitFaultFree
<1>2. EndingInv /\ FaultFreeInv /\ [Next]_vars => FaultFreeInv'
  BY NextFaultFree
<1>3. EndingInv /\ FaultFreeInv => FaultFreeAgreement
  <2> SUFFICES ASSUME EndingInv, FaultFreeInv, \A r \in Roles : fsm[r] = "DONE", faults = 0
               PROVE  /\ result["police"] = result["thief"]
                      /\ \A r \in Roles : verdict[r] = "passed" /\ result[r] # "technical_loss"
                      /\ Digest("police") = Digest("thief")
    BY DEF FaultFreeAgreement
  <2>1. \A r \in Roles : verdict[r] = "passed" /\ result[r] # "technical_loss"
    BY DEF FaultFreeInv, Heard
  <2>2. \A r \in Roles : theirs[r] = log[Opp(r)] /\ result[r] # "pending" /\ result[r] \in Results
    BY <2>1 DEF EndingInv, LearnedInv, InPlay, TypeInv, TypeOK
  <2>3. \A r \in Roles : result[r] \in {"capture", "survival"}
    BY <2>1, <2>2 DEF Results
  <2>4. QED
    BY <2>1, <2>2, <2>3, SameVictory, DigestsEqual DEF Roles
<1>4. QED
  BY <1>1, <1>2, <1>3, EndingIsInvariant, PTL DEF Spec

=============================================================================
