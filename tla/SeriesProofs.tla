---------------------------- MODULE SeriesProofs ----------------------------
(***************************************************************************)
(* Theorems about Series for any number of sub-games, of steps, of         *)
(* rejected messages and of faults, and either role assignment: two peers  *)
(* that play at the same time play the same sub-game, opening a window     *)
(* discards nothing of that window, a peer applies only turns of the       *)
(* window it plays, and two peers that finish report the same.             *)
(*                                                                         *)
(* The invariants build on each other: IInv holds whatever happens;        *)
(* WindowInv as long as no request outlives its call and no deadline fires *)
(* early; CleanInv as long as nothing happens but a call delivered twice.  *)
(***************************************************************************)
EXTENDS Series, TLAPS

USE SeriesAssumption

\* A peer past the handshake of its window has heard the other offer it, so
\* the other has come at least as far.
Met == \A p \in Peers :
         phase[p] \notin {"offering", "aborted"} => num[p] <= num[Other(p)]

\* An offer names a window its sender has opened.
OffersBound == \A p \in Peers : \A i \in DOMAIN hello[p] : hello[p][i] <= num[Other(p)]

\* Nothing that has been sent to a peer belongs to a window it has not opened.
TurnsBound == \A p \in Peers : \A i \in DOMAIN turns[p] : turns[p][i].win <= num[p]
AuditsBound == \A p \in Peers : \A i \in DOMAIN audits[p] : audits[p][i].win <= num[p]
LateBound == \A p \in Peers : \A m \in late[p] : m.win <= num[p]

\* A peer that offers has opened a window.
Opened == \A p \in Peers : phase[p] = "offering" => num[p] >= 1

Bounds == OffersBound /\ TurnsBound /\ AuditsBound /\ LateBound

IInv == TypeOK /\ Opened /\ Met /\ Bounds

-----------------------------------------------------------------------------
(* Sequences as inboxes.                                                   *)

LEMMA AppendAll ==
    ASSUME NEW S, NEW s \in Seq(S), NEW e \in S
    PROVE  /\ Append(s, e) \in Seq(S)
           /\ \A i \in DOMAIN Append(s, e) :
                \/ Append(s, e)[i] = e
                \/ i \in DOMAIN s /\ Append(s, e)[i] = s[i]
  OBVIOUS

LEMMA AppendTwice ==
    ASSUME NEW S, NEW s \in Seq(S), NEW e \in S
    PROVE  /\ s \o <<e, e>> \in Seq(S)
           /\ \A i \in DOMAIN (s \o <<e, e>>) :
                \/ (s \o <<e, e>>)[i] = e
                \/ i \in DOMAIN s /\ (s \o <<e, e>>)[i] = s[i]
<1>1. <<e, e>> \in Seq(S)
  OBVIOUS
<1>2. QED
  BY <1>1

LEMMA TailAll ==
    ASSUME NEW S, NEW s \in Seq(S), s # <<>>
    PROVE  /\ Head(s) \in S
           /\ Tail(s) \in Seq(S)
           /\ \A i \in DOMAIN Tail(s) : i + 1 \in DOMAIN s /\ Tail(s)[i] = s[i + 1]
  OBVIOUS

\* What is in an inbox after a delivery, once or twice.
PutLeaves(S, box, q, m, new) ==
    /\ new \in [Peers -> Seq(S)]
    /\ \A x \in Peers : \A i \in DOMAIN new[x] :
         \/ x = q /\ new[x][i] = m
         \/ i \in DOMAIN box[x] /\ new[x][i] = box[x][i]

LEMMA PutAll ==
    ASSUME NEW S, NEW box \in [Peers -> Seq(S)], NEW q \in Peers, NEW m \in S
    PROVE  /\ PutLeaves(S, box, q, m, Put(box, q, m))
           /\ PutLeaves(S, box, q, m, PutTwice(box, q, m))
<1>1. ASSUME NEW new, new = Put(box, q, m) PROVE PutLeaves(S, box, q, m, new)
  <2>1. new = [box EXCEPT ![q] = Append(box[q], m)]
    BY <1>1 DEF Put
  <2>2. new[q] = Append(box[q], m) /\ \A x \in Peers : x # q => new[x] = box[x]
    BY <2>1
  <2>3. QED
    BY <2>1, <2>2, AppendAll DEF PutLeaves
<1>2. ASSUME NEW new, new = PutTwice(box, q, m) PROVE PutLeaves(S, box, q, m, new)
  <2>1. new = [box EXCEPT ![q] = box[q] \o <<m, m>>]
    BY <1>2 DEF PutTwice
  <2>2. new[q] = box[q] \o <<m, m>> /\ \A x \in Peers : x # q => new[x] = box[x]
    BY <2>1
  <2>3. QED
    BY <2>1, <2>2, AppendTwice DEF PutLeaves
<1>3. QED
  BY <1>1, <1>2

\* What is left in an inbox once its head is taken.
LEMMA TakeAll ==
    ASSUME NEW S, NEW box \in [Peers -> Seq(S)], NEW q \in Peers, box[q] # <<>>, NEW new,
           new = Take(box, q)
    PROVE  /\ new \in [Peers -> Seq(S)]
           /\ \A x \in Peers : \A i \in DOMAIN new[x] :
                \E j \in DOMAIN box[x] : new[x][i] = box[x][j]
<1>1. new = [box EXCEPT ![q] = Tail(box[q])]
  BY DEF Take
<1>2. new[q] = Tail(box[q]) /\ \A x \in Peers : x # q => new[x] = box[x]
  BY <1>1
<1>3. Tail(box[q]) \in Seq(S)
      /\ \A i \in DOMAIN Tail(box[q]) : i + 1 \in DOMAIN box[q] /\ Tail(box[q])[i] = box[q][i + 1]
  BY TailAll
<1>4. QED
  BY <1>1, <1>2, <1>3

\* What a delivery, once or twice, leaves in the inboxes.
Delivered(box, q, m, new) ==
    /\ \A x \in Peers : x # q => new[x] = box[x]
    /\ \A i \in DOMAIN box[q] : i \in DOMAIN new[q] /\ new[q][i] = box[q][i]
    /\ \A i \in DOMAIN new[q] : \/ i \in Nat /\ new[q][i] = m /\ \A j \in DOMAIN box[q] : j < i
                                \/ i \in DOMAIN box[q] /\ new[q][i] = box[q][i]
    /\ \E i \in DOMAIN new[q] : new[q][i] = m

LEMMA AppendHolds ==
    ASSUME NEW S, NEW s \in Seq(S), NEW e \in S, NEW t,
           t = Append(s, e) \/ t = s \o <<e, e>>
    PROVE  /\ \A i \in DOMAIN s : i \in DOMAIN t /\ t[i] = s[i]
           /\ \A i \in DOMAIN t : \/ i \in Nat /\ t[i] = e /\ \A j \in DOMAIN s : j < i
                                  \/ i \in DOMAIN s /\ t[i] = s[i]
           /\ \E i \in DOMAIN t : t[i] = e
<1>1. Len(s) \in Nat /\ <<e, e>> \in Seq(S)
  OBVIOUS
<1>2. CASE t = Append(s, e)
  <2>1. Len(s) + 1 \in DOMAIN t /\ t[Len(s) + 1] = e
    BY <1>1, <1>2
  <2>2. QED
    BY <1>1, <1>2, <2>1
<1>3. CASE t = s \o <<e, e>>
  <2>1. \A i \in DOMAIN s : i \in DOMAIN t /\ t[i] = s[i]
    BY <1>1, <1>3
  <2>2. DOMAIN t = 1 .. Len(s) + 2 /\ t[Len(s) + 1] = e /\ t[Len(s) + 2] = e
    BY <1>1, <1>3
  <2>3. DOMAIN s = 1 .. Len(s)
    OBVIOUS
  <2>4. \A i \in DOMAIN t : i \in Nat /\ (i \in DOMAIN s \/ i = Len(s) + 1 \/ i = Len(s) + 2)
    BY <1>1, <2>2, <2>3
  <2>5. \A j \in DOMAIN s : j < Len(s) + 1 /\ j < Len(s) + 2
    BY <1>1, <2>3
  <2>6. Len(s) + 1 \in DOMAIN t
    BY <1>1, <2>2
  <2>7. QED
    BY <2>1, <2>2, <2>4, <2>5, <2>6
<1>4. QED
  BY <1>2, <1>3

LEMMA DeliveredTo ==
    ASSUME NEW S, NEW box \in [Peers -> Seq(S)], NEW q \in Peers, NEW m \in S, NEW new,
           new = Put(box, q, m) \/ new = PutTwice(box, q, m)
    PROVE  Delivered(box, q, m, new)
<1>1. /\ new[q] = Append(box[q], m) \/ new[q] = box[q] \o <<m, m>>
      /\ \A x \in Peers : x # q => new[x] = box[x]
  BY DEF Put, PutTwice
<1>2. box[q] \in Seq(S)
  OBVIOUS
<1>3. PICK t : t = new[q]
  OBVIOUS
<1>4. t = Append(box[q], m) \/ t = box[q] \o <<m, m>>
  BY <1>1, <1>3
<1>5. /\ \A i \in DOMAIN box[q] : i \in DOMAIN t /\ t[i] = box[q][i]
      /\ \A i \in DOMAIN t : \/ i \in Nat /\ t[i] = m /\ \A j \in DOMAIN box[q] : j < i
                             \/ i \in DOMAIN box[q] /\ t[i] = box[q][i]
      /\ \E i \in DOMAIN t : t[i] = m
  BY <1>2, <1>4, AppendHolds, SMTT(30)
<1>6. QED
  BY <1>1, <1>3, <1>5 DEF Delivered

\* The inbox p reads from: its head is gone.
Behind(s, t) ==
    /\ 1 \in DOMAIN s /\ Head(s) = s[1]
    /\ \A i \in DOMAIN t : i + 1 \in DOMAIN s /\ t[i] = s[i + 1]
    /\ \A i \in DOMAIN s : i = 1 \/ (i - 1 \in DOMAIN t /\ t[i - 1] = s[i])

LEMMA TakenFrom ==
    ASSUME NEW S, NEW box \in [Peers -> Seq(S)], NEW p \in Peers, box[p] # <<>>, NEW new,
           new = Take(box, p)
    PROVE  /\ \A x \in Peers : x # p => new[x] = box[x]
           /\ Behind(box[p], new[p])
<1>1. new[p] = Tail(box[p]) /\ \A x \in Peers : x # p => new[x] = box[x]
  BY DEF Take
<1>2. box[p] \in Seq(S)
  OBVIOUS
<1>3. Len(box[p]) \in Nat /\ DOMAIN box[p] = 1 .. Len(box[p]) /\ Len(box[p]) # 0
  BY <1>2
<1>4. /\ DOMAIN Tail(box[p]) = 1 .. (Len(box[p]) - 1)
      /\ \A i \in 1 .. (Len(box[p]) - 1) : Tail(box[p])[i] = box[p][i + 1]
      /\ Head(box[p]) = box[p][1]
  BY <1>2, <1>3
<1>5. \A i \in 1 .. Len(box[p]) : i = 1 \/ (i - 1 \in 1 .. (Len(box[p]) - 1) /\ (i - 1) + 1 = i)
  BY <1>3
<1>6. QED
  BY <1>1, <1>3, <1>4, <1>5 DEF Behind

LEMMA PeerFacts ==
    ASSUME NEW p \in Peers
    PROVE  /\ Other(p) \in Peers /\ Other(p) # p /\ Other(Other(p)) = p
           /\ \A q \in Peers : q = p \/ q = Other(p)
           /\ \A n : RoleIn(p, n) \in Roles
  BY DEF Peers, Other, RoleIn, Roles

LEMMA WinTyped ==
    ASSUME TypeOK, NEW p \in Peers
    PROVE  /\ num[p] \in Nat
           /\ \A i \in DOMAIN hello[p] : hello[p][i] \in 1 .. Games
           /\ \A i \in DOMAIN turns[p] : turns[p][i].win \in Nat
           /\ \A i \in DOMAIN audits[p] : audits[p][i].win \in Nat
           /\ \A m \in late[p] : m.win \in Nat
<1>1. num[p] \in Nat /\ hello[p] \in Seq(1 .. Games)
  BY DEF TypeOK
<1>2. turns[p] \in Seq(Turns) /\ audits[p] \in Seq(Audits) /\ late[p] \subseteq Turns \cup Audits
  BY DEF TypeOK
<1>3. \A i \in DOMAIN turns[p] : turns[p][i] \in Turns
  BY <1>2
<1>4. \A i \in DOMAIN audits[p] : audits[p][i] \in Audits
  BY <1>2
<1>5. QED
  BY <1>1, <1>2, <1>3, <1>4 DEF Turns, Audits

-----------------------------------------------------------------------------
\* The list of faults keeps its bound.
FaultsOK == faults \in Seq(FaultKinds) /\ Len(faults) <= MaxFaults

LEMMA FaultsKept ==
    ASSUME FaultsOK, UNCHANGED faults \/ \E k : Fault(k)
    PROVE  FaultsOK'
<1>1. CASE UNCHANGED faults
  BY <1>1 DEF FaultsOK
<1>2. CASE \E k : Fault(k)
  <2>1. PICK k : k \in FaultKinds /\ Len(faults) < MaxFaults /\ faults' = Append(faults, k)
    BY <1>2, SeriesAssumption DEF Fault
  <2>2. faults' \in Seq(FaultKinds) /\ Len(faults') = Len(faults) + 1
    BY <2>1 DEF FaultsOK
  <2>3. QED
    BY <2>1, <2>2, SeriesAssumption DEF FaultsOK
<1>3. QED
  BY <1>1, <1>2

LEMMA InitIInv == Init => IInv
  BY DEF Init, IInv, TypeOK, Opened, Met, Bounds, OffersBound, TurnsBound, AuditsBound,
         LateBound, Phases, Outcomes, Peers, Other

\* What an offer of a window its sender has opened does to the inboxes.
LEMMA OfferKeeps ==
    ASSUME TypeOK, OffersBound, NEW p \in Peers, NEW n \in 1 .. Games, Offer(p, n),
           num' \in [Peers -> 0 .. Games], n <= num'[p],
           \A q \in Peers : num[q] <= num'[q]
    PROVE  /\ hello' \in [Peers -> Seq(1 .. Games)] /\ OffersBound'
           /\ FaultsOK'
<1> DEFINE q == Other(p)
<1>1. q \in Peers /\ hello[q] \in Seq(1 .. Games)
  BY PeerFacts DEF TypeOK
<1>2. hello' = Put(hello, q, n) \/ hello' = PutTwice(hello, q, n) \/ hello' = hello
  BY DEF Offer
<1>3. /\ hello' \in [Peers -> Seq(1 .. Games)]
      /\ \A x \in Peers : \A i \in DOMAIN hello'[x] :
           \/ x = q /\ hello'[x][i] = n
           \/ i \in DOMAIN hello[x] /\ hello'[x][i] = hello[x][i]
  <2>1. hello \in [Peers -> Seq(1 .. Games)]
    BY DEF TypeOK
  <2>2. PutLeaves(1 .. Games, hello, q, n, hello') \/ hello' = hello
    <3> HIDE DEF q
    <3>1. QED
      BY <1>1, <1>2, <2>1, PutAll
  <2>3. QED
    BY <2>1, <2>2 DEF PutLeaves
<1>6. OffersBound'
  <2> SUFFICES ASSUME NEW x \in Peers, NEW i \in DOMAIN hello'[x]
               PROVE  hello'[x][i] <= num'[Other(x)]
    BY DEF OffersBound
  <2>1. ASSUME i \in DOMAIN hello[x], hello'[x][i] = hello[x][i]
        PROVE  hello'[x][i] <= num'[Other(x)]
    <3>1. hello[x][i] \in 1 .. Games /\ Other(x) \in Peers
      BY <2>1, PeerFacts, WinTyped
    <3>2. hello[x][i] <= num[Other(x)] /\ num[Other(x)] <= num'[Other(x)]
      BY <2>1, <3>1 DEF OffersBound
    <3>3. num[Other(x)] \in Nat /\ num'[Other(x)] \in Nat
      BY <3>1 DEF TypeOK
    <3>4. QED
      BY <2>1, <3>1, <3>2, <3>3
  <2>2. ASSUME x = q, hello'[x][i] = n
        PROVE  hello'[x][i] <= num'[Other(x)]
    BY <2>2, PeerFacts
  <2>3. QED
    BY <1>3, <2>1, <2>2
<1>7. FaultsOK'
  <2>1. UNCHANGED faults \/ Fault("twice") \/ Fault("lost_offer")
    BY DEF Offer
  <2>2. QED
    BY <2>1, FaultsKept DEF TypeOK, FaultsOK
<1>8. QED
  BY <1>3, <1>6, <1>7

LEMMA StartIInv ==
    ASSUME IInv, NEW p \in Peers, StartSubGame(p)
    PROVE  IInv'
<1>1. TypeOK /\ Met /\ Opened /\ OffersBound
  BY DEF IInv, Bounds
<1>2. /\ num' = [num EXCEPT ![p] = num[p] + 1]
      /\ num[p] + 1 \in 1 .. Games /\ num'[p] = num[p] + 1
      /\ num' \in [Peers -> 0 .. Games] /\ \A q \in Peers : num[q] <= num'[q]
  BY <1>1, SMTT(30) DEF StartSubGame, TypeOK
<1>3. Offer(p, num[p] + 1)
  BY DEF StartSubGame
<1>4. /\ hello' \in [Peers -> Seq(1 .. Games)] /\ OffersBound' /\ FaultsOK'
  BY <1>1, <1>2, <1>3, OfferKeeps
<1>5. /\ turns' \in [Peers -> Seq(Turns)] /\ audits' \in [Peers -> Seq(Audits)]
      /\ phase' \in [Peers -> Phases] /\ phase'[p] = "offering"
      /\ \A q \in Peers : q # p => phase'[q] = phase[q]
  BY <1>1 DEF StartSubGame, TypeOK, Goes, Phases
<1>6. TypeOK'
  <2>1. /\ made' \in [Peers -> Nat] /\ seen' \in [Peers -> Seq(Nat)]
        /\ breaches' \in [Peers -> Nat] /\ outcome' \in [Peers -> Outcomes]
    BY <1>1 DEF StartSubGame, Fresh, TypeOK, Outcomes
  <2>2. UNCHANGED <<rows, late>>
    BY DEF StartSubGame
  <2>3. QED
    BY <1>1, <1>2, <1>4, <1>5, <2>1, <2>2 DEF TypeOK, FaultsOK
<1>7. Opened'
  <2>1. num'[p] >= 1 /\ \A q \in Peers : q # p => num'[q] = num[q]
    BY <1>1, <1>2 DEF TypeOK
  <2>2. QED
    BY <1>1, <1>5, <2>1 DEF Opened
<1>8. Met'
  <2> SUFFICES ASSUME NEW q \in Peers, phase'[q] \notin {"offering", "aborted"}
               PROVE  num'[q] <= num'[Other(q)]
    BY DEF Met
  <2>1. q # p /\ num[q] <= num[Other(q)] /\ Other(q) \in Peers
    BY <1>1, <1>5, PeerFacts DEF Met
  <2>2. num'[q] = num[q] /\ num[Other(q)] <= num'[Other(q)]
    BY <1>1, <1>2, <2>1 DEF TypeOK
  <2>3. num[q] \in Nat /\ num[Other(q)] \in Nat /\ num'[Other(q)] \in Nat
    BY <1>1, <1>2, <2>1 DEF TypeOK
  <2>4. QED
    BY <2>1, <2>2, <2>3
<1>9. TurnsBound' /\ AuditsBound' /\ LateBound'
  <2>1. \A q \in Peers : num[q] \in Nat /\ num'[q] \in Nat /\ num[q] <= num'[q]
    BY <1>1, <1>2 DEF TypeOK
  <2>2. \A q \in Peers : q # p => turns'[q] = turns[q] /\ audits'[q] = audits[q]
    BY <1>1 DEF StartSubGame, TypeOK
  <2>3. turns'[p] = <<>> /\ audits'[p] = <<>>
    BY <1>1 DEF StartSubGame, TypeOK
  <2>4. TurnsBound'
    <3> SUFFICES ASSUME NEW q \in Peers, NEW i \in DOMAIN turns'[q]
                 PROVE  turns'[q][i].win <= num'[q]
      BY DEF TurnsBound
    <3>1. q # p /\ turns'[q] = turns[q]
      BY <2>2, <2>3
    <3>2. turns[q][i].win \in Nat
      BY <1>1, <3>1, WinTyped
    <3>3. QED
      BY <2>1, <3>1, <3>2 DEF IInv, Bounds, TurnsBound
  <2>5. AuditsBound'
    <3> SUFFICES ASSUME NEW q \in Peers, NEW i \in DOMAIN audits'[q]
                 PROVE  audits'[q][i].win <= num'[q]
      BY DEF AuditsBound
    <3>1. q # p /\ audits'[q] = audits[q]
      BY <2>2, <2>3
    <3>2. audits[q][i].win \in Nat
      BY <1>1, <3>1, WinTyped
    <3>3. QED
      BY <2>1, <3>1, <3>2 DEF IInv, Bounds, AuditsBound
  <2>6. LateBound'
    <3> SUFFICES ASSUME NEW q \in Peers, NEW m \in late'[q]
                 PROVE  m.win <= num'[q]
      BY DEF LateBound
    <3>1. m \in late[q] /\ m.win \in Nat
      BY <1>1, WinTyped DEF StartSubGame
    <3>2. QED
      BY <2>1, <3>1 DEF IInv, Bounds, LateBound
  <2>7. QED
    BY <2>4, <2>5, <2>6
<1>10. QED
  BY <1>4, <1>6, <1>7, <1>8, <1>9 DEF IInv, Bounds

\* The steps that leave the window numbers alone keep the three bounds when
\* what they put into an inbox or leave under way is bounded.
LEMMA TurnsKept ==
    ASSUME TypeOK, TurnsBound, UNCHANGED num, NEW q \in Peers, NEW m \in Turns,
           m.win <= num[q],
           turns' = Put(turns, q, m) \/ turns' = PutTwice(turns, q, m)
    PROVE  turns' \in [Peers -> Seq(Turns)] /\ TurnsBound'
<1>1. turns \in [Peers -> Seq(Turns)]
  BY DEF TypeOK
<1>2. PutLeaves(Turns, turns, q, m, turns')
  BY <1>1, PutAll
<1>3. QED
  BY <1>2 DEF PutLeaves, TurnsBound

LEMMA AuditsKept ==
    ASSUME TypeOK, AuditsBound, UNCHANGED num, NEW q \in Peers, NEW m \in Audits,
           m.win <= num[q],
           audits' = Put(audits, q, m) \/ audits' = PutTwice(audits, q, m)
    PROVE  audits' \in [Peers -> Seq(Audits)] /\ AuditsBound'
<1>1. audits \in [Peers -> Seq(Audits)]
  BY DEF TypeOK
<1>2. PutLeaves(Audits, audits, q, m, audits')
  BY <1>1, PutAll
<1>3. QED
  BY <1>2 DEF PutLeaves, AuditsBound

LEMMA LateKept ==
    ASSUME TypeOK, LateBound, UNCHANGED num, NEW q \in Peers, NEW m \in Turns \cup Audits,
           m.win <= num[q], late' = [late EXCEPT ![q] = late[q] \cup {m}]
    PROVE  late' \in [Peers -> SUBSET (Turns \cup Audits)] /\ LateBound'
  BY DEF TypeOK, LateBound

LEMMA TurnTaken ==
    ASSUME TypeOK, TurnsBound, UNCHANGED num, NEW q \in Peers, turns[q] # <<>>,
           turns' = Take(turns, q)
    PROVE  turns' \in [Peers -> Seq(Turns)] /\ TurnsBound'
<1>1. turns \in [Peers -> Seq(Turns)]
  BY DEF TypeOK
<1>2. /\ turns' \in [Peers -> Seq(Turns)]
      /\ \A x \in Peers : \A i \in DOMAIN turns'[x] :
           \E j \in DOMAIN turns[x] : turns'[x][i] = turns[x][j]
  BY <1>1, TakeAll
<1>3. QED
  BY <1>2 DEF TurnsBound

LEMMA AuditTaken ==
    ASSUME TypeOK, AuditsBound, UNCHANGED num, NEW q \in Peers, audits[q] # <<>>,
           audits' = Take(audits, q)
    PROVE  audits' \in [Peers -> Seq(Audits)] /\ AuditsBound'
<1>1. audits \in [Peers -> Seq(Audits)]
  BY DEF TypeOK
<1>2. /\ audits' \in [Peers -> Seq(Audits)]
      /\ \A x \in Peers : \A i \in DOMAIN audits'[x] :
           \E j \in DOMAIN audits[x] : audits'[x][i] = audits[x][j]
  BY <1>1, TakeAll
<1>3. QED
  BY <1>2 DEF AuditsBound

\* A peer that stays past the handshake, or leaves it for good, keeps Met.
LEMMA PhaseKept ==
    ASSUME IInv, UNCHANGED num, NEW p \in Peers, NEW s \in Phases, Goes(p, s),
           s # "offering",
           s # "aborted" => num[p] <= num[Other(p)]
    PROVE  phase' \in [Peers -> Phases] /\ Met' /\ Opened'
  BY DEF IInv, TypeOK, Goes, Met, Opened

-----------------------------------------------------------------------------
LEMMA ReadOfferIInv ==
    ASSUME IInv, NEW p \in Peers, ReadOffer(p)
    PROVE  IInv'
<1>1. TypeOK /\ OffersBound /\ UNCHANGED <<num, turns, audits, game, rows, late, faults>>
  BY DEF IInv, Bounds, ReadOffer
<1>2. hello[p] # <<>> /\ hello' = Take(hello, p) /\ hello \in [Peers -> Seq(1 .. Games)]
  BY <1>1 DEF ReadOffer, TypeOK
<1>3. hello' \in [Peers -> Seq(1 .. Games)] /\ OffersBound'
  BY <1>1, <1>2, TakeAll DEF OffersBound
<1>4. Head(hello[p]) <= num[Other(p)]
  BY <1>1, <1>2 DEF OffersBound
<1>5. phase' \in [Peers -> Phases] /\ Met' /\ Opened'
  <2>1. CASE UNCHANGED phase
    BY <1>1, <2>1 DEF IInv, TypeOK, Met, Opened
  <2>2. CASE ~ UNCHANGED phase
    <3>1. num[p] <= num[Other(p)]
      BY <1>4, <2>2 DEF ReadOffer, Agrees
    <3>2. \/ Goes(p, "moving") /\ "moving" \in Phases
          \/ Goes(p, "waiting") /\ "waiting" \in Phases
      BY <2>2 DEF ReadOffer, Phases
    <3>3. QED
      BY <1>1, <3>1, <3>2, PhaseKept
  <2>3. QED
    BY <2>1, <2>2
<1>6. TypeOK'
  BY <1>1, <1>3, <1>5 DEF TypeOK, game
<1>7. QED
  BY <1>1, <1>3, <1>5, <1>6 DEF IInv, Bounds, TurnsBound, AuditsBound, LateBound

LEMMA ReofferIInv ==
    ASSUME IInv, NEW p \in Peers, Reoffer(p)
    PROVE  IInv'
<1>1. TypeOK /\ OffersBound /\ Offer(p, num[p])
      /\ UNCHANGED <<phase, num, turns, audits, game, rows, late>>
  BY DEF IInv, Bounds, Reoffer
<1>2. num[p] \in 1 .. Games /\ \A q \in Peers : num[q] \in Nat
  BY <1>1 DEF IInv, Opened, Reoffer, TypeOK
<1>3. hello' \in [Peers -> Seq(1 .. Games)] /\ OffersBound' /\ FaultsOK'
  <2>1. num' \in [Peers -> 0 .. Games] /\ num[p] <= num'[p] /\ \A q \in Peers : num[q] <= num'[q]
    BY <1>1, <1>2 DEF TypeOK
  <2>2. QED
    BY <1>1, <1>2, <2>1, OfferKeeps
<1>4. TypeOK'
  BY <1>1, <1>3 DEF TypeOK, FaultsOK, game
<1>5. QED
  BY <1>1, <1>3, <1>4 DEF IInv, Bounds, TurnsBound, AuditsBound, LateBound, Met, Opened

LEMMA MoveIInv ==
    ASSUME IInv, NEW p \in Peers, Move(p)
    PROVE  IInv'
<1> DEFINE q == Other(p)
           m == [win |-> num[p], step |-> made[p] + 1, from |-> RoleIn(p, num[p])]
<1>1. TypeOK /\ TurnsBound /\ LateBound /\ UNCHANGED <<num, hello, audits, seen, breaches, rows>>
  BY DEF IInv, Bounds, Move
<1>2. q \in Peers /\ m \in Turns /\ m.win = num[p]
  <2>1. num[p] \in Nat /\ made[p] + 1 \in Nat
    BY <1>1 DEF TypeOK
  <2>2. QED
    BY <2>1, PeerFacts DEF Turns
<1>3. num[p] <= num[q]
  BY DEF IInv, Met, Move
<1>4. /\ \/ turns' = Put(turns, q, m) /\ UNCHANGED <<late, faults>>
         \/ turns' = PutTwice(turns, q, m) /\ Fault("twice") /\ UNCHANGED late
         \/ late' = [late EXCEPT ![q] = late[q] \cup {m}] /\ Fault("late") /\ UNCHANGED turns
      /\ Ends(p, "played") \/ Ends(p, "lost") \/ (Goes(p, "waiting") /\ UNCHANGED outcome)
      /\ made' = [made EXCEPT ![p] = made[p] + 1]
  BY DEF Move
<1> HIDE DEF m, q
<1>5. turns' \in [Peers -> Seq(Turns)] /\ TurnsBound'
  <2>1. CASE UNCHANGED turns
    BY <1>1, <2>1 DEF TypeOK, TurnsBound
  <2>2. CASE ~ UNCHANGED turns
    BY <1>1, <1>2, <1>3, <1>4, <2>2, TurnsKept
  <2>3. QED
    BY <2>1, <2>2
<1>6. late' \in [Peers -> SUBSET (Turns \cup Audits)] /\ LateBound'
  <2>1. CASE UNCHANGED late
    BY <1>1, <2>1 DEF TypeOK, LateBound
  <2>2. CASE ~ UNCHANGED late
    BY <1>1, <1>2, <1>3, <1>4, <2>2, LateKept
  <2>3. QED
    BY <2>1, <2>2
<1>7. FaultsOK'
  <2>1. UNCHANGED faults \/ Fault("twice") \/ Fault("late")
    BY <1>4
  <2>2. QED
    BY <1>1, <2>1, FaultsKept DEF TypeOK, FaultsOK
<1>8. phase' \in [Peers -> Phases] /\ Met' /\ Opened'
  <2>1. \E s \in {"over", "waiting"} : Goes(p, s)
    BY <1>4 DEF Ends
  <2>2. {"over", "waiting"} \subseteq Phases
    BY DEF Phases
  <2>3. QED
    BY <1>1, <1>3, <2>1, <2>2, PhaseKept DEF q
<1>9. outcome' \in [Peers -> Outcomes] /\ made' \in [Peers -> Nat]
  <2>1. outcome \in [Peers -> Outcomes] /\ made \in [Peers -> Nat]
        /\ {"played", "lost"} \subseteq Outcomes
    BY <1>1 DEF TypeOK, Outcomes
  <2>2. \/ outcome' = [outcome EXCEPT ![p] = "played"]
        \/ outcome' = [outcome EXCEPT ![p] = "lost"]
        \/ outcome' = outcome
    BY <1>4 DEF Ends
  <2>3. QED
    BY <1>4, <2>1, <2>2
<1>10. TypeOK'
  BY <1>1, <1>5, <1>6, <1>7, <1>8, <1>9 DEF TypeOK, FaultsOK
<1>11. QED
  BY <1>1, <1>5, <1>6, <1>8, <1>10 DEF IInv, Bounds, OffersBound, AuditsBound

\* The three ways a peer leaves a state without touching an inbox.
LEMMA QuietIInv ==
    ASSUME IInv, NEW p \in Peers,
           Raises(p) \/ TurnTimeout(p) \/ AuditTimeout(p) \/ EndSeries(p) \/ HandshakeDeadline(p)
    PROVE  IInv'
<1>1. TypeOK /\ UNCHANGED <<num, inboxes, made, seen, breaches, late>>
  BY DEF IInv, Raises, TurnTimeout, AuditTimeout, EndSeries, HandshakeDeadline, game
<1>2. FaultsOK'
  <2>1. UNCHANGED faults \/ \E k \in FaultKinds : Fault(k)
    BY DEF Raises, TurnTimeout, AuditTimeout, EndSeries, HandshakeDeadline, FaultKinds
  <2>2. QED
    BY <1>1, <2>1, FaultsKept DEF TypeOK, FaultsOK
<1>3. phase' \in [Peers -> Phases] /\ Met' /\ Opened'
  <2>1. CASE HandshakeDeadline(p)
    <3>1. Goes(p, "aborted") /\ "aborted" \in Phases
      BY <2>1 DEF HandshakeDeadline, Phases
    <3>2. QED
      BY <1>1, <3>1, PhaseKept
  <2>2. CASE ~ HandshakeDeadline(p)
    <3>1. num[p] <= num[Other(p)]
      BY <2>2 DEF IInv, Met, Raises, TurnTimeout, AuditTimeout, EndSeries
    <3>2. \E s \in {"over", "idle", "finished"} : Goes(p, s)
      BY <2>2 DEF Raises, TurnTimeout, AuditTimeout, EndSeries, Ends, Settles
    <3>3. {"over", "idle", "finished"} \subseteq Phases
      BY DEF Phases
    <3>4. QED
      BY <1>1, <3>1, <3>2, <3>3, PhaseKept
  <2>3. QED
    BY <2>1, <2>2
<1>4. outcome' \in [Peers -> Outcomes] /\ rows' \in [Peers -> Seq(Outcomes)]
  <2>1. Ends(p, "lost") \/ UNCHANGED outcome
    BY DEF Raises, TurnTimeout, AuditTimeout, EndSeries, HandshakeDeadline, game
  <2>2. Settles(p, outcome[p]) \/ UNCHANGED rows
    BY DEF Raises, TurnTimeout, AuditTimeout, EndSeries, HandshakeDeadline
  <2>3. outcome \in [Peers -> Outcomes] /\ rows \in [Peers -> Seq(Outcomes)] /\ "lost" \in Outcomes
    BY <1>1 DEF TypeOK, Outcomes
  <2>4. Append(rows[p], outcome[p]) \in Seq(Outcomes)
    BY <2>3
  <2>5. QED
    BY <2>1, <2>2, <2>3, <2>4 DEF Ends, Settles
<1>5. TypeOK'
  BY <1>1, <1>2, <1>3, <1>4 DEF TypeOK, FaultsOK, inboxes
<1>6. QED
  BY <1>1, <1>3, <1>5 DEF IInv, Bounds, OffersBound, TurnsBound, AuditsBound, LateBound, inboxes

LEMMA ReadTurnIInv ==
    ASSUME IInv, NEW p \in Peers, ReadTurn(p)
    PROVE  IInv'
<1> DEFINE m == Head(turns[p])
<1>1. TypeOK /\ TurnsBound /\ UNCHANGED <<num, hello, audits, made, rows, late, faults>>
  BY DEF IInv, Bounds, ReadTurn
<1>2. turns[p] # <<>> /\ turns' = Take(turns, p)
  BY DEF ReadTurn
<1>3. turns' \in [Peers -> Seq(Turns)] /\ TurnsBound'
  BY <1>1, <1>2, TurnTaken
<1>4. m.win \in Nat
  <2>1. turns[p] \in Seq(Turns)
    BY <1>1 DEF TypeOK
  <2>2. m \in Turns
    BY <1>2, <2>1
  <2>3. QED
    BY <2>2 DEF Turns
<1>5. /\ seen' = [seen EXCEPT ![p] = Append(seen[p], m.win)] \/ UNCHANGED seen
      /\ \/ breaches' = [breaches EXCEPT ![p] = 0]
         \/ breaches' = [breaches EXCEPT ![p] = breaches[p] + 1]
         \/ UNCHANGED breaches
      /\ \/ Ends(p, "played") \/ Ends(p, "lost")
         \/ (Goes(p, "moving") \/ UNCHANGED phase) /\ UNCHANGED outcome
  BY DEF ReadTurn
<1>6. seen' \in [Peers -> Seq(Nat)] /\ breaches' \in [Peers -> Nat]
  <2>1. seen \in [Peers -> Seq(Nat)] /\ breaches \in [Peers -> Nat]
    BY <1>1 DEF TypeOK
  <2>2. Append(seen[p], m.win) \in Seq(Nat)
    BY <1>4, <2>1
  <2>3. seen' \in [Peers -> Seq(Nat)]
    BY <1>5, <2>1, <2>2
  <2>4. breaches' \in [Peers -> Nat]
    <3>1. breaches[p] + 1 \in Nat
      BY <2>1
    <3>2. QED
      BY <1>5, <2>1, <3>1, SMTT(30)
  <2>5. QED
    BY <2>3, <2>4
<1>7. outcome' \in [Peers -> Outcomes]
  BY <1>1, <1>5 DEF TypeOK, Ends, Outcomes
<1>8. phase' \in [Peers -> Phases] /\ Met' /\ Opened'
  <2>1. CASE UNCHANGED phase
    BY <1>1, <2>1 DEF IInv, TypeOK, Met, Opened
  <2>2. CASE ~ UNCHANGED phase
    <3>1. \E s \in {"over", "moving"} : Goes(p, s)
      BY <1>5, <2>2 DEF Ends
    <3>2. {"over", "moving"} \subseteq Phases /\ num[p] <= num[Other(p)]
      BY DEF Phases, ReadTurn, IInv, Met
    <3>3. QED
      BY <1>1, <3>1, <3>2, PhaseKept
  <2>3. QED
    BY <2>1, <2>2
<1>9. TypeOK'
  BY <1>1, <1>3, <1>6, <1>7, <1>8 DEF TypeOK
<1>10. QED
  BY <1>1, <1>3, <1>8, <1>9 DEF IInv, Bounds, OffersBound, AuditsBound, LateBound

LEMMA RevealIInv ==
    ASSUME IInv, NEW p \in Peers, Reveal(p)
    PROVE  IInv'
<1> DEFINE q == Other(p)
           m == [win |-> num[p], steps |-> made[p]]
<1>1. TypeOK /\ AuditsBound /\ LateBound /\ UNCHANGED <<num, hello, turns, game, rows>>
  BY DEF IInv, Bounds, Reveal
<1>2. q \in Peers /\ m \in Audits /\ m.win = num[p]
  BY <1>1, PeerFacts DEF TypeOK, Audits
<1>3. num[p] <= num[q]
  BY DEF IInv, Met, Reveal
<1>4. \/ audits' = Put(audits, q, m) /\ UNCHANGED <<late, faults>>
      \/ audits' = PutTwice(audits, q, m) /\ Fault("twice") /\ UNCHANGED late
      \/ late' = [late EXCEPT ![q] = late[q] \cup {m}] /\ Fault("late") /\ UNCHANGED audits
  BY DEF Reveal
<1> HIDE DEF m, q
<1>5. audits' \in [Peers -> Seq(Audits)] /\ AuditsBound'
  <2>1. CASE UNCHANGED audits
    BY <1>1, <2>1 DEF TypeOK, AuditsBound
  <2>2. CASE ~ UNCHANGED audits
    BY <1>1, <1>2, <1>3, <1>4, <2>2, AuditsKept
  <2>3. QED
    BY <2>1, <2>2
<1>6. late' \in [Peers -> SUBSET (Turns \cup Audits)] /\ LateBound'
  <2>1. CASE UNCHANGED late
    BY <1>1, <2>1 DEF TypeOK, LateBound
  <2>2. CASE ~ UNCHANGED late
    BY <1>1, <1>2, <1>3, <1>4, <2>2, LateKept
  <2>3. QED
    BY <2>1, <2>2
<1>7. FaultsOK'
  <2>1. UNCHANGED faults \/ Fault("twice") \/ Fault("late")
    BY <1>4
  <2>2. QED
    BY <1>1, <2>1, FaultsKept DEF TypeOK, FaultsOK
<1>8. phase' \in [Peers -> Phases] /\ Met' /\ Opened'
  <2>1. Goes(p, "auditing") /\ "auditing" \in Phases
    BY DEF Reveal, Phases
  <2>2. QED
    BY <1>1, <1>3, <2>1, PhaseKept DEF q
<1>9. TypeOK'
  BY <1>1, <1>5, <1>6, <1>7, <1>8 DEF TypeOK, FaultsOK, game
<1>10. QED
  BY <1>1, <1>5, <1>6, <1>8, <1>9 DEF IInv, Bounds, OffersBound, TurnsBound

LEMMA ReadAuditIInv ==
    ASSUME IInv, NEW p \in Peers, ReadAudit(p)
    PROVE  IInv'
<1>1. TypeOK /\ AuditsBound /\ UNCHANGED <<num, hello, turns, game, late, faults>>
  BY DEF IInv, Bounds, ReadAudit
<1>2. audits' \in [Peers -> Seq(Audits)] /\ AuditsBound'
  BY <1>1, AuditTaken DEF ReadAudit
<1>3. PICK o \in Outcomes : Settles(p, o)
  BY <1>1 DEF ReadAudit, TypeOK, Outcomes
<1>4. phase' \in [Peers -> Phases] /\ Met' /\ Opened'
  <2>1. Goes(p, "idle") /\ "idle" \in Phases /\ num[p] <= num[Other(p)]
    BY <1>3 DEF Settles, Phases, ReadAudit, IInv, Met
  <2>2. QED
    BY <1>1, <2>1, PhaseKept
<1>5. rows' \in [Peers -> Seq(Outcomes)]
  <2>1. Append(rows[p], o) \in Seq(Outcomes)
    BY <1>1 DEF TypeOK
  <2>2. QED
    BY <1>1, <1>3, <2>1 DEF Settles, TypeOK
<1>6. TypeOK'
  BY <1>1, <1>2, <1>4, <1>5 DEF TypeOK, game
<1>7. QED
  BY <1>1, <1>2, <1>4, <1>6 DEF IInv, Bounds, OffersBound, TurnsBound, LateBound

LEMMA ArrivesIInv ==
    ASSUME IInv, NEW p \in Peers, Arrives(p)
    PROVE  IInv'
<1>1. TypeOK /\ UNCHANGED <<phase, num, hello, game, rows, faults>>
  BY DEF IInv, Arrives
<1>2. TurnsBound /\ AuditsBound /\ LateBound
  BY DEF IInv, Bounds
<1>3. PICK m \in late[p] :
        /\ late' = [late EXCEPT ![p] = late[p] \ {m}]
        /\ \/ m \in Turns /\ turns' = Put(turns, p, m) /\ UNCHANGED audits
           \/ m \in Audits /\ audits' = Put(audits, p, m) /\ UNCHANGED turns
  BY DEF Arrives
<1>4. m.win <= num[p]
  BY <1>2 DEF LateBound
<1>5. late' \in [Peers -> SUBSET (Turns \cup Audits)] /\ LateBound'
  BY <1>1, <1>2, <1>3 DEF TypeOK, LateBound
<1>6. /\ turns' \in [Peers -> Seq(Turns)] /\ TurnsBound'
      /\ audits' \in [Peers -> Seq(Audits)] /\ AuditsBound'
  <2>1. CASE m \in Turns /\ turns' = Put(turns, p, m) /\ UNCHANGED audits
    BY <1>1, <1>2, <1>4, <2>1, TurnsKept DEF TypeOK, AuditsBound
  <2>2. CASE m \in Audits /\ audits' = Put(audits, p, m) /\ UNCHANGED turns
    BY <1>1, <1>2, <1>4, <2>2, AuditsKept DEF TypeOK, TurnsBound
  <2>3. QED
    BY <1>3, <2>1, <2>2
<1>7. TypeOK'
  BY <1>1, <1>5, <1>6 DEF TypeOK, game
<1>8. QED
  BY <1>1, <1>5, <1>6, <1>7 DEF IInv, Bounds, OffersBound, Met, Opened

LEMMA NextIInv == IInv /\ [Next]_vars => IInv'
<1> SUFFICES ASSUME IInv, [Next]_vars PROVE IInv'
  OBVIOUS
<1>1. ASSUME NEW p \in Peers, Step(p) PROVE IInv'
  BY <1>1, StartIInv, ReadOfferIInv, ReofferIInv, MoveIInv, QuietIInv, ReadTurnIInv,
     RevealIInv, ReadAuditIInv DEF Step
<1>2. ASSUME NEW p \in Peers, Arrives(p) PROVE IInv'
  BY <1>2, ArrivesIInv
<1>3. CASE UNCHANGED vars
  BY <1>3 DEF vars, inboxes, game, IInv, TypeOK, Opened, Met, Bounds, OffersBound,
              TurnsBound, AuditsBound, LateBound
<1>4. QED
  BY <1>1, <1>2, <1>3 DEF Next, Stopped

-----------------------------------------------------------------------------
(* Why a turn is of its own window.                                        *)

\* A peer opens a window only once it is through with the one before, and the
\* other was part of that one: the peers are never two windows apart.
Close == \A p \in Peers : num[Other(p)] <= num[p] + 1

LEMMA NumSteps ==
    ASSUME IInv, [Next]_vars
    PROVE  \/ UNCHANGED num
           \/ \E p \in Peers : phase[p] = "idle" /\ num' = [num EXCEPT ![p] = num[p] + 1]
  BY DEF Next, Step, Stopped, Arrives, ReadOffer, Reoffer, HandshakeDeadline, Move, Raises,
         ReadTurn, TurnTimeout, Reveal, ReadAudit, AuditTimeout, EndSeries, StartSubGame, vars

LEMMA CloseKept == IInv /\ Close /\ [Next]_vars => Close'
<1> SUFFICES ASSUME IInv, Close, [Next]_vars, NEW x \in Peers
             PROVE  num'[Other(x)] <= num'[x] + 1
  BY DEF Close
<1>1. /\ Other(x) \in Peers /\ Other(x) # x /\ Other(Other(x)) = x
      /\ num \in [Peers -> 0 .. Games]
      /\ num[x] \in Nat /\ num[Other(x)] \in Nat
      /\ num[Other(x)] <= num[x] + 1
  BY PeerFacts DEF IInv, TypeOK, Close
<1>2. CASE UNCHANGED num
  BY <1>1, <1>2
<1>3. ASSUME NEW p \in Peers, phase[p] = "idle", num' = [num EXCEPT ![p] = num[p] + 1]
      PROVE  num'[Other(x)] <= num'[x] + 1
  <2>1. num[p] <= num[Other(p)]
    BY <1>3 DEF IInv, Met
  <2>2. p = x \/ p = Other(x)
    BY PeerFacts
  <2>3. CASE p = x
    <3>1. num'[x] = num[x] + 1 /\ num'[Other(x)] = num[Other(x)]
      BY <1>1, <1>3, <2>3
    <3>2. QED
      BY <1>1, <3>1
  <2>4. CASE p = Other(x)
    <3>1. num'[x] = num[x] /\ num'[Other(x)] = num[Other(x)] + 1 /\ num[Other(x)] <= num[x]
      BY <1>1, <1>3, <2>1, <2>4
    <3>2. QED
      BY <1>1, <3>1
  <2>5. QED
    BY <2>2, <2>3, <2>4
<1>4. QED
  BY <1>2, <1>3, NumSteps

\* A fault that happened stays on the list.
LEMMA FaultGrows ==
    ASSUME TypeOK, NEW K, UNCHANGED faults \/ \E k : Fault(k)
    PROVE  /\ Happened(K) => Happened(K)'
           /\ \A k \in K : Fault(k) => Happened(K)'
<1>1. faults \in Seq(FaultKinds)
  BY DEF TypeOK
<1>2. CASE UNCHANGED faults /\ ~\E k : Fault(k)
  BY <1>2 DEF Happened
<1>3. ASSUME NEW k, Fault(k)
      PROVE  (Happened(K) => Happened(K)') /\ (k \in K => Happened(K)')
  <2>1. k \in FaultKinds /\ faults' = Append(faults, k)
    BY <1>3, SeriesAssumption DEF Fault
  <2>2. /\ DOMAIN faults' = 1 .. (Len(faults) + 1) /\ DOMAIN faults = 1 .. Len(faults)
        /\ Len(faults) \in Nat
        /\ faults'[Len(faults) + 1] = k
        /\ \A i \in DOMAIN faults : faults'[i] = faults[i]
    BY <1>1, <2>1
  <2>3. QED
    BY <2>2 DEF Happened
<1>4. QED
  BY <1>2, <1>3

\* What the types say of one peer.
LEMMA Sizes ==
    ASSUME TypeOK, NEW p \in Peers
    PROVE  /\ num[p] \in Nat /\ made[p] \in Nat /\ Len(seen[p]) \in Nat
           /\ seen[p] \in Seq(Nat) /\ DOMAIN seen[p] = 1 .. Len(seen[p])
           /\ turns[p] \in Seq(Turns)
           /\ \A i \in DOMAIN turns[p] : turns[p][i].win \in Nat /\ turns[p][i].step \in Nat
<1>1. num[p] \in Nat /\ made[p] \in Nat /\ seen[p] \in Seq(Nat) /\ turns[p] \in Seq(Turns)
  BY DEF TypeOK
<1>2. \A i \in DOMAIN turns[p] : turns[p][i] \in Turns
  BY <1>1
<1>3. QED
  BY <1>1, <1>2 DEF Turns

\* A peer that did not act keeps what it holds.
Still(p) ==
    /\ phase'[p] = phase[p] /\ num'[p] = num[p] /\ made'[p] = made[p]
    /\ seen'[p] = seen[p]

LEMMA LocalKept ==
    ASSUME NEW p \in Peers, Local(p), Still(p), turns'[p] = turns[p]
    PROVE  Local(p)'
  BY DEF Local, Still, Taken, Playing

LEMMA SentKept ==
    ASSUME NEW p \in Peers, Sent(p), seen'[p] = seen[p], turns'[p] = turns[p],
           num'[p] = num[p], num'[Other(p)] = num[Other(p)], made'[Other(p)] = made[Other(p)]
    PROVE  Sent(p)'
  BY DEF Sent

LEMMA MuteKept ==
    ASSUME NEW p \in Peers, Mute(p), Still(p), turns'[p] = turns[p],
           Offered(p)' => Offered(p)
    PROVE  Mute(p)'
  BY DEF Mute, Still, Heard

LEMMA DesertedAlike ==
    ASSUME NEW p \in Peers, Deserted(p)', num'[p] = num[p], num'[Other(p)] = num[Other(p)],
           \/ phase'[Other(p)] = phase[Other(p)]
           \/ phase'[Other(p)] \notin {"over", "auditing", "idle", "finished"}
           \/ phase[Other(p)] \in {"over", "auditing", "idle", "finished"}
    PROVE  Deserted(p)
  BY DEF Deserted

\* A window opens: nothing of it has been sent yet, and the peer it leaves
\* behind is through.
LEMMA StartInWindow ==
    ASSUME IInv, Close, \A x \in Peers : InWindow(x), NEW p \in Peers, StartSubGame(p)
    PROVE  \A x \in Peers : InWindow(x)'
<1> DEFINE q == Other(p)
<1>1. q \in Peers /\ q # p /\ Other(q) = p /\ \A x \in Peers : x = p \/ x = q
  BY PeerFacts
<1>2. TypeOK /\ InWindow(p) /\ InWindow(q)
  BY <1>1 DEF IInv
<1>3. /\ num[p] \in Nat /\ num[q] \in Nat /\ made[q] \in Nat
      /\ num[p] <= num[q] /\ num[q] <= num[p] + 1
      /\ phase[q] \notin {"offering", "aborted"} => num[q] <= num[p]
  BY <1>1, <1>2, Sizes DEF IInv, Met, Close, StartSubGame
<1>4. /\ phase[p] = "idle" /\ phase' = [phase EXCEPT ![p] = "offering"]
      /\ num' = [num EXCEPT ![p] = num[p] + 1]
      /\ turns' = [turns EXCEPT ![p] = <<>>] /\ seen' = [seen EXCEPT ![p] = <<>>]
      /\ made' = [made EXCEPT ![p] = 0] /\ UNCHANGED late
  BY DEF StartSubGame, Fresh, Goes
<1>5. /\ phase'[p] = "offering" /\ phase'[q] = phase[q]
      /\ num'[p] = num[p] + 1 /\ num'[q] = num[q]
      /\ turns'[p] = <<>> /\ turns'[q] = turns[q]
      /\ seen'[p] = <<>> /\ seen'[q] = seen[q]
      /\ made'[p] = 0 /\ made'[q] = made[q]
  BY <1>1, <1>2, <1>4 DEF IInv, TypeOK
<1>6. /\ \A i \in DOMAIN hello'[p] : i \in DOMAIN hello[p] /\ hello'[p][i] = hello[p][i]
      /\ \A i \in DOMAIN hello'[q] :
           hello'[q][i] = num[p] + 1 \/ (i \in DOMAIN hello[q] /\ hello'[q][i] = hello[q][i])
  <2>0. num[p] < Games /\ hello \in [Peers -> Seq(1 .. Games)]
    BY <1>2 DEF StartSubGame, TypeOK
  <2>1. num[p] + 1 \in 1 .. Games /\ hello \in [Peers -> Seq(1 .. Games)]
    BY <1>3, <2>0, SeriesAssumption
  <2>2. \/ hello' = Put(hello, q, num[p] + 1) \/ hello' = PutTwice(hello, q, num[p] + 1)
        \/ hello' = hello
    BY DEF StartSubGame, Offer
  <2> HIDE DEF q
  <2>3. PutLeaves(1 .. Games, hello, q, num[p] + 1, hello') \/ hello' = hello
    BY <1>1, <2>1, <2>2, PutAll
  <2>4. QED
    BY <1>1, <2>3 DEF PutLeaves
<1> HIDE DEF q
<1>7. InWindow(p)'
  <2>1. late'[p] = {}
    BY <1>2, <1>4 DEF InWindow
  <2>2. Local(p)'
    BY <1>5 DEF Local, Playing
  <2>3. Sent(p)'
    BY <1>1, <1>3, <1>5 DEF Sent, q
  <2>4. ASSUME Deserted(p)' PROVE Mute(p)'
    <3>1. ~Offered(p)'
      <4>1. num'[q] > num'[p] \/ (num'[q] = num'[p] /\ phase'[q] \notin {"offering", "aborted"})
        BY <2>4 DEF Deserted, q
      <4>2. QED
        BY <1>3, <1>5, <4>1
    <3>2. QED
      BY <1>5, <3>1 DEF Mute
  <2>5. QED
    BY <2>1, <2>2, <2>3, <2>4 DEF InWindow
<1>8. InWindow(q)'
  <2>1. late'[q] = {}
    BY <1>2, <1>4 DEF InWindow
  <2>2. Local(q)'
    BY <1>1, <1>2, <1>5, LocalKept DEF InWindow, Still
  <2>3. Sent(q)'
    <3>1. \A i \in DOMAIN turns[q] : turns[q][i].win = num[q] /\ turns[q][i].win <= num[p]
      BY <1>1, <1>2 DEF InWindow, Local, Sent
    <3>2. \A i \in DOMAIN turns'[q] : turns'[q][i].win <= num'[p]
      BY <1>3, <1>5, <3>1
    <3>3. ASSUME num'[q] = num'[p]
          PROVE  seen[q] = <<>> /\ \A i \in DOMAIN turns'[q] : FALSE
      <4>1. num[q] = num[p] + 1
        BY <1>5, <3>3
      <4>2. phase[q] \in {"offering", "aborted"}
        BY <1>3, <4>1
      <4>3. QED
        BY <1>2, <1>3, <1>5, <3>1, <4>1, <4>2 DEF InWindow, Local
    <3>4. QED
      BY <1>1, <1>5, <3>2, <3>3 DEF Sent
  <2>4. ASSUME Deserted(q)' PROVE Mute(q)'
    <3>1. num'[p] > num'[q]
      BY <1>1, <1>5, <2>4 DEF Deserted
    <3>2. num[q] = num[p]
      BY <1>3, <1>5, <3>1
    <3>3. Deserted(q)
      BY <1>1, <1>4, <3>2 DEF Deserted
    <3>4. Offered(q)' => Offered(q)
      BY <1>3, <1>5, <1>6, <3>2 DEF Offered
    <3>5. QED
      BY <1>1, <1>2, <1>5, <3>3, <3>4, MuteKept DEF InWindow, Still
  <2>5. QED
    BY <2>1, <2>2, <2>3, <2>4 DEF InWindow
<1>9. QED
  BY <1>1, <1>7, <1>8

\* Whoever answers the offer of its window is not deserted in it, unless it
\* then waits.
LEMMA ReadOfferInWindow ==
    ASSUME IInv, \A x \in Peers : InWindow(x), NEW p \in Peers, ReadOffer(p)
    PROVE  \A x \in Peers : InWindow(x)'
<1> DEFINE q == Other(p)
<1>1. q \in Peers /\ q # p /\ Other(q) = p /\ \A x \in Peers : x = p \/ x = q
  BY PeerFacts
<1>2. TypeOK /\ InWindow(p) /\ InWindow(q) /\ UNCHANGED <<num, turns, made, seen, late>>
  BY <1>1 DEF IInv, ReadOffer, game
<1>3. hello' = Take(hello, p) /\ hello[p] # <<>> /\ phase[p] = "offering"
  BY DEF ReadOffer
<1>4. /\ Offered(p)' => Offered(p)
      /\ Head(hello[p]) = num[p] => Offered(p)
      /\ Offered(q)' = Offered(q)
  <2>1. hello \in [Peers -> Seq(1 .. Games)]
    BY <1>2 DEF TypeOK
  <2>2. hello'[p] = Tail(hello[p]) /\ hello'[q] = hello[q] /\ hello[p] \in Seq(1 .. Games)
    BY <1>1, <1>3, <2>1 DEF Take
  <2>3. \A i \in DOMAIN Tail(hello[p]) : i + 1 \in DOMAIN hello[p] /\ Tail(hello[p])[i] = hello[p][i + 1]
    BY <1>3, <2>2, TailAll
  <2>4. 1 \in DOMAIN hello[p] /\ Head(hello[p]) = hello[p][1]
    BY <1>3, <2>2
  <2>5. QED
    BY <1>2, <2>2, <2>3, <2>4 DEF Offered
<1>5. /\ phase'[q] = phase[q]
      /\ \/ phase'[p] = "offering"
         \/ Offered(p) /\ RoleIn(p, num[p]) = "thief" /\ phase'[p] = "moving"
         \/ Offered(p) /\ RoleIn(p, num[p]) # "thief" /\ phase'[p] = "waiting"
  BY <1>1, <1>2, <1>3, <1>4 DEF ReadOffer, Agrees, Goes, TypeOK
<1> HIDE DEF q
<1>6. InWindow(p)'
  <2>1. Local(p) /\ Sent(p) /\ made[p] = 0 /\ seen[p] = <<>>
    BY <1>2, <1>3 DEF InWindow, Local
  <2>2. Local(p)'
    <3>1. Len(seen[p]) = 0 /\ 0 < Steps /\ 0 + 1 = 0 + 1
      BY <2>1, SeriesAssumption
    <3>2. QED
      BY <1>2, <1>5, <2>1, <3>1 DEF Local, Taken, Playing
  <2>3. Sent(p)'
    BY <1>2, <2>1, SentKept
  <2>4. ASSUME Deserted(p)' PROVE Mute(p)'
    <3>1. Mute(p)
      BY <1>2, <1>5, <2>4, DesertedAlike DEF InWindow, q
    <3>2. QED
      BY <1>2, <1>3, <1>4, <1>5, <3>1 DEF Mute, Heard
  <2>5. QED
    BY <1>2, <2>2, <2>3, <2>4 DEF InWindow
<1>7. InWindow(q)'
  <2>1. Local(q)' /\ Sent(q)'
    BY <1>1, <1>2, <1>5, LocalKept, SentKept DEF InWindow, Still
  <2>2. ASSUME Deserted(q)' PROVE Mute(q)'
    <3>1. Deserted(q)
      BY <1>1, <1>2, <1>5, <2>2, DesertedAlike
    <3>2. QED
      BY <1>1, <1>2, <1>4, <1>5, <3>1, MuteKept DEF InWindow, Still
  <2>3. QED
    BY <1>2, <2>1, <2>2 DEF InWindow
<1>8. QED
  BY <1>1, <1>6, <1>7

LEMMA ReofferInWindow ==
    ASSUME IInv, \A x \in Peers : InWindow(x), NEW p \in Peers, Reoffer(p)
    PROVE  \A x \in Peers : InWindow(x)'
<1> DEFINE q == Other(p)
<1>1. q \in Peers /\ q # p /\ Other(q) = p /\ \A x \in Peers : x = p \/ x = q
  BY PeerFacts
<1>2. TypeOK /\ InWindow(p) /\ InWindow(q) /\ UNCHANGED <<phase, num, turns, made, seen, late>>
  BY <1>1 DEF IInv, Reoffer, game
<1>3. phase[p] = "offering" /\ num[p] \in 1 .. Games /\ num[q] \in Nat
  BY <1>1, <1>2 DEF Reoffer, IInv, Opened, TypeOK
<1>4. /\ \A i \in DOMAIN hello'[p] : i \in DOMAIN hello[p] /\ hello'[p][i] = hello[p][i]
      /\ \A i \in DOMAIN hello'[q] :
           hello'[q][i] = num[p] \/ (i \in DOMAIN hello[q] /\ hello'[q][i] = hello[q][i])
  <2>1. hello \in [Peers -> Seq(1 .. Games)]
    BY <1>2 DEF TypeOK
  <2>2. \/ hello' = Put(hello, q, num[p]) \/ hello' = PutTwice(hello, q, num[p])
        \/ hello' = hello
    BY DEF Reoffer, Offer
  <2> HIDE DEF q
  <2>3. PutLeaves(1 .. Games, hello, q, num[p], hello') \/ hello' = hello
    BY <1>1, <1>3, <2>1, <2>2, PutAll
  <2>4. QED
    BY <1>1, <2>3 DEF PutLeaves
<1> HIDE DEF q
<1>5. ASSUME NEW x \in Peers, x = q => num[q] # num[p] \/ ~Deserted(q)
      PROVE  InWindow(x)'
  <2>1. Local(x)' /\ Sent(x)' /\ Local(x)
    BY <1>2, LocalKept, SentKept DEF InWindow, Still
  <2>2. ASSUME Deserted(x)' PROVE Mute(x)'
    <3>1. Deserted(x)
      BY <1>2, <2>2, DesertedAlike
    <3>2. Offered(x)' => Offered(x)
      BY <1>1, <1>2, <1>3, <1>4, <1>5, <3>1 DEF Offered
    <3>3. QED
      BY <1>2, <3>1, <3>2, MuteKept DEF InWindow, Still
  <2>3. QED
    BY <1>2, <2>1, <2>2 DEF InWindow
<1>6. num[q] # num[p] \/ ~Deserted(q)
  BY <1>1, <1>3 DEF Deserted
<1>7. QED
  BY <1>5, <1>6

\* A peer moves only in a window that the other has not left; the other then
\* has answered every step before this one and does not move as well.
LEMMA MoveFacts ==
    ASSUME IInv, \A x \in Peers : InWindow(x), NEW p \in Peers, phase[p] = "moving"
    PROVE  /\ num[Other(p)] = num[p]
           /\ phase[Other(p)] \in {"offering", "waiting", "aborted"}
           /\ made[p] = Len(seen[Other(p)])
           /\ phase[Other(p)] = "offering" => RoleIn(p, num[p]) = "thief"
<1> DEFINE q == Other(p)
<1>1. q \in Peers /\ q # p /\ Other(q) = p
  BY PeerFacts
<1>2. TypeOK /\ InWindow(p) /\ InWindow(q)
  BY <1>1 DEF IInv
<1>3. ~Deserted(p)
  BY <1>2 DEF InWindow, Mute
<1>4. num[p] \in Nat /\ num[q] \in Nat /\ num[p] <= num[q]
  BY <1>1, <1>2, Sizes DEF IInv, Met
<1>5. num[q] = num[p] /\ phase[q] \notin {"over", "auditing", "idle", "finished"}
  BY <1>3, <1>4 DEF Deserted
<1>6. phase[q] \in {"offering", "moving", "waiting", "aborted"}
  BY <1>1, <1>2, <1>5 DEF TypeOK, Phases
<1>7. /\ made[p] \in Nat /\ made[q] \in Nat /\ Len(seen[p]) \in Nat /\ Len(seen[q]) \in Nat
      /\ Len(seen[p]) <= made[q] /\ Len(seen[q]) <= made[p]
  BY <1>1, <1>2, <1>5, Sizes DEF InWindow, Sent
<1>8. /\ RoleIn(p, num[p]) = "thief" => made[p] = Len(seen[p])
      /\ RoleIn(p, num[p]) # "thief" => made[p] + 1 = Len(seen[p])
  BY <1>2 DEF InWindow, Local, Taken
<1>9. (RoleIn(p, num[p]) = "thief") # (RoleIn(q, num[q]) = "thief")
  BY <1>5 DEF RoleIn, Other, Peers, q
<1>10. CASE phase[q] \in {"offering", "aborted"}
  <2>1. made[q] = 0 /\ seen[q] = <<>>
    BY <1>2, <1>10 DEF InWindow, Local
  <2>2. Len(seen[p]) = 0 /\ Len(seen[q]) = 0
    BY <1>7, <2>1
  <2>3. RoleIn(p, num[p]) = "thief" /\ made[p] = 0
    BY <1>7, <1>8, <2>2
  <2>4. QED
    BY <1>5, <1>10, <2>2, <2>3
<1>11. CASE phase[q] \in {"moving", "waiting"}
  <2>1. /\ phase[q] = "moving" /\ RoleIn(q, num[q]) = "thief" => made[q] = Len(seen[q])
        /\ phase[q] = "moving" /\ RoleIn(q, num[q]) # "thief" => made[q] + 1 = Len(seen[q])
        /\ phase[q] = "waiting" /\ RoleIn(q, num[q]) = "thief" => made[q] = Len(seen[q]) + 1
        /\ phase[q] = "waiting" /\ RoleIn(q, num[q]) # "thief" => made[q] + 1 = Len(seen[q]) + 1
    BY <1>2 DEF InWindow, Local, Taken
  <2>2. phase[q] # "moving"
    BY <1>7, <1>8, <1>9, <2>1
  <2>3. made[p] = Len(seen[q])
    BY <1>7, <1>8, <1>9, <1>11, <2>1, <2>2
  <2>4. QED
    BY <1>5, <1>11, <2>2, <2>3
<1>12. QED
  BY <1>6, <1>10, <1>11

\* The peer that hears the other stop in its window has heard it all.
LEMMA StopsMute ==
    ASSUME IInv, \A x \in Peers : InWindow(x), NEW p \in Peers, phase[p] = "moving"
    PROVE  Mute(Other(p))
<1> DEFINE q == Other(p)
<1>1. q \in Peers /\ q # p /\ Other(q) = p
  BY PeerFacts
<1>2. TypeOK /\ InWindow(p) /\ InWindow(q)
  BY <1>1 DEF IInv
<1>3. /\ num[q] = num[p] /\ phase[q] \in {"offering", "waiting", "aborted"}
      /\ made[p] = Len(seen[q])
      /\ phase[q] = "offering" => RoleIn(p, num[p]) = "thief"
  BY MoveFacts
<1>4. ASSUME NEW i \in DOMAIN turns[q] PROVE Heard(q, turns[q][i])
  BY <1>1, <1>2, <1>3 DEF InWindow, Sent, Heard
<1>5. RoleIn(p, num[p]) = "thief" => RoleIn(q, num[q]) = "police"
  BY <1>3 DEF RoleIn, Other, Peers, q
<1>6. QED
  BY <1>3, <1>4, <1>5 DEF Mute

LEMMA MoveInWindow ==
    ASSUME IInv, \A x \in Peers : InWindow(x), NEW p \in Peers, Move(p), ~Fault("late")
    PROVE  \A x \in Peers : InWindow(x)'
<1> DEFINE q == Other(p)
           m == [win |-> num[p], step |-> made[p] + 1, from |-> RoleIn(p, num[p])]
<1>1. q \in Peers /\ q # p /\ Other(q) = p /\ \A x \in Peers : x = p \/ x = q
  BY PeerFacts
<1>2. TypeOK /\ InWindow(p) /\ InWindow(q) /\ UNCHANGED <<num, hello, seen, late>>
  BY <1>1 DEF IInv, Move
<1>3. /\ num[q] = num[p] /\ phase[q] \in {"offering", "waiting", "aborted"}
      /\ made[p] = Len(seen[q])
      /\ made[p] \in Nat /\ Len(seen[p]) \in Nat /\ Mute(q) /\ phase[p] = "moving"
  BY <1>1, <1>2, MoveFacts, StopsMute, Sizes DEF Move
<1>4. /\ turns' = Put(turns, q, m) \/ turns' = PutTwice(turns, q, m)
      /\ Last(m) => Goes(p, "over")
      /\ ~Last(m) => Goes(p, "waiting")
      /\ made' = [made EXCEPT ![p] = made[p] + 1]
  BY DEF Move, Ends
<1>5. m \in Turns /\ m.win = num[p] /\ m.step = made[p] + 1 /\ m.from = RoleIn(p, num[p])
  BY <1>1, <1>2, <1>3, Sizes, PeerFacts DEF Turns
<1> HIDE DEF m, q
<1>6. /\ \A i \in DOMAIN turns'[p] : i \in DOMAIN turns[p] /\ turns'[p][i] = turns[p][i]
      /\ \A i \in DOMAIN turns'[q] :
           turns'[q][i] = m \/ (i \in DOMAIN turns[q] /\ turns'[q][i] = turns[q][i])
  <2>1. turns \in [Peers -> Seq(Turns)]
    BY <1>2 DEF TypeOK
  <2>2. PutLeaves(Turns, turns, q, m, turns')
    BY <1>1, <1>4, <1>5, <2>1, PutAll
  <2>3. QED
    BY <1>1, <2>2 DEF PutLeaves
<1>7. /\ phase'[q] = phase[q] /\ made'[q] = made[q] /\ made'[p] = made[p] + 1
      /\ Last(m) => phase'[p] = "over"
      /\ ~Last(m) => phase'[p] = "waiting"
  BY <1>1, <1>2, <1>4 DEF Goes, TypeOK
<1>8. InWindow(p)'
  <2>1. Local(p) /\ Sent(p)
    BY <1>2 DEF InWindow
  <2>2. Local(p)'
    <3>1. \A i \in DOMAIN turns'[p] :
            /\ turns'[p][i].win = num[p] /\ turns'[p][i].from = RoleIn(q, num[p])
            /\ turns'[p][i].step \in 1 .. Len(seen[p]) + 1
      BY <1>6, <2>1 DEF Local, q
    <3>2. phase'[p] = "waiting" => Taken(p)' = Len(seen[p]) + 1
      BY <1>2, <1>3, <1>7, <2>1 DEF Local, Taken
    <3>3. phase'[p] = "waiting" /\ RoleIn(p, num[p]) = "thief" => made'[p] < Steps
      <4>1. RoleIn(p, num[p]) = "thief" => made[p] < Steps
        BY <1>3, <2>1 DEF Local, Playing
      <4>2. ~Last(m) /\ RoleIn(p, num[p]) = "thief" => made[p] + 1 # Steps
        BY <1>5 DEF Last
      <4>3. QED
        BY <1>3, <1>7, <4>1, <4>2, SeriesAssumption
    <3>4. \A i \in DOMAIN seen[p] : seen[p][i] = num[p]
      BY <2>1 DEF Local
    <3>5. QED
      BY <1>2, <1>7, <3>1, <3>2, <3>3, <3>4 DEF Local, Playing, q
  <2>3. Sent(p)'
    BY <1>2, <1>6, <1>7, <2>1 DEF Sent, q
  <2>4. ~Deserted(p)'
    BY <1>2, <1>3, <1>7, Sizes DEF Deserted, q
  <2>5. QED
    BY <1>2, <2>2, <2>3, <2>4 DEF InWindow
<1>9. InWindow(q)'
  <2>1. Local(q) /\ Sent(q)
    BY <1>2 DEF InWindow
  <2>2. Local(q)'
    <3>1. \A i \in DOMAIN turns'[q] :
            /\ turns'[q][i].win = num[q] /\ turns'[q][i].from = RoleIn(Other(q), num[q])
            /\ turns'[q][i].step \in 1 .. Len(seen[q]) + 1
      BY <1>1, <1>3, <1>5, <1>6, <2>1 DEF Local
    <3>2. QED
      BY <1>2, <1>7, <2>1, <3>1 DEF Local, Taken, Playing
  <2>3. Sent(q)'
    <3>1. \A i \in DOMAIN turns'[q] :
            turns'[q][i].win <= num[p] /\ turns'[q][i].step <= made[p] + 1
      <4>1. ASSUME NEW i \in DOMAIN turns[q]
            PROVE  turns[q][i].win <= num[p] /\ turns[q][i].step <= made[p] + 1
        BY <1>1, <1>2, <1>3, <2>1, Sizes DEF Sent
      <4>2. m.win <= num[p] /\ m.step <= made[p] + 1
        BY <1>1, <1>2, <1>3, <1>5, Sizes
      <4>3. QED
        BY <1>6, <4>1, <4>2
    <3>2. Len(seen[q]) <= made[p] + 1
      BY <1>3
    <3>3. QED
      BY <1>1, <1>2, <1>7, <3>1, <3>2 DEF Sent
  <2>4. ASSUME Deserted(q)' PROVE Mute(q)'
    <3>1. Last(m)
      BY <1>1, <1>2, <1>3, <1>7, <2>4, Sizes DEF Deserted
    <3>2. \A i \in DOMAIN turns'[q] :
            (\E j \in DOMAIN turns[q] : turns'[q][i] = turns[q][j]) \/ Last(turns'[q][i])
      BY <1>6, <3>1
    <3>3. QED
      BY <1>2, <1>3, <1>7, <3>2 DEF Mute, Heard, Offered
  <2>5. QED
    BY <1>2, <2>2, <2>3, <2>4 DEF InWindow
<1>10. QED
  BY <1>1, <1>8, <1>9

LEMMA RaisesInWindow ==
    ASSUME IInv, \A x \in Peers : InWindow(x), NEW p \in Peers, Raises(p)
    PROVE  \A x \in Peers : InWindow(x)'
<1> DEFINE q == Other(p)
<1>1. q \in Peers /\ q # p /\ Other(q) = p /\ \A x \in Peers : x = p \/ x = q
  BY PeerFacts
<1>2. /\ TypeOK /\ InWindow(p) /\ InWindow(q)
      /\ UNCHANGED <<num, hello, turns, made, seen, late>>
  BY <1>1 DEF IInv, Raises, inboxes
<1>3. phase[p] = "moving" /\ phase'[p] = "over" /\ phase'[q] = phase[q] /\ ~Deserted(p)
  BY <1>1, <1>2 DEF Raises, Ends, Goes, TypeOK, InWindow, Mute
<1>4. Mute(q)
  BY <1>3, StopsMute
<1> HIDE DEF q
<1>5. Local(p)' /\ Local(q)'
  BY <1>1, <1>2, <1>3 DEF InWindow, Local, Taken, Playing
<1>6. Sent(p)' /\ Sent(q)'
  BY <1>1, <1>2, SentKept DEF InWindow
<1>7. ~Deserted(p)'
  BY <1>2, <1>3, DesertedAlike DEF q
<1>8. Mute(q)'
  BY <1>1, <1>2, <1>3, <1>4, MuteKept DEF Still, Offered
<1>9. QED
  BY <1>1, <1>2, <1>5, <1>6, <1>7, <1>8 DEF InWindow

\* A turn that is read is a repetition or the next one, of this window.
LEMMA ReadTurnDoes ==
    ASSUME NEW p \in Peers, IInv, InWindow(p), ReadTurn(p)
    PROVE  /\ phase[p] = "waiting" /\ UNCHANGED <<num, hello, audits, made, rows, late>>
           /\ seen[p] \in Seq(Nat) /\ DOMAIN seen[p] = 1 .. Len(seen[p])
           /\ \A x \in Peers : x # p => /\ turns'[x] = turns[x] /\ seen'[x] = seen[x]
                                        /\ phase'[x] = phase[x] /\ outcome'[x] = outcome[x]
           /\ outcome'[p] \in {"played", outcome[p]}
           /\ Behind(turns[p], turns'[p])
           /\ Head(turns[p]).win = num[p]
           /\ Head(turns[p]).from = RoleIn(Other(p), num[p])
           /\ Head(turns[p]).step \in 1 .. Len(seen[p]) + 1
           /\ \/ /\ ~Heard(p, Head(turns[p])) /\ Head(turns[p]).step = Len(seen[p]) + 1
                 /\ seen'[p] = Append(seen[p], num[p])
                 /\ Last(Head(turns[p])) => phase'[p] = "over"
                 /\ ~Last(Head(turns[p])) => phase'[p] = "moving"
              \/ /\ Heard(p, Head(turns[p]))
                 /\ seen'[p] = seen[p] /\ phase'[p] = "waiting"
<1> DEFINE m == Head(turns[p])
<1>1. TypeOK /\ UNCHANGED <<num, hello, audits, made, rows, late>> /\ Local(p)
  BY DEF IInv, ReadTurn, InWindow
<1>2. /\ phase[p] = "waiting" /\ turns[p] # <<>> /\ turns \in [Peers -> Seq(Turns)]
      /\ turns' = Take(turns, p)
      /\ seen[p] \in Seq(Nat) /\ Len(seen[p]) \in Nat /\ DOMAIN seen[p] = 1 .. Len(seen[p])
  BY <1>1, Sizes DEF ReadTurn, TypeOK
<1>3. Behind(turns[p], turns'[p]) /\ \A x \in Peers : x # p => turns'[x] = turns[x]
  BY <1>2, TakenFrom
<1>4. /\ m.win = num[p] /\ m.from = RoleIn(Other(p), num[p])
      /\ m.step \in 1 .. Len(seen[p]) + 1
  BY <1>1, <1>3 DEF Local, Behind
<1>5. Heard(p, m) => ~Contradicts(p, m)
  <2>1. ASSUME m.step \in DOMAIN seen[p] PROVE seen[p][m.step] = m.win
    BY <1>1, <1>4, <2>1 DEF Local
  <2>2. QED
    BY <2>1 DEF Contradicts
<1>6. ~Heard(p, m) => Good(p, m) /\ m.step = Len(seen[p]) + 1
  <2>1. ~Heard(p, m) => m.step = Len(seen[p]) + 1
    BY <1>2, <1>4 DEF Heard
  <2>2. QED
    BY <1>4, <2>1 DEF Good
<1>7. \/ /\ ~Heard(p, m)
         /\ seen' = [seen EXCEPT ![p] = Append(seen[p], m.win)]
         /\ Last(m) => Goes(p, "over")
         /\ ~Last(m) => Goes(p, "moving")
         /\ outcome' = [outcome EXCEPT ![p] = "played"] \/ UNCHANGED outcome
      \/ Heard(p, m) /\ UNCHANGED <<phase, seen, outcome>>
  <2> HIDE DEF m
  <2>1. \/ /\ ~Heard(p, m) /\ Good(p, m)
           /\ seen' = [seen EXCEPT ![p] = Append(seen[p], m.win)]
           /\ IF Last(m) THEN Ends(p, "played") ELSE Goes(p, "moving") /\ UNCHANGED outcome
        \/ Heard(p, m) /\ UNCHANGED <<phase, outcome, seen>>
        \/ IF Heard(p, m) THEN Contradicts(p, m) ELSE ~Good(p, m)
    BY DEF ReadTurn, m
  <2>2. QED
    BY <1>5, <1>6, <2>1 DEF Ends
<1> HIDE DEF m
<1>8. /\ \/ /\ ~Heard(p, m) /\ m.step = Len(seen[p]) + 1
            /\ seen'[p] = Append(seen[p], num[p])
            /\ Last(m) => phase'[p] = "over"
            /\ ~Last(m) => phase'[p] = "moving"
         \/ Heard(p, m) /\ seen'[p] = seen[p] /\ phase'[p] = "waiting"
      /\ \A x \in Peers : x # p => /\ seen'[x] = seen[x] /\ phase'[x] = phase[x]
                                   /\ outcome'[x] = outcome[x]
      /\ outcome'[p] \in {"played", outcome[p]}
  <2>1. phase \in [Peers -> Phases] /\ seen \in [Peers -> Seq(Nat)]
        /\ outcome \in [Peers -> Outcomes]
    BY <1>1 DEF TypeOK
  <2>2. CASE Heard(p, m) /\ UNCHANGED <<phase, seen, outcome>>
    BY <1>2, <2>2
  <2>3. CASE ~Heard(p, m) /\ seen' = [seen EXCEPT ![p] = Append(seen[p], m.win)]
    BY <1>4, <1>6, <1>7, <2>1, <2>3 DEF Goes
  <2>4. QED
    BY <1>7, <2>2, <2>3
<1>9. QED
  BY <1>1, <1>2, <1>3, <1>4, <1>8 DEF m

\* The thief that has sent its last step moves no more.
LEMMA ReadTurnInWindow ==
    ASSUME IInv, \A x \in Peers : InWindow(x), NEW p \in Peers, ReadTurn(p)
    PROVE  \A x \in Peers : InWindow(x)'
<1> DEFINE q == Other(p)
           m == Head(turns[p])
<1>1. q \in Peers /\ q # p /\ Other(q) = p /\ \A x \in Peers : x = p \/ x = q
  BY PeerFacts
<1>2. TypeOK /\ InWindow(p) /\ InWindow(q) /\ UNCHANGED <<num, hello, made, late>>
  BY <1>1 DEF IInv, ReadTurn
<1>3. /\ phase[p] = "waiting"
      /\ seen[p] \in Seq(Nat) /\ Len(seen[p]) \in Nat /\ DOMAIN seen[p] = 1 .. Len(seen[p])
  BY <1>1, <1>2, Sizes DEF ReadTurn
<1>4. turns'[q] = turns[q] /\ seen'[q] = seen[q] /\ phase'[q] = phase[q]
  BY <1>1, <1>2, ReadTurnDoes
<1>5. /\ \A i \in DOMAIN turns'[p] : i + 1 \in DOMAIN turns[p] /\ turns'[p][i] = turns[p][i + 1]
      /\ 1 \in DOMAIN turns[p] /\ m = turns[p][1]
  BY <1>1, <1>2, ReadTurnDoes DEF Behind
<1>6. Local(p) /\ Sent(p)
  BY <1>2 DEF InWindow
<1>7. /\ m.win = num[p] /\ m.from = RoleIn(q, num[p])
      /\ m.step \in 1 .. Len(seen[p]) + 1
  BY <1>5, <1>6 DEF Local
<1>8. \/ /\ ~Heard(p, m) /\ m.step = Len(seen[p]) + 1
         /\ seen'[p] = Append(seen[p], num[p])
         /\ Last(m) => phase'[p] = "over"
         /\ ~Last(m) => phase'[p] = "moving"
      \/ seen'[p] = seen[p] /\ phase'[p] = "waiting"
  BY <1>2, ReadTurnDoes
<1> HIDE DEF q, m
<1>9. /\ Len(seen'[p]) \in Nat /\ Len(seen[p]) <= Len(seen'[p])
      /\ (\A i \in DOMAIN seen'[p] : seen'[p][i] = num[p])
      /\ phase'[p] = "moving" => Len(seen'[p]) = Len(seen[p]) + 1
      /\ seen'[p] # seen[p] => Len(seen'[p]) = m.step
  <2>1. CASE seen'[p] = seen[p] /\ phase'[p] = "waiting"
    <3>1. \A i \in DOMAIN seen'[p] : seen'[p][i] = num[p]
      BY <1>6, <2>1 DEF Local
    <3>2. Len(seen'[p]) = Len(seen[p])
      BY <2>1
    <3>3. QED
      BY <1>3, <2>1, <3>1, <3>2
  <2>2. CASE seen'[p] = Append(seen[p], num[p]) /\ m.step = Len(seen[p]) + 1
    <3>1. /\ DOMAIN Append(seen[p], num[p]) = 1 .. Len(seen[p]) + 1
          /\ Len(Append(seen[p], num[p])) = Len(seen[p]) + 1
          /\ Append(seen[p], num[p])[Len(seen[p]) + 1] = num[p]
          /\ \A i \in DOMAIN seen[p] : Append(seen[p], num[p])[i] = seen[p][i]
      BY <1>1, <1>2, <1>3, Sizes
    <3>2. \A i \in DOMAIN seen'[p] : seen'[p][i] = num[p]
      BY <1>3, <1>6, <2>2, <3>1 DEF Local
    <3>3. Len(seen'[p]) = Len(seen[p]) + 1
      BY <2>2, <3>1
    <3>4. QED
      BY <1>3, <2>2, <3>2, <3>3
  <2>3. QED
    BY <1>8, <2>1, <2>2
<1>10. \A i \in DOMAIN turns'[p] :
         /\ turns'[p][i].win = num[p] /\ turns'[p][i].from = RoleIn(q, num[p])
         /\ turns'[p][i].step \in 1 .. Len(seen[p]) + 1
  BY <1>5, <1>6 DEF Local, q
<1>11. Local(p)'
  <2>1. \A i \in DOMAIN turns'[p] : turns'[p][i].step \in 1 .. Len(seen'[p]) + 1
    BY <1>3, <1>9, <1>10
  <2>2. phase'[p] = "moving" => Taken(p)' = Len(seen'[p])
    BY <1>2, <1>3, <1>6, <1>9 DEF Local, Taken
  <2>3. phase'[p] = "waiting" => Taken(p)' = Len(seen'[p]) + 1
    <3>1. phase'[p] = "waiting" => seen'[p] = seen[p]
      BY <1>8
    <3>2. QED
      BY <1>2, <1>3, <1>6, <3>1 DEF Local, Taken
  <2>4. RoleIn(p, num[p]) = "thief" => made[p] < Steps
    BY <1>3, <1>6 DEF Local, Playing
  <2>5. phase'[p] \notin {"offering", "aborted"}
    BY <1>8
  <2>6. QED
    BY <1>2, <1>9, <1>10, <2>1, <2>2, <2>3, <2>4, <2>5 DEF Local, Playing, q
<1>12. Sent(p)'
  <2>1. ASSUME num[p] = num[q] PROVE Len(seen'[p]) <= made[q]
    BY <1>5, <1>6, <1>9, <2>1 DEF Sent, q
  <2>2. QED
    BY <1>2, <1>5, <1>6, <2>1 DEF Sent, q
<1>13. ASSUME Deserted(p)' PROVE Mute(p)'
  <2>1. Mute(p)
    BY <1>2, <1>4, <1>13, DesertedAlike DEF InWindow, q
  <2>2. \A i \in DOMAIN turns[p] : Heard(p, turns[p][i]) \/ Last(turns[p][i])
    BY <1>3, <2>1 DEF Mute
  <2>3. CASE seen'[p] = seen[p] /\ phase'[p] = "waiting"
    BY <1>5, <2>2, <2>3 DEF Mute, Heard
  <2>4. CASE ~Heard(p, m) /\ (Last(m) => phase'[p] = "over")
    BY <1>5, <2>2, <2>4 DEF Mute
  <2>5. QED
    BY <1>8, <2>3, <2>4
<1>14. ASSUME Deserted(q)' PROVE Mute(q)'
  <2>1. CASE Deserted(q)
    BY <1>1, <1>2, <1>4, <2>1, MuteKept DEF InWindow, Still, Offered
  <2>2. CASE ~Deserted(q)
    <3>1. num[p] = num[q] /\ phase'[p] \in {"over", "auditing", "idle", "finished"}
      BY <1>1, <1>2, <1>14, <2>2 DEF Deserted
    <3>2. Last(m)
      BY <1>8, <3>1
    <3>3. RoleIn(q, num[q]) = "thief" /\ m.step = Steps
      BY <1>7, <3>1, <3>2 DEF Last
    <3>4. m.step <= made[q]
      BY <1>5, <1>6, <3>1 DEF Sent, q
    <3>5. made[q] \in Nat
      BY <1>1, <1>2, Sizes
    <3>6. phase[q] \notin {"moving", "waiting", "offering"}
      BY <1>2, <3>3, <3>4, <3>5, SeriesAssumption DEF InWindow, Local, Playing
    <3>7. QED
      BY <1>4, <3>6 DEF Mute
  <2>3. QED
    BY <2>1, <2>2
<1>15. Local(q)' /\ Sent(q)'
  BY <1>1, <1>2, <1>4, LocalKept, SentKept DEF InWindow, Still
<1>16. QED
  BY <1>1, <1>2, <1>11, <1>12, <1>13, <1>14, <1>15 DEF InWindow

\* A peer that gives up waiting has nobody left who could speak.
LEMMA TimeoutInWindow ==
    ASSUME IInv, \A x \in Peers : InWindow(x), NEW p \in Peers, TurnTimeout(p),
           ~Fault("slow")
    PROVE  \A x \in Peers : InWindow(x)'
<1> DEFINE q == Other(p)
<1>1. q \in Peers /\ q # p /\ Other(q) = p /\ \A x \in Peers : x = p \/ x = q
  BY PeerFacts
<1>2. /\ TypeOK /\ InWindow(p) /\ InWindow(q)
      /\ UNCHANGED <<num, hello, turns, made, seen, late>>
  BY <1>1 DEF IInv, TurnTimeout, inboxes
<1>3. ~MaySpeak(p) /\ phase'[p] = "over" /\ phase'[q] = phase[q]
  BY <1>1, <1>2 DEF TurnTimeout, Ends, Goes, TypeOK
<1>4. Local(p)' /\ Local(q)'
  BY <1>1, <1>2, <1>3 DEF InWindow, Local, Taken, Playing
<1>5. Sent(p)' /\ Sent(q)'
  BY <1>1, <1>2, SentKept DEF InWindow
<1>6. Mute(p)'
  BY <1>3 DEF Mute
<1>7. ASSUME Deserted(q)' PROVE Mute(q)'
  <2>1. CASE Deserted(q)
    BY <1>1, <1>2, <1>3, <2>1, MuteKept DEF InWindow, Still, Offered
  <2>2. CASE ~Deserted(q)
    <3>1. num[q] = num[p]
      BY <1>1, <1>2, <1>3, <1>7, <2>2 DEF Deserted
    <3>2. /\ phase[q] # "moving"
          /\ phase[q] = "waiting" => turns[q] = <<>>
          /\ phase[q] = "offering" => ~Offered(q)
      BY <1>3, <3>1 DEF MaySpeak
    <3>3. QED
      BY <1>1, <1>2, <1>3, <3>2 DEF Mute, Offered
  <2>3. QED
    BY <2>1, <2>2
<1>8. QED
  BY <1>1, <1>2, <1>4, <1>5, <1>6, <1>7 DEF InWindow

\* What follows the turn loop, and a series that is given up, change nothing
\* in a window.
LEMMA AfterInWindow ==
    ASSUME IInv, \A x \in Peers : InWindow(x), NEW p \in Peers, ~Fault("late"),
           \/ HandshakeDeadline(p) \/ Reveal(p) \/ ReadAudit(p) \/ AuditTimeout(p)
           \/ EndSeries(p)
    PROVE  \A x \in Peers : InWindow(x)'
<1> DEFINE q == Other(p)
           through == {"over", "auditing", "idle", "finished"}
<1>1. q \in Peers /\ q # p /\ Other(q) = p /\ \A x \in Peers : x = p \/ x = q
  BY PeerFacts
<1>2. /\ TypeOK /\ InWindow(p) /\ InWindow(q)
      /\ UNCHANGED <<num, hello, turns, made, seen, late>>
  BY <1>1 DEF IInv, HandshakeDeadline, Reveal, ReadAudit, AuditTimeout, EndSeries, inboxes, game
<1>3. /\ phase'[q] = phase[q]
      /\ \/ phase[p] = "offering" /\ phase'[p] = "aborted"
         \/ phase[p] \in through /\ phase'[p] \in through
  BY <1>1, <1>2 DEF HandshakeDeadline, Reveal, ReadAudit, AuditTimeout, EndSeries, Settles,
                    Goes, TypeOK
<1>4. Local(p)' /\ Local(q)'
  BY <1>1, <1>2, <1>3 DEF InWindow, Local, Taken, Playing
<1>5. Sent(p)' /\ Sent(q)'
  BY <1>1, <1>2, SentKept DEF InWindow
<1>6. Mute(p)'
  BY <1>3 DEF Mute
<1>7. ASSUME Deserted(q)' PROVE Mute(q)'
  <2>1. Deserted(q)
    BY <1>1, <1>2, <1>3, <1>7, DesertedAlike
  <2>2. QED
    BY <1>1, <1>2, <1>3, <2>1, MuteKept DEF InWindow, Still, Offered
<1>8. QED
  BY <1>1, <1>2, <1>4, <1>5, <1>6, <1>7 DEF InWindow

LEMMA StepFaults ==
    ASSUME [Next]_vars
    PROVE  UNCHANGED faults \/ \E k : Fault(k)
  BY DEF Next, Step, Stopped, Arrives, ReadOffer, Reoffer, HandshakeDeadline, Move, Raises,
         ReadTurn, TurnTimeout, Reveal, ReadAudit, AuditTimeout, EndSeries, StartSubGame,
         Offer, vars

LEMMA NextWindowInv == IInv /\ Close /\ WindowInv /\ [Next]_vars => WindowInv'
<1> DEFINE bad == {"late", "slow"}
<1> SUFFICES ASSUME IInv, Close, WindowInv, [Next]_vars, ~Happened(bad)'
             PROVE  \A x \in Peers : InWindow(x)'
  BY DEF WindowInv
<1>1. ~Happened(bad) /\ ~Fault("late") /\ ~Fault("slow")
  BY FaultGrows, StepFaults DEF IInv
<1>2. \A x \in Peers : InWindow(x)
  BY <1>1 DEF WindowInv
<1>3. ASSUME NEW p \in Peers, Step(p) PROVE \A x \in Peers : InWindow(x)'
  BY <1>1, <1>2, <1>3, StartInWindow, ReadOfferInWindow, ReofferInWindow, MoveInWindow,
     RaisesInWindow, ReadTurnInWindow, TimeoutInWindow, AfterInWindow DEF Step
<1>4. ASSUME NEW p \in Peers, Arrives(p) PROVE FALSE
  BY <1>2, <1>4 DEF Arrives, InWindow
<1>5. CASE UNCHANGED vars
  BY <1>2, <1>5 DEF vars, inboxes, game, InWindow, Local, Sent, Deserted, Mute, Taken,
                    Playing, Offered, Heard
<1>6. QED
  BY <1>3, <1>4, <1>5 DEF Next, Stopped

LEMMA InitWindowInv == Init => Close /\ WindowInv
<1> SUFFICES ASSUME Init PROVE Close /\ \A p \in Peers : InWindow(p)
  BY DEF WindowInv
<1> SUFFICES ASSUME NEW p \in Peers
             PROVE  num[Other(p)] <= num[p] + 1 /\ InWindow(p)
  BY DEF Close
<1>1. Other(p) \in Peers /\ phase[p] = "idle" /\ seen[p] = <<>> /\ turns[p] = <<>>
      /\ late[p] = {} /\ made[Other(p)] = 0 /\ num[p] = 0 /\ num[Other(p)] = 0
  BY PeerFacts DEF Init
<1>2. Local(p)
  BY <1>1 DEF Local, Playing
<1>3. Sent(p)
  BY <1>1 DEF Sent
<1>4. Mute(p)
  BY <1>1 DEF Mute
<1>5. QED
  BY <1>1, <1>2, <1>3, <1>4 DEF InWindow

-----------------------------------------------------------------------------
(* Why both peers report the same: first, the offers.                      *)

LEMMA QueuedStays ==
    ASSUME \A x \in Peers : Queued(x), UNCHANGED <<hello, num>>,
           \A x \in Peers : phase'[x] = "offering" => phase[x] = "offering"
    PROVE  \A x \in Peers : Queued(x)'
  BY DEF Queued, Offered

LEMMA QueuedPut ==
    ASSUME TypeOK, OffersBound, NEW q \in Peers, NEW n \in Nat, Queued(q),
           num'[q] = num[q], phase'[q] = phase[q], num'[Other(q)] = n,
           num[Other(q)] <= n, n <= num[Other(q)] + 1,
           Delivered(hello, q, n, hello')
    PROVE  Queued(q)'
<1>1. /\ hello[q] \in Seq(1 .. Games) /\ num[q] \in Nat /\ num[Other(q)] \in Nat
  BY PeerFacts DEF TypeOK
<1>2. DOMAIN hello[q] = 1 .. Len(hello[q]) /\ Len(hello[q]) \in Nat
      /\ \A i \in DOMAIN hello[q] : hello[q][i] \in Nat /\ hello[q][i] <= n
  BY <1>1, SeriesAssumption DEF OffersBound
<1>3. \A i, j \in DOMAIN hello'[q] : i < j => hello'[q][i] <= hello'[q][j]
  <2> SUFFICES ASSUME NEW i \in DOMAIN hello'[q], NEW j \in DOMAIN hello'[q], i < j
               PROVE  hello'[q][i] <= hello'[q][j]
    OBVIOUS
  <2>1. CASE hello'[q][j] = n
    BY <1>2, <2>1 DEF Delivered
  <2>2. CASE j \in DOMAIN hello[q] /\ hello'[q][j] = hello[q][j]
    <3>1. i \in DOMAIN hello[q] /\ hello'[q][i] = hello[q][i]
      BY <1>2, <2>2 DEF Delivered
    <3>2. QED
      BY <2>2, <3>1 DEF Queued
  <2>3. QED
    BY <2>1, <2>2 DEF Delivered
<1>4. \E i \in DOMAIN hello'[q] : hello'[q][i] = n
  BY DEF Delivered
<1>5. phase[q] = "offering" /\ n >= num[q] => Offered(q)'
  <2>1. CASE n = num[q]
    BY <1>4, <2>1 DEF Offered
  <2>2. CASE num[q] < n /\ phase[q] = "offering"
    <3>1. Offered(q)
      BY <1>1, <2>2 DEF Queued
    <3>2. QED
      BY <3>1 DEF Offered, Delivered
  <2>3. QED
    BY <1>1, <2>1, <2>2
<1>6. QED
  BY <1>3, <1>4, <1>5 DEF Queued

LEMMA StartQueued ==
    ASSUME IInv, Close, \A x \in Peers : Queued(x), NEW p \in Peers, StartSubGame(p),
           ~Fault("lost_offer")
    PROVE  \A x \in Peers : Queued(x)'
<1> DEFINE q == Other(p)
<1>1. q \in Peers /\ q # p /\ Other(q) = p /\ \A x \in Peers : x = p \/ x = q
  BY PeerFacts
<1>2. TypeOK /\ OffersBound /\ num[p] \in Nat /\ num[q] \in Nat
  BY <1>1, Sizes DEF IInv, Bounds
<1>3. num[p] + 1 \in 1 .. Games /\ hello \in [Peers -> Seq(1 .. Games)]
  <2>1. num[p] < Games /\ hello \in [Peers -> Seq(1 .. Games)]
    BY <1>2 DEF StartSubGame, TypeOK
  <2>2. QED
    BY <1>2, <2>1, SeriesAssumption
<1>4. Delivered(hello, q, num[p] + 1, hello')
  <2>1. hello' = Put(hello, q, num[p] + 1) \/ hello' = PutTwice(hello, q, num[p] + 1)
    BY DEF StartSubGame, Offer
  <2> HIDE DEF q
  <2>2. QED
    BY <1>1, <1>3, <2>1, DeliveredTo
<1>5. /\ phase'[p] = "offering" /\ phase'[q] = phase[q]
      /\ num'[p] = num[p] + 1 /\ num'[q] = num[q]
      /\ hello'[p] = hello[p]
  BY <1>1, <1>2, <1>4 DEF StartSubGame, Goes, TypeOK, Delivered
<1>6. num[q] <= num[p] + 1
  BY DEF Close
<1> HIDE DEF q
<1>7. Queued(q)'
  <2>1. num[p] <= num[p] + 1 /\ num[p] + 1 <= num[p] + 1 /\ num[p] + 1 \in Nat
    BY <1>2
  <2>2. QED
    BY <1>1, <1>2, <1>4, <1>5, <2>1, QueuedPut
<1>8. Queued(p)'
  <2>1. Queued(p)
    OBVIOUS
  <2>2. num[q] >= num[p] + 1 => num[q] = num[p] + 1 /\ num[q] > num[p]
    BY <1>2, <1>6
  <2>3. ~(num[q] > num[p] + 1)
    BY <1>2, <1>6
  <2>4. QED
    BY <1>1, <1>5, <2>1, <2>2, <2>3 DEF Queued, Offered, q
<1>9. QED
  BY <1>1, <1>7, <1>8

LEMMA ReofferQueued ==
    ASSUME IInv, \A x \in Peers : Queued(x), NEW p \in Peers, Reoffer(p),
           ~Fault("lost_offer")
    PROVE  \A x \in Peers : Queued(x)'
<1> DEFINE q == Other(p)
<1>1. q \in Peers /\ q # p /\ Other(q) = p /\ \A x \in Peers : x = p \/ x = q
  BY PeerFacts
<1>2. TypeOK /\ OffersBound /\ num[p] \in 1 .. Games /\ num[p] \in Nat
      /\ UNCHANGED <<phase, num>>
  <2>1. TypeOK /\ OffersBound /\ num[p] >= 1 /\ UNCHANGED <<phase, num>>
    BY DEF IInv, Bounds, Opened, Reoffer
  <2>2. QED
    BY <2>1 DEF TypeOK
<1>3. Delivered(hello, q, num[p], hello')
  <2>1. hello' = Put(hello, q, num[p]) \/ hello' = PutTwice(hello, q, num[p])
    BY DEF Reoffer, Offer
  <2>2. hello \in [Peers -> Seq(1 .. Games)]
    BY <1>2 DEF TypeOK
  <2> HIDE DEF q
  <2>3. QED
    BY <1>1, <1>2, <2>1, <2>2, DeliveredTo
<1> HIDE DEF q
<1>4. Queued(q)'
  <2>1. num[p] <= num[p] /\ num[p] <= num[p] + 1
    BY <1>2
  <2>2. QED
    BY <1>1, <1>2, <1>3, <2>1, QueuedPut
<1>5. Queued(p)'
  <2>1. hello'[p] = hello[p]
    BY <1>1, <1>3 DEF Delivered
  <2>2. QED
    BY <1>2, <2>1 DEF Queued, Offered
<1>6. QED
  BY <1>1, <1>4, <1>5

LEMMA ReadOfferQueued ==
    ASSUME IInv, \A x \in Peers : Queued(x), NEW p \in Peers, ReadOffer(p)
    PROVE  \A x \in Peers : Queued(x)'
<1> DEFINE q == Other(p)
<1>1. q \in Peers /\ q # p /\ Other(q) = p /\ \A x \in Peers : x = p \/ x = q
  BY PeerFacts
<1>2. /\ TypeOK /\ num[p] \in Nat /\ num[q] \in Nat /\ UNCHANGED num
      /\ hello \in [Peers -> Seq(1 .. Games)]
  BY <1>1, Sizes DEF IInv, ReadOffer, TypeOK
<1>3. hello'[q] = hello[q] /\ Behind(hello[p], hello'[p])
  <2>1. hello[p] # <<>> /\ hello' = Take(hello, p)
    BY DEF ReadOffer
  <2> HIDE DEF q
  <2>2. QED
    BY <1>1, <1>2, <2>1, TakenFrom
<1>4. /\ phase'[q] = phase[q] /\ phase[p] = "offering"
      /\ Head(hello[p]) = num[p] => phase'[p] # "offering"
  BY <1>1, <1>2 DEF ReadOffer, Agrees, Goes, TypeOK
<1> HIDE DEF q
<1>5. Queued(q)'
  BY <1>1, <1>2, <1>3, <1>4 DEF Queued, Offered
<1>6. Queued(p)'
  <2>1. Queued(p) /\ \A i \in DOMAIN hello[p] : hello[p][i] \in Nat /\ i \in Nat
    <3>1. hello[p] \in Seq(1 .. Games)
      BY <1>2
    <3>2. QED
      BY <3>1
  <2>2. \A i, j \in DOMAIN hello'[p] : i < j => hello'[p][i] <= hello'[p][j]
    <3> SUFFICES ASSUME NEW i \in DOMAIN hello'[p], NEW j \in DOMAIN hello'[p], i < j
                 PROVE  hello'[p][i] <= hello'[p][j]
      OBVIOUS
    <3>1. /\ i + 1 \in DOMAIN hello[p] /\ hello'[p][i] = hello[p][i + 1]
          /\ j + 1 \in DOMAIN hello[p] /\ hello'[p][j] = hello[p][j + 1]
      BY <1>3 DEF Behind
    <3>2. i + 1 < j + 1
      <4>1. hello'[p] \in Seq(1 .. Games)
        BY <1>2, TakeAll DEF ReadOffer
      <4>2. QED
        BY <4>1
    <3>3. QED
      BY <2>1, <3>1, <3>2 DEF Queued
  <2>3. ASSUME NEW n \in Nat, Head(hello[p]) # n, \E i \in DOMAIN hello[p] : hello[p][i] = n
        PROVE  \E i \in DOMAIN hello'[p] : hello'[p][i] = n
    BY <1>3, <2>3 DEF Behind
  <2>4. ASSUME num[q] > num[p] PROVE \E i \in DOMAIN hello'[p] : hello'[p][i] = num[q]
    <3>1. PICK i \in DOMAIN hello[p] : hello[p][i] = num[p]
      BY <1>2, <1>4, <2>1, <2>4 DEF Queued, Offered, q
    <3>2. Head(hello[p]) <= num[p]
      <4>1. i = 1 \/ 1 < i
        <5>1. hello[p] \in Seq(1 .. Games)
          BY <1>2
        <5>2. QED
          BY <5>1
      <4>2. QED
        BY <1>2, <1>3, <2>1, <3>1, <4>1 DEF Queued, Behind
    <3>3. Head(hello[p]) \in Nat
      BY <1>3, <2>1 DEF Behind
    <3>4. Head(hello[p]) # num[q]
      BY <1>2, <2>4, <3>2, <3>3
    <3>5. QED
      BY <1>2, <2>1, <2>3, <2>4, <3>4 DEF Queued, q
  <2>5. ASSUME phase'[p] = "offering", num[q] >= num[p] PROVE Offered(p)'
    <3>1. Head(hello[p]) # num[p] /\ Offered(p)
      BY <1>4, <2>1, <2>5 DEF Queued, q
    <3>2. QED
      BY <1>2, <2>3, <3>1 DEF Offered
  <2>6. QED
    BY <1>2, <2>2, <2>4, <2>5 DEF Queued, q
<1>7. QED
  BY <1>1, <1>5, <1>6

\* Nobody despairs of a window while every offer is kept.
LEMMA NobodyAborts ==
    ASSUME IInv, \A x \in Peers : Queued(x) /\ Reported(x), NEW p \in Peers,
           HandshakeDeadline(p)
    PROVE  FALSE
<1> DEFINE q == Other(p)
<1>1. q \in Peers /\ Other(q) = p /\ num \in [Peers -> 0 .. Games]
      /\ num[p] \in Nat /\ num[q] \in Nat
  BY PeerFacts, Sizes DEF IInv, TypeOK
<1>2. phase[p] = "offering" /\ hello[p] = <<>> /\ Estranged(p) /\ phase[q] # "aborted"
  BY <1>1 DEF HandshakeDeadline, Reported
<1>3. num[q] < num[p]
  <2>1. ~Offered(p)
    BY <1>2 DEF Offered
  <2>2. QED
    BY <1>1, <1>2, <2>1 DEF Queued
<1>4. phase[q] = "finished" \/ (phase[q] = "offering" /\ ~Offered(q))
  BY <1>2 DEF Estranged
<1>5. CASE phase[q] = "finished"
  <2>1. num[q] = Games
    BY <1>1, <1>5 DEF Reported
  <2>2. QED
    BY <1>1, <1>3, <2>1, SeriesAssumption
<1>6. CASE phase[q] = "offering" /\ ~Offered(q)
  <2> HIDE DEF q
  <2>1. num[p] >= num[q]
    BY <1>1, <1>3
  <2>2. QED
    BY <1>1, <1>6, <2>1 DEF Queued
<1>7. QED
  BY <1>4, <1>5, <1>6

\* Nobody gives up waiting in vain: there is always one who may still speak.
LEMMA NobodyWaitsInVain ==
    ASSUME IInv, \A x \in Peers : InWindow(x) /\ Queued(x) /\ Reported(x) /\ Reaches(x),
           NEW p \in Peers, phase[p] = "waiting", turns[p] = <<>>
    PROVE  MaySpeak(p)
<1> DEFINE q == Other(p)
<1>1. q \in Peers /\ q # p /\ Other(q) = p /\ TypeOK
  BY PeerFacts DEF IInv
<1>2. /\ num[p] \in Nat /\ num[q] \in Nat /\ num[p] <= num[q]
      /\ made[p] \in Nat /\ made[q] \in Nat /\ Len(seen[p]) \in Nat /\ Len(seen[q]) \in Nat
  BY <1>1, Sizes DEF IInv, Met
<1>3. ~Deserted(p)
  BY DEF Reaches
<1>4. num[q] = num[p] /\ phase[q] \in {"offering", "moving", "waiting"}
  <2>1. num[q] = num[p] /\ phase[q] \notin {"over", "auditing", "idle", "finished"}
    BY <1>2, <1>3 DEF Deserted
  <2>2. phase[q] # "aborted" /\ phase[q] \in Phases
    BY <1>1 DEF Reported, TypeOK
  <2>3. QED
    BY <2>1, <2>2 DEF Phases
<1> HIDE DEF q
<1>5. CASE phase[q] = "moving"
  BY <1>4, <1>5 DEF MaySpeak, q
<1>6. CASE phase[q] = "offering"
  <2>1. Offered(q)
    BY <1>1, <1>2, <1>4, <1>6 DEF Queued
  <2>2. QED
    BY <1>4, <1>6, <2>1 DEF MaySpeak, q
<1>7. CASE phase[q] = "waiting"
  <2>1. made[q] <= Len(seen[p])
    BY <1>2, <1>4 DEF Reaches, q
  <2>2. /\ RoleIn(p, num[p]) = "thief" => made[p] = Len(seen[p]) + 1
        /\ RoleIn(p, num[p]) # "thief" => made[p] + 1 = Len(seen[p]) + 1
        /\ RoleIn(q, num[q]) = "thief" => made[q] = Len(seen[q]) + 1
        /\ RoleIn(q, num[q]) # "thief" => made[q] + 1 = Len(seen[q]) + 1
    BY <1>1, <1>7 DEF InWindow, Local, Taken
  <2>3. (RoleIn(p, num[p]) = "thief") # (RoleIn(q, num[q]) = "thief")
    BY <1>4 DEF RoleIn, Other, Peers, q
  <2>4. made[p] > Len(seen[q])
    BY <1>2, <2>1, <2>2, <2>3
  <2>5. turns[q] # <<>>
    BY <1>1, <1>4, <1>7, <2>4 DEF Reaches
  <2>6. QED
    BY <1>4, <1>7, <2>5 DEF MaySpeak, q
<1>8. QED
  BY <1>4, <1>5, <1>6, <1>7

\* A reveal that does not match what was heard is of another window, and there
\* is no such reveal that says anything.
LEMMA NobodyMismatches ==
    ASSUME NEW p \in Peers, TypeOK, InWindow(p), Answered(p), Revealed(p),
           audits[p] # <<>>
    PROVE  ~Mismatch(p, Head(audits[p]))
<1>1. /\ seen[p] \in Seq(Nat) /\ Len(seen[p]) \in Nat /\ DOMAIN seen[p] = 1 .. Len(seen[p])
      /\ made[p] \in Nat
  BY Sizes
<1>2. 1 \in DOMAIN audits[p] /\ Head(audits[p]) = audits[p][1]
  <2>1. audits[p] \in Seq(Audits)
    BY DEF TypeOK
  <2>2. QED
    BY <2>1
<1> DEFINE m == audits[p][1]
<1>3. CASE m.win = num[p]
  BY <1>2, <1>3 DEF Mismatch, InWindow, Local
<1>4. CASE m.win # num[p]
  <2>1. Steps = 1 /\ (m.steps = 0 \/ RoleIn(p, num[p]) = "thief")
    BY <1>2, <1>4 DEF Revealed, Hasty
  <2>2. CASE m.steps = 0
    BY <1>1, <1>2, <2>2 DEF Mismatch
  <2>3. CASE RoleIn(p, num[p]) = "thief"
    <3>1. Len(seen[p]) = 0
      BY <1>1, <2>1, <2>3 DEF Answered
    <3>2. QED
      BY <1>1, <3>1 DEF Mismatch
  <2>4. QED
    BY <2>1, <2>2, <2>3
<1>5. QED
  BY <1>3, <1>4

-----------------------------------------------------------------------------
(* The steps that are left when nothing goes wrong but a retried call.     *)

\* The request of a step is kept, once or twice.
Moves(p) ==
    /\ phase[p] = "moving"
    /\ UNCHANGED <<num, hello, audits, seen, rows, late>>
    /\ Delivered(turns, Other(p),
                 [win |-> num[p], step |-> made[p] + 1, from |-> RoleIn(p, num[p])], turns')
    /\ made' = [made EXCEPT ![p] = made[p] + 1]
    /\ outcome' = [outcome EXCEPT ![p] = "played"] \/ UNCHANGED outcome
    /\ IF RoleIn(p, num[p]) = "thief" /\ made[p] + 1 = Steps
         THEN Goes(p, "over") ELSE Goes(p, "waiting")

LEMMA MoveMoves ==
    ASSUME TypeOK, NEW p \in Peers, Move(p), ~Fault("late")
    PROVE  Moves(p)
<1> DEFINE m == [win |-> num[p], step |-> made[p] + 1, from |-> RoleIn(p, num[p])]
<1>1. /\ turns' = Put(turns, Other(p), m) \/ turns' = PutTwice(turns, Other(p), m)
      /\ Last(m) => Ends(p, "played")
      /\ ~Last(m) => Goes(p, "waiting") /\ UNCHANGED outcome
      /\ UNCHANGED late /\ made' = [made EXCEPT ![p] = made[p] + 1]
  BY DEF Move
<1>2. Last(m) <=> RoleIn(p, num[p]) = "thief" /\ made[p] + 1 = Steps
  BY DEF Last
<1>3. m \in Turns /\ turns \in [Peers -> Seq(Turns)] /\ Other(p) \in Peers
  <2>1. num[p] \in Nat /\ made[p] \in Nat
    BY Sizes
  <2>2. RoleIn(p, num[p]) \in Roles
    BY DEF RoleIn, Roles
  <2>3. made[p] + 1 \in Nat
    BY <2>1
  <2>4. m \in Turns
    BY <2>1, <2>2, <2>3 DEF Turns
  <2>5. QED
    BY <2>4, PeerFacts DEF TypeOK
<1> HIDE DEF m
<1>4. Delivered(turns, Other(p), m, turns')
  BY <1>1, <1>3, DeliveredTo
<1>5. QED
  BY <1>1, <1>2, <1>4 DEF Moves, Move, Ends, m

Reveals(p) ==
    /\ phase[p] = "over" /\ Goes(p, "auditing")
    /\ UNCHANGED <<num, hello, turns, game, rows, late>>
    /\ Delivered(audits, Other(p), [win |-> num[p], steps |-> made[p]], audits')

LEMMA RevealReveals ==
    ASSUME TypeOK, NEW p \in Peers, Reveal(p), ~Fault("late")
    PROVE  Reveals(p)
<1> DEFINE m == [win |-> num[p], steps |-> made[p]]
<1>1. audits' = Put(audits, Other(p), m) \/ audits' = PutTwice(audits, Other(p), m)
  BY DEF Reveal
<1>2. m \in Audits /\ audits \in [Peers -> Seq(Audits)] /\ Other(p) \in Peers
  BY Sizes, PeerFacts DEF TypeOK, Audits
<1> HIDE DEF m
<1>3. Delivered(audits, Other(p), m, audits')
  BY <1>1, <1>2, DeliveredTo
<1>4. QED
  BY <1>3 DEF Reveals, Reveal, m

\* All that CleanInv says of one peer.
Follows(p) == /\ Queued(p) /\ Reported(p) /\ Answered(p)
              /\ Reaches(p) /\ Revealed(p)

\* What happens while nothing goes wrong but a retried call, and what makes it
\* possible.
Plain(p) ==
    \/ StartSubGame(p) /\ ~Fault("lost_offer")
    \/ ReadOffer(p)
    \/ Reoffer(p) /\ ~Fault("lost_offer")
    \/ Moves(p)
    \/ ReadTurn(p)
    \/ Reveals(p)
    \/ ReadAudit(p) /\ ~Mismatch(p, Head(audits[p]))
    \/ AuditTimeout(p) /\ ~Revealing(p)
    \/ EndSeries(p)

LEMMA StepPlain ==
    ASSUME IInv, \A x \in Peers : InWindow(x) /\ Follows(x), NEW p \in Peers, Step(p),
           ~Fault("lost_offer"), ~Fault("late"), ~Fault("slow"), ~Fault("raise")
    PROVE  Plain(p)
<1>1. TypeOK /\ InWindow(p) /\ Follows(p)
  BY DEF IInv
<1>2. ASSUME Move(p) PROVE Moves(p)
  BY <1>1, <1>2, MoveMoves
<1>3. ASSUME Reveal(p) PROVE Reveals(p)
  BY <1>1, <1>3, RevealReveals
<1>4. ~HandshakeDeadline(p)
  BY NobodyAborts DEF Follows
<1>5. ~TurnTimeout(p)
  BY NobodyWaitsInVain DEF Follows, TurnTimeout
<1>6. ASSUME ReadAudit(p) PROVE ~Mismatch(p, Head(audits[p]))
  BY <1>1, <1>6, NobodyMismatches DEF Follows, ReadAudit
<1>7. ASSUME AuditTimeout(p) PROVE ~Revealing(p)
  BY <1>7 DEF AuditTimeout
<1>8. ~Raises(p)
  BY DEF Raises
<1>9. QED
  BY <1>2, <1>3, <1>4, <1>5, <1>6, <1>7, <1>8 DEF Step, Plain

-----------------------------------------------------------------------------
\* What a peer has done and heard is its own.
LEMMA AnsweredStays ==
    ASSUME NEW x \in Peers, Answered(x), num'[x] = num[x], made'[x] = made[x],
           seen'[x] = seen[x], Playing(x)' => Playing(x)
    PROVE  Answered(x)'
  BY DEF Answered

LEMMA AnsweredKept ==
    ASSUME IInv, \A x \in Peers : InWindow(x) /\ Answered(x), NEW p \in Peers, Plain(p)
    PROVE  \A x \in Peers : Answered(x)'
<1>1. TypeOK /\ InWindow(p) /\ Answered(p)
  BY DEF IInv
<1>2. phase \in [Peers -> Phases] /\ num \in [Peers -> 0 .. Games]
      /\ made \in [Peers -> Nat] /\ seen \in [Peers -> Seq(Nat)]
      /\ made[p] \in Nat /\ Len(seen[p]) \in Nat
  BY <1>1, Sizes DEF TypeOK
<1>3. ASSUME NEW x \in Peers, x # p PROVE Answered(x)'
  <2>1. num'[x] = num[x] /\ made'[x] = made[x] /\ seen'[x] = seen[x] /\ phase'[x] = phase[x]
    <3>1. CASE ReadTurn(p)
      BY <1>1, <1>3, <3>1, ReadTurnDoes
    <3>2. CASE ~ReadTurn(p)
      BY <1>2, <1>3, <3>2 DEF Plain, StartSubGame, Fresh, Goes, ReadOffer, Reoffer, Moves,
               Reveals, ReadAudit, AuditTimeout, EndSeries, Settles, game
    <3>3. QED
      BY <3>1, <3>2
  <2>2. QED
    BY <2>1, AnsweredStays DEF Playing
<1>4. Answered(p)'
  <2>1. CASE StartSubGame(p)
    <3>1. made'[p] = 0 /\ seen'[p] = <<>> /\ phase'[p] = "offering"
      BY <1>2, <2>1 DEF StartSubGame, Fresh, Goes
    <3>2. QED
      BY <3>1, SeriesAssumption DEF Answered, Playing
  <2>2. CASE ReadOffer(p)
    <3>1. made[p] = 0 /\ seen[p] = <<>> /\ UNCHANGED <<num, made, seen>>
      BY <1>1, <2>2 DEF ReadOffer, InWindow, Local, game
    <3>2. QED
      BY <3>1, SeriesAssumption DEF Answered
  <2>3. CASE Moves(p)
    <3>1. Playing(p) /\ UNCHANGED <<num, seen>> /\ made'[p] = made[p] + 1
      BY <1>2, <2>3 DEF Moves, Playing
    <3>2. RoleIn(p, num[p]) # "thief" => made[p] + 1 = Len(seen[p])
      BY <1>1, <2>3 DEF Moves, InWindow, Local, Taken
    <3>3. QED
      BY <1>1, <3>1, <3>2 DEF Answered
  <2>4. CASE ReadTurn(p)
    <3>1. /\ phase[p] = "waiting" /\ UNCHANGED <<num, made>>
          /\ \/ seen'[p] = seen[p]
             \/ /\ seen'[p] = Append(seen[p], num[p])
                /\ Head(turns[p]).step = Len(seen[p]) + 1
                /\ Head(turns[p]).from = RoleIn(Other(p), num[p])
                /\ Last(Head(turns[p])) => phase'[p] = "over"
      BY <1>1, <2>4, ReadTurnDoes
    <3>2. Playing(p)
      BY <3>1 DEF Playing
    <3>3. CASE seen'[p] = seen[p]
      BY <1>1, <3>1, <3>2, <3>3, AnsweredStays
    <3>4. CASE /\ seen'[p] = Append(seen[p], num[p])
               /\ Head(turns[p]).step = Len(seen[p]) + 1
               /\ Head(turns[p]).from = RoleIn(Other(p), num[p])
               /\ Last(Head(turns[p])) => phase'[p] = "over"
      <4>1. Len(seen'[p]) = Len(seen[p]) + 1
        BY <1>1, <1>2, <3>4, Sizes
      <4>2. CASE RoleIn(p, num[p]) = "thief"
        <5>1. made[p] = Len(seen[p]) + 1 /\ made[p] < Steps
          BY <1>1, <3>1, <3>2, <4>2 DEF InWindow, Local, Taken
        <5>2. QED
          BY <3>1, <4>1, <4>2, <5>1 DEF Answered
      <4>3. CASE RoleIn(p, num[p]) # "thief"
        <5>1. RoleIn(Other(p), num[p]) = "thief"
          BY <4>3 DEF RoleIn, Other, Peers
        <5>2. Playing(p)' => Len(seen[p]) + 1 # Steps
          BY <3>4, <5>1 DEF Last, Playing
        <5>3. Playing(p)' => Len(seen[p]) + 1 < Steps
          <6>1. Len(seen[p]) < Steps
            BY <1>1, <3>2, <4>3 DEF Answered
          <6>2. Len(seen[p]) + 1 # Steps => Len(seen[p]) + 1 < Steps
            BY <1>2, <6>1, SeriesAssumption
          <6>3. QED
            BY <5>2, <6>2
        <5>4. QED
          BY <1>1, <3>1, <4>1, <4>3, <5>3 DEF Answered
      <4>4. QED
        BY <4>2, <4>3
    <3>5. QED
      BY <3>1, <3>3, <3>4
  <2>5. CASE ~(StartSubGame(p) \/ ReadOffer(p) \/ Moves(p) \/ ReadTurn(p))
    <3>1. UNCHANGED <<num, made, seen>> /\ phase'[p] \in {"offering", "auditing", "idle", "finished"}
      BY <1>2, <2>5 DEF Plain, Reoffer, Reveals, ReadAudit, AuditTimeout, EndSeries, Settles,
                       Goes, game
    <3>2. QED
      BY <1>1, <3>1, AnsweredStays DEF Playing
  <2>6. QED
    BY <2>1, <2>2, <2>3, <2>4, <2>5
<1>5. QED
  BY <1>3, <1>4

LEMMA ReportedKept ==
    ASSUME IInv, \A x \in Peers : InWindow(x) /\ Reported(x), NEW p \in Peers, Plain(p)
    PROVE  \A x \in Peers : Reported(x)'
<1>1. TypeOK /\ InWindow(p) /\ Reported(p)
  BY DEF IInv
<1>2. /\ phase \in [Peers -> Phases] /\ num \in [Peers -> 0 .. Games]
      /\ outcome \in [Peers -> Outcomes] /\ rows \in [Peers -> Seq(Outcomes)]
      /\ num[p] \in Nat
  BY <1>1, Sizes DEF TypeOK
<1>3. ASSUME NEW x \in Peers, x # p PROVE Reported(x)'
  <2>1. num'[x] = num[x] /\ outcome'[x] = outcome[x] /\ rows'[x] = rows[x] /\ phase'[x] = phase[x]
    <3>1. CASE ReadTurn(p)
      BY <1>1, <1>3, <3>1, ReadTurnDoes
    <3>2. CASE ~ReadTurn(p)
      BY <1>2, <1>3, <3>2 DEF Plain, StartSubGame, Fresh, Goes, ReadOffer, Reoffer, Moves,
               Reveals, ReadAudit, AuditTimeout, EndSeries, Settles, game
    <3>3. QED
      BY <3>1, <3>2
  <2>2. QED
    BY <2>1 DEF Reported
<1>4. ASSUME UNCHANGED <<num, rows>>, outcome'[p] = "played",
             phase[p] \notin {"idle", "finished"}, phase'[p] \notin {"idle", "finished", "aborted"}
      PROVE  Reported(p)'
  BY <1>1, <1>4 DEF Reported
<1>5. outcome[p] = "played"
  BY <1>1 DEF Reported
<1>6. ASSUME Settles(p, outcome[p]), UNCHANGED <<num, outcome>>, phase[p] = "auditing"
      PROVE  Reported(p)'
  <2>1. rows'[p] = Append(rows[p], "played") /\ phase'[p] = "idle"
    BY <1>2, <1>5, <1>6 DEF Settles, Goes
  <2>2. rows[p] \in Seq(Outcomes) /\ "played" \in Outcomes
    BY <1>2 DEF Outcomes
  <2>3. Len(rows[p]) = num[p] - 1 /\ \A i \in DOMAIN rows[p] : rows[p][i] = "played"
    BY <1>1, <1>6 DEF Reported
  <2>4. Len(rows'[p]) = num[p]
    BY <1>2, <2>1, <2>2, <2>3
  <2>5. \A i \in DOMAIN rows'[p] : rows'[p][i] = "played"
    BY <2>1, <2>2, <2>3, AppendAll
  <2>6. QED
    BY <1>5, <1>6, <2>1, <2>4, <2>5 DEF Reported
<1>7. Reported(p)'
  <2>1. CASE StartSubGame(p)
    <3>1. /\ phase[p] = "idle" /\ phase'[p] = "offering" /\ num'[p] = num[p] + 1
          /\ outcome'[p] = "played" /\ UNCHANGED rows
      BY <1>2, <2>1 DEF StartSubGame, Fresh, Goes
    <3>2. Len(rows[p]) = (num[p] + 1) - 1
      BY <1>1, <1>2, <3>1 DEF Reported
    <3>3. QED
      BY <1>1, <3>1, <3>2 DEF Reported
  <2>2. CASE ReadOffer(p) \/ Reoffer(p)
    <3>1. UNCHANGED <<num, rows, outcome>> /\ phase[p] = "offering"
          /\ phase'[p] \in {"offering", "moving", "waiting"}
      BY <1>2, <2>2 DEF ReadOffer, Reoffer, Goes, game
    <3>2. QED
      BY <1>4, <1>5, <3>1
  <2>3. CASE Moves(p)
    <3>1. UNCHANGED <<num, rows>> /\ phase[p] = "moving" /\ phase'[p] \in {"over", "waiting"}
          /\ outcome'[p] = "played"
      BY <1>2, <1>5, <2>3 DEF Moves, Goes
    <3>2. QED
      BY <1>4, <3>1
  <2>4. CASE ReadTurn(p)
    <3>1. UNCHANGED <<num, rows>> /\ phase[p] = "waiting"
          /\ phase'[p] \in {"over", "moving", "waiting"} /\ outcome'[p] = "played"
      BY <1>1, <1>5, <2>4, ReadTurnDoes
    <3>2. QED
      BY <1>4, <3>1
  <2>5. CASE Reveals(p)
    <3>1. UNCHANGED <<num, rows, outcome>> /\ phase[p] = "over" /\ phase'[p] = "auditing"
      BY <1>2, <2>5 DEF Reveals, Goes, game
    <3>2. QED
      BY <1>4, <1>5, <3>1
  <2>6. CASE (ReadAudit(p) /\ ~Mismatch(p, Head(audits[p]))) \/ AuditTimeout(p)
    BY <1>6, <2>6 DEF ReadAudit, AuditTimeout, game
  <2>7. CASE EndSeries(p)
    <3>1. /\ phase[p] = "idle" /\ phase'[p] = "finished" /\ num[p] = Games
          /\ UNCHANGED <<num, rows, outcome>>
      BY <1>2, <2>7 DEF EndSeries, Goes, game
    <3>2. QED
      BY <1>1, <3>1 DEF Reported
  <2>8. QED
    BY <2>1, <2>2, <2>3, <2>4, <2>5, <2>6, <2>7 DEF Plain
<1>8. QED
  BY <1>3, <1>7

-----------------------------------------------------------------------------
(* Nothing that is said is missed.                                         *)

LEMMA ReachesStays ==
    ASSUME NEW x \in Peers, Reaches(x), num'[x] = num[x], num'[Other(x)] = num[Other(x)],
           made'[Other(x)] = made[Other(x)], seen'[x] = seen[x], turns'[x] = turns[x],
           phase'[x] \in {"offering", "moving", "waiting"} =>
              phase[x] \in {"offering", "moving", "waiting"},
           phase'[x] \in {"offering", "waiting"} => phase[x] \in {"offering", "waiting"},
           Deserted(x)' /\ phase'[x] \in {"offering", "waiting"} => Deserted(x)
    PROVE  Reaches(x)'
  BY DEF Reaches

LEMMA StartReaches ==
    ASSUME IInv, Close, \A x \in Peers : InWindow(x) /\ Reaches(x), NEW p \in Peers,
           StartSubGame(p)
    PROVE  \A x \in Peers : Reaches(x)'
<1> DEFINE q == Other(p)
<1>1. q \in Peers /\ q # p /\ Other(q) = p /\ \A x \in Peers : x = p \/ x = q
  BY PeerFacts
<1>2. TypeOK /\ InWindow(p) /\ InWindow(q) /\ Reaches(q)
  BY <1>1 DEF IInv
<1>3. /\ num[p] \in Nat /\ num[q] \in Nat /\ made[q] \in Nat /\ Len(seen[q]) \in Nat
      /\ num[p] <= num[q] /\ num[q] <= num[p] + 1
      /\ phase[q] \notin {"offering", "aborted"} => num[q] <= num[p]
  BY <1>1, <1>2, Sizes DEF IInv, Met, Close, StartSubGame
<1>4. /\ phase[p] = "idle" /\ phase'[p] = "offering" /\ phase'[q] = phase[q]
      /\ num'[p] = num[p] + 1 /\ num'[q] = num[q]
      /\ turns'[q] = turns[q] /\ seen'[p] = <<>> /\ seen'[q] = seen[q]
      /\ made'[p] = 0 /\ made'[q] = made[q]
  BY <1>1, <1>2 DEF StartSubGame, Fresh, Goes, TypeOK
<1> HIDE DEF q
<1>5. Reaches(p)'
  <2>1. num'[p] = num'[q] => made'[q] = 0
    <3>1. num[p] + 1 = num[q] => phase[q] \in {"offering", "aborted"}
      BY <1>3
    <3>2. QED
      BY <1>2, <1>4, <3>1 DEF InWindow, Local
  <2>2. ~Deserted(p)'
    <3>1. ~(num[q] > num[p] + 1)
      BY <1>3
    <3>2. num[q] = num[p] + 1 => phase[q] \in {"offering", "aborted"}
      BY <1>3
    <3>3. QED
      BY <1>4, <3>1, <3>2 DEF Deserted, q
  <2>3. Len(seen'[p]) = 0
    BY <1>4
  <2>4. QED
    BY <1>4, <2>1, <2>2, <2>3 DEF Reaches, q
<1>6. Reaches(q)'
  <2>1. 0 <= Len(seen[q]) + 1 /\ ~(0 > Len(seen[q]))
    BY <1>3
  <2>2. ASSUME Deserted(q)' PROVE Deserted(q)
    <3>1. num'[p] > num'[q]
      BY <1>1, <1>4, <2>2 DEF Deserted
    <3>2. num[q] = num[p]
      BY <1>3, <1>4, <3>1
    <3>3. QED
      BY <1>1, <1>4, <3>2 DEF Deserted
  <2>3. QED
    BY <1>1, <1>2, <1>4, <2>1, <2>2 DEF Reaches
<1>7. QED
  BY <1>1, <1>5, <1>6

LEMMA MoveReaches ==
    ASSUME IInv, \A x \in Peers : InWindow(x) /\ Reaches(x), NEW p \in Peers, Moves(p)
    PROVE  \A x \in Peers : Reaches(x)'
<1> DEFINE q == Other(p)
           m == [win |-> num[p], step |-> made[p] + 1, from |-> RoleIn(p, num[p])]
<1>1. q \in Peers /\ q # p /\ Other(q) = p /\ \A x \in Peers : x = p \/ x = q
  BY PeerFacts
<1>2. TypeOK /\ InWindow(p) /\ InWindow(q) /\ Reaches(p) /\ Reaches(q) /\ UNCHANGED <<num, seen>>
  BY <1>1 DEF IInv, Moves
<1>3. /\ phase[p] = "moving" /\ num[q] = num[p] /\ made[p] = Len(seen[q])
      /\ made[p] \in Nat /\ num[p] \in Nat
      /\ phase[q] \in {"offering", "waiting", "aborted"}
  BY <1>1, <1>2, MoveFacts, Sizes DEF Moves
<1>4. /\ phase'[q] = phase[q] /\ made'[q] = made[q] /\ made'[p] = made[p] + 1
      /\ turns'[p] = turns[p]
      /\ phase'[p] # "waiting" => phase'[p] = "over" /\ Last(m)
      /\ \E i \in DOMAIN turns'[q] : turns'[q][i] = m
  BY <1>1, <1>2 DEF Moves, Goes, TypeOK, Delivered, Last
<1>5. ~Deserted(p)
  BY <1>2, <1>3 DEF InWindow, Mute
<1> HIDE DEF q, m
<1>6. Reaches(p)'
  <2>1. ~Deserted(p)'
    BY <1>2, <1>4, <1>5, DesertedAlike DEF q
  <2>2. QED
    BY <1>2, <1>3, <1>4, <2>1, ReachesStays DEF Reaches, q
<1>7. Reaches(q)'
  <2>1. PICK i \in DOMAIN turns'[q] : turns'[q][i] = m
    BY <1>4
  <2>2. turns'[q][i].step = Len(seen[q]) + 1
    BY <1>3, <2>1 DEF m
  <2>3. made'[p] <= Len(seen[q]) + 1
    BY <1>3, <1>4
  <2>4. ASSUME Deserted(q)' PROVE \E j \in DOMAIN turns'[q] : Last(turns'[q][j])
    <3>1. phase'[p] # "waiting"
      BY <1>1, <1>2, <1>3, <2>4 DEF Deserted
    <3>2. QED
      BY <1>4, <2>1, <3>1
  <2>5. QED
    BY <1>1, <1>2, <2>2, <2>3, <2>4 DEF Reaches
<1>8. QED
  BY <1>1, <1>6, <1>7

LEMMA ReadTurnReaches ==
    ASSUME IInv, \A x \in Peers : InWindow(x) /\ Reaches(x) /\ Answered(x), NEW p \in Peers,
           ReadTurn(p)
    PROVE  \A x \in Peers : Reaches(x)'
<1> DEFINE q == Other(p)
           m == Head(turns[p])
<1>1. q \in Peers /\ q # p /\ Other(q) = p /\ \A x \in Peers : x = p \/ x = q
  BY PeerFacts
<1>2. TypeOK /\ InWindow(p) /\ InWindow(q) /\ Reaches(p) /\ Reaches(q) /\ Answered(p)
  BY <1>1 DEF IInv
<1>3. /\ phase[p] = "waiting" /\ UNCHANGED <<num, made>>
      /\ turns'[q] = turns[q] /\ seen'[q] = seen[q] /\ phase'[q] = phase[q]
      /\ 1 \in DOMAIN turns[p] /\ m = turns[p][1]
      /\ \A i \in DOMAIN turns[p] : i = 1 \/ (i - 1 \in DOMAIN turns'[p] /\ turns'[p][i - 1] = turns[p][i])
      /\ m.from = RoleIn(q, num[p])
      /\ \/ /\ ~Heard(p, m) /\ m.step = Len(seen[p]) + 1
            /\ seen'[p] = Append(seen[p], num[p])
            /\ Last(m) => phase'[p] = "over"
            /\ ~Last(m) => phase'[p] = "moving"
         \/ Heard(p, m) /\ seen'[p] = seen[p] /\ phase'[p] = "waiting"
  BY <1>1, <1>2, ReadTurnDoes DEF Behind
<1>4. /\ num[p] \in Nat /\ num[q] \in Nat /\ made[q] \in Nat
      /\ Len(seen[p]) \in Nat /\ seen[p] \in Seq(Nat)
  BY <1>1, <1>2, Sizes
<1> HIDE DEF q, m
<1>5. Reaches(p)'
  <2>1. CASE /\ ~Heard(p, m) /\ m.step = Len(seen[p]) + 1
             /\ seen'[p] = Append(seen[p], num[p])
    <3>1. Len(seen'[p]) = Len(seen[p]) + 1
      BY <1>4, <2>1
    <3>2. num[p] = num[q] => made[q] <= Len(seen[p]) + 1
      BY <1>2, <1>3 DEF Reaches, q
    <3>3. num[p] = num[q] => made[q] <= Len(seen'[p]) + 1 /\ ~(made[q] > Len(seen'[p]))
      BY <1>4, <3>1, <3>2
    <3>4. phase'[p] \notin {"offering", "waiting"}
      BY <1>3, <2>1
    <3>5. QED
      BY <1>3, <3>3, <3>4 DEF Reaches, q
  <2>2. CASE Heard(p, m) /\ seen'[p] = seen[p] /\ phase'[p] = "waiting"
    <3>1. m.step <= Len(seen[p])
      BY <2>2 DEF Heard
    <3>2. ASSUME NEW i \in DOMAIN turns[p], turns[p][i].step = Len(seen[p]) + 1
          PROVE  \E j \in DOMAIN turns'[p] : turns'[p][j].step = Len(seen[p]) + 1
      <4>1. i # 1
        BY <1>3, <1>4, <3>1, <3>2
      <4>2. QED
        BY <1>3, <3>2, <4>1
    <3>3. ASSUME NEW i \in DOMAIN turns[p], Last(turns[p][i])
          PROVE  \E j \in DOMAIN turns'[p] : Last(turns'[p][j])
      <4>1. ~Last(m)
        <5>1. SUFFICES ASSUME m.from = "thief", m.step = Steps PROVE FALSE
          BY DEF Last
        <5>2. RoleIn(p, num[p]) # "thief"
          BY <1>3, <5>1 DEF RoleIn, Other, Peers, q
        <5>3. Len(seen[p]) < Steps
          BY <1>2, <1>3, <5>2 DEF Answered, Playing
        <5>4. QED
          BY <1>4, <3>1, <5>1, <5>3, SeriesAssumption
      <4>2. QED
        BY <1>3, <3>3, <4>1
    <3>4. Deserted(p)' => Deserted(p)
      BY <1>3, DesertedAlike DEF q
    <3>5. QED
      BY <1>2, <1>3, <2>2, <3>2, <3>3, <3>4 DEF Reaches, q
  <2>3. QED
    BY <1>3, <2>1, <2>2
<1>6. Reaches(q)'
  <2>1. ASSUME Deserted(q)', ~Deserted(q) PROVE phase[q] \notin {"moving", "waiting", "offering"}
    <3>1. num[p] = num[q] /\ phase'[p] \in {"over", "auditing", "idle", "finished"}
      BY <1>1, <1>3, <2>1 DEF Deserted
    <3>2. Last(m) /\ m.step = Len(seen[p]) + 1
      BY <1>3, <3>1
    <3>3. RoleIn(q, num[q]) = "thief" /\ m.step = Steps
      BY <1>3, <3>1, <3>2 DEF Last
    <3>4. m.step <= made[q]
      BY <1>2, <1>3, <3>1 DEF InWindow, Sent, q
    <3>5. QED
      BY <1>2, <1>4, <3>3, <3>4, SeriesAssumption DEF InWindow, Local, Playing
  <2>2. QED
    BY <1>1, <1>2, <1>3, <2>1, ReachesStays
<1>7. QED
  BY <1>1, <1>5, <1>6

LEMMA ReachesKept ==
    ASSUME IInv, Close, \A x \in Peers : InWindow(x) /\ Reaches(x) /\ Answered(x),
           NEW p \in Peers, Plain(p)
    PROVE  \A x \in Peers : Reaches(x)'
<1> DEFINE q == Other(p)
           through == {"over", "auditing", "idle", "finished"}
<1>1. q \in Peers /\ q # p /\ Other(q) = p /\ \A x \in Peers : x = p \/ x = q
  BY PeerFacts
<1>2. phase \in [Peers -> Phases] /\ Reaches(p) /\ Reaches(q)
  BY <1>1 DEF IInv, TypeOK
<1>3. CASE StartSubGame(p) \/ Moves(p) \/ ReadTurn(p)
  BY <1>3, StartReaches, MoveReaches, ReadTurnReaches
<1>4. CASE ReadOffer(p) \/ Reoffer(p)
  <2>1. /\ UNCHANGED <<num, turns, made, seen>> /\ phase'[q] = phase[q]
        /\ phase[p] = "offering" /\ phase'[p] \in {"offering", "moving", "waiting"}
    BY <1>1, <1>2, <1>4 DEF ReadOffer, Reoffer, Goes, game
  <2>2. Deserted(p)' => Deserted(p)
    BY <1>1, <2>1, DesertedAlike
  <2>3. Deserted(q)' => Deserted(q)
    BY <1>1, <2>1, DesertedAlike
  <2> HIDE DEF q
  <2>4. QED
    BY <1>1, <1>2, <2>1, <2>2, <2>3, ReachesStays
<1>5. CASE Reveals(p) \/ ReadAudit(p) \/ AuditTimeout(p) \/ EndSeries(p)
  <2>1. /\ UNCHANGED <<num, turns, made, seen>> /\ phase'[q] = phase[q]
        /\ phase[p] \in through /\ phase'[p] \in through
    BY <1>1, <1>2, <1>5 DEF Reveals, ReadAudit, AuditTimeout, EndSeries, Settles, Goes, game,
                            inboxes
  <2>2. Deserted(q)' => Deserted(q)
    BY <1>1, <2>1, DesertedAlike
  <2> HIDE DEF q
  <2>3. QED
    BY <1>1, <1>2, <2>1, <2>2, ReachesStays
<1>6. QED
  BY <1>3, <1>4, <1>5 DEF Plain

-----------------------------------------------------------------------------
(* What is revealed, and when.                                             *)

\* A peer that has not revealed its log of the window yet, and one that has.
Unrevealed == {"offering", "moving", "waiting", "over"}
Told == {"auditing", "idle", "finished"}

LEMMA RevealedStays ==
    ASSUME \A x \in Peers : Revealed(x), UNCHANGED <<num, audits>>,
           \A x \in Peers : /\ phase[x] \in Told => phase'[x] \in Told
                            /\ phase'[x] \in Unrevealed => phase[x] \in Unrevealed
                            /\ phase'[x] \in {"idle", "finished"} => phase[x] \in {"idle", "finished"}
    PROVE  \A x \in Peers : Revealed(x)'
<1> SUFFICES ASSUME NEW x \in Peers PROVE Revealed(x)'
  OBVIOUS
<1>1. Other(x) \in Peers
  BY PeerFacts
<1>2. QED
  BY <1>1 DEF Revealed, Told, Unrevealed, Hasty

LEMMA StartRevealed ==
    ASSUME IInv, Close, \A x \in Peers : Revealed(x), NEW p \in Peers, StartSubGame(p)
    PROVE  \A x \in Peers : Revealed(x)'
<1> DEFINE q == Other(p)
<1>1. q \in Peers /\ q # p /\ Other(q) = p /\ \A x \in Peers : x = p \/ x = q
  BY PeerFacts
<1>2. /\ TypeOK /\ num[p] \in Nat /\ num[q] \in Nat
      /\ num[p] <= num[q] /\ num[q] <= num[p] + 1
      /\ phase[q] \notin {"offering", "aborted"} => num[q] <= num[p]
  BY <1>1, Sizes DEF IInv, Met, Close, StartSubGame
<1>3. /\ phase[p] = "idle" /\ phase'[p] = "offering" /\ phase'[q] = phase[q]
      /\ num'[p] = num[p] + 1 /\ num'[q] = num[q]
      /\ audits'[p] = <<>> /\ audits'[q] = audits[q]
  BY <1>1, <1>2 DEF StartSubGame, Goes, TypeOK
<1> HIDE DEF q
<1>4. Revealed(p)'
  <2>1. ASSUME phase[q] \in Unrevealed, num'[p] > num'[q] PROVE Hasty(p)'
    <3>1. num[p] = num[q]
      BY <1>2, <1>3, <2>1
    <3>2. Hasty(p)
      BY <1>3, <2>1, <3>1 DEF Revealed, Unrevealed, q
    <3>3. ~Alternate => RoleIn(p, num'[p]) = RoleIn(p, num[p])
      BY DEF RoleIn
    <3>4. QED
      BY <3>2, <3>3 DEF Hasty
  <2>2. QED
    BY <1>3, <2>1 DEF Revealed, Unrevealed, q
<1>5. Revealed(q)'
  <2>1. \A i \in DOMAIN audits[q] : audits[q][i].win \in Nat /\ audits[q][i].win <= num[p]
    BY <1>1, <1>2, WinTyped DEF Revealed
  <2>2. \A i \in DOMAIN audits[q] : audits[q][i].win <= num[p] + 1 /\ audits[q][i].win # num[p] + 1
    BY <1>2, <2>1
  <2>3. ~(num[q] > num[p] + 1)
    BY <1>2
  <2>4. ~(num[q] = num[p] + 1 /\ phase[q] \in {"idle", "finished"})
    BY <1>2
  <2>5. Revealed(q)
    BY <1>1
  <2>6. QED
    BY <1>1, <1>3, <2>2, <2>3, <2>4, <2>5 DEF Revealed, Hasty
<1>6. QED
  BY <1>1, <1>4, <1>5

LEMMA RevealRevealed ==
    ASSUME IInv, Close, \A x \in Peers : Revealed(x) /\ Answered(x), NEW p \in Peers, Reveals(p)
    PROVE  \A x \in Peers : Revealed(x)'
<1> DEFINE q == Other(p)
           m == [win |-> num[p], steps |-> made[p]]
<1>1. q \in Peers /\ q # p /\ Other(q) = p /\ \A x \in Peers : x = p \/ x = q
  BY PeerFacts
<1>2. /\ TypeOK /\ num[p] \in Nat /\ num[q] \in Nat /\ made[p] \in Nat
      /\ num[p] <= num[q] /\ num[q] <= num[p] + 1
  BY <1>1, Sizes DEF IInv, Met, Close, Reveals
<1>3. /\ phase[p] = "over" /\ phase'[p] = "auditing" /\ phase'[q] = phase[q]
      /\ UNCHANGED num /\ audits'[p] = audits[p]
      /\ \A i \in DOMAIN audits'[q] :
           audits'[q][i] = m \/ (i \in DOMAIN audits[q] /\ audits'[q][i] = audits[q][i])
  BY <1>1, <1>2 DEF Reveals, Goes, TypeOK, Delivered
<1>4. m.win = num[p] /\ m.steps = made[p]
  OBVIOUS
<1> HIDE DEF q, m
<1>5. Revealed(p)'
  BY <1>1, <1>3 DEF Revealed, Hasty, q
<1>6. Revealed(q)'
  <2>1. ASSUME num[p] # num[q]
        PROVE  Hasty(q) /\ (made[p] = 0 \/ RoleIn(q, num[q]) = "thief")
    <3>1. num[q] = num[p] + 1 /\ num[q] > num[p]
      BY <1>2, <2>1
    <3>2. Hasty(q)
      BY <1>1, <1>3, <3>1 DEF Revealed
    <3>3. ASSUME RoleIn(q, num[q]) # "thief" PROVE RoleIn(p, num[p]) # "thief"
      <4>1. Alternate
        BY <3>2, <3>3 DEF Hasty
      <4>2. (num[p] + 1) % 2 = 0 <=> num[p] % 2 # 0
        BY <1>2
      <4>3. QED
        BY <3>1, <3>3, <4>1, <4>2 DEF RoleIn, Other, Peers, q
    <3>4. QED
      BY <1>2, <3>2, <3>3 DEF Hasty, Answered
  <2>2. num[p] <= num[p]
    BY <1>2
  <2>3. Revealed(q)
    BY <1>1
  <2>4. QED
    BY <1>1, <1>3, <1>4, <2>1, <2>2, <2>3 DEF Revealed, Hasty
<1>7. QED
  BY <1>1, <1>5, <1>6

\* Settling a window early takes a log of an earlier one, or an end that the
\* other has not seen yet although it has only just agreed to play.
LEMMA SettleHasty ==
    ASSUME IInv, \A x \in Peers : InWindow(x) /\ Reaches(x) /\ Revealed(x), NEW p \in Peers,
           \/ ReadAudit(p)
           \/ AuditTimeout(p) /\ ~Revealing(p),
           num[Other(p)] = num[p], phase[Other(p)] \in Unrevealed
    PROVE  Hasty(p)
<1> DEFINE q == Other(p)
<1>1. q \in Peers /\ q # p /\ Other(q) = p /\ TypeOK
  BY PeerFacts DEF IInv
<1>2. CASE ReadAudit(p)
  <2>1. audits[p] \in Seq(Audits) /\ audits[p] # <<>>
    BY <1>1, <1>2 DEF TypeOK, ReadAudit
  <2>2. 1 \in DOMAIN audits[p]
    BY <2>1
  <2>3. audits[p][1].win # num[p]
    BY <2>2 DEF Revealed, Unrevealed
  <2>4. QED
    BY <2>2, <2>3 DEF Revealed
<1>3. CASE AuditTimeout(p) /\ ~Revealing(p)
  <2>1. Deserted(q) /\ InWindow(q) /\ Reaches(q)
    BY <1>1, <1>3 DEF Deserted, AuditTimeout
  <2>2. Mute(q) /\ Local(q)
    BY <2>1 DEF InWindow
  <2>3. phase[q] # "moving" /\ phase[q] # "over"
    BY <1>3, <2>2 DEF Mute, Revealing
  <2>4. PICK i \in DOMAIN turns[q] : Last(turns[q][i])
    BY <2>1, <2>3 DEF Reaches, Unrevealed
  <2>5. phase[q] # "waiting"
    <3>1. turns[q] \in Seq(Turns)
      BY <1>1, Sizes
    <3>2. turns[q] # <<>>
      BY <2>4, <3>1
    <3>3. QED
      BY <1>3, <3>2 DEF Revealing
  <2>6. seen[q] = <<>> /\ turns[q][i].from = RoleIn(p, num[q])
        /\ turns[q][i].step \in 1 .. Len(seen[q]) + 1
    BY <1>1, <2>2, <2>3, <2>5 DEF Local, Unrevealed
  <2>7. Len(seen[q]) = 0
    BY <2>6
  <2>8. QED
    BY <2>4, <2>6, <2>7, SeriesAssumption DEF Last, Hasty
<1>4. QED
  BY <1>2, <1>3

LEMMA SettleRevealed ==
    ASSUME IInv, \A x \in Peers : InWindow(x) /\ Reaches(x) /\ Revealed(x), NEW p \in Peers,
           \/ ReadAudit(p)
           \/ AuditTimeout(p) /\ ~Revealing(p)
    PROVE  \A x \in Peers : Revealed(x)'
<1> DEFINE q == Other(p)
<1>1. q \in Peers /\ q # p /\ Other(q) = p /\ \A x \in Peers : x = p \/ x = q
  BY PeerFacts
<1>2. TypeOK /\ UNCHANGED num /\ Revealed(p) /\ Revealed(q)
  BY <1>1 DEF IInv, ReadAudit, AuditTimeout
<1>3. phase[p] = "auditing" /\ phase'[p] = "idle" /\ phase'[q] = phase[q]
  BY <1>1, <1>2 DEF ReadAudit, AuditTimeout, Settles, Goes, TypeOK
<1>4. /\ audits'[q] = audits[q]
      /\ \A i \in DOMAIN audits'[p] : \E j \in DOMAIN audits[p] : audits'[p][i] = audits[p][j]
  <2>1. CASE UNCHANGED audits
    BY <2>1
  <2>2. CASE ReadAudit(p)
    <3>1. audits \in [Peers -> Seq(Audits)] /\ audits[p] # <<>> /\ audits' = Take(audits, p)
      BY <1>2, <2>2 DEF TypeOK, ReadAudit
    <3>2. Behind(audits[p], audits'[p]) /\ \A x \in Peers : x # p => audits'[x] = audits[x]
      BY <3>1, TakenFrom
    <3>3. QED
      BY <1>1, <3>2 DEF Behind
  <2>3. QED
    BY <2>1, <2>2 DEF AuditTimeout, inboxes
<1>5. num[q] = num[p] /\ phase[q] \in Unrevealed => Hasty(p)
  BY SettleHasty
<1> HIDE DEF q
<1>6. Revealed(p)'
  BY <1>1, <1>2, <1>3, <1>4, <1>5 DEF Revealed, Hasty, Unrevealed, q
<1>7. Revealed(q)'
  BY <1>1, <1>2, <1>3, <1>4 DEF Revealed, Hasty
<1>8. QED
  BY <1>1, <1>6, <1>7

LEMMA RevealedKept ==
    ASSUME IInv, Close, \A x \in Peers : InWindow(x) /\ Follows(x), NEW p \in Peers, Plain(p)
    PROVE  \A x \in Peers : Revealed(x)'
<1>1. /\ TypeOK /\ phase \in [Peers -> Phases]
      /\ \A x \in Peers : Reaches(x) /\ Revealed(x) /\ Answered(x)
  BY DEF IInv, TypeOK, Follows
<1>2. CASE StartSubGame(p) \/ Reveals(p)
  BY <1>1, <1>2, StartRevealed, RevealRevealed
<1>3. CASE ReadAudit(p) \/ (AuditTimeout(p) /\ ~Revealing(p))
  BY <1>1, <1>3, SettleRevealed
<1>4. CASE ReadOffer(p) \/ Reoffer(p) \/ Moves(p) \/ ReadTurn(p) \/ EndSeries(p)
  <2>1. /\ UNCHANGED <<num, audits>>
        /\ \A x \in Peers : x # p => phase'[x] = phase[x]
        /\ \/ phase[p] \in Unrevealed /\ phase'[p] \in Unrevealed
           \/ phase[p] = "idle" /\ phase'[p] = "finished"
    <3>1. CASE ReadTurn(p)
      BY <3>1, ReadTurnDoes DEF Unrevealed
    <3>2. CASE ReadOffer(p) \/ Reoffer(p) \/ Moves(p) \/ EndSeries(p)
      BY <1>1, <3>2 DEF ReadOffer, Reoffer, Moves, EndSeries, Goes, Unrevealed, inboxes
    <3>3. QED
      BY <1>4, <3>1, <3>2
  <2>2. \A x \in Peers : /\ phase[x] \in Told => phase'[x] \in Told
                         /\ phase'[x] \in Unrevealed => phase[x] \in Unrevealed
                         /\ phase'[x] \in {"idle", "finished"} => phase[x] \in {"idle", "finished"}
    BY <2>1 DEF Told, Unrevealed
  <2>3. QED
    BY <1>1, <2>1, <2>2, RevealedStays
<1>5. QED
  BY <1>2, <1>3, <1>4 DEF Plain

-----------------------------------------------------------------------------
LEMMA QueuedKept ==
    ASSUME IInv, Close, \A x \in Peers : InWindow(x) /\ Queued(x), NEW p \in Peers, Plain(p)
    PROVE  \A x \in Peers : Queued(x)'
<1>1. phase \in [Peers -> Phases]
  BY DEF IInv, TypeOK
<1>2. CASE ReadOffer(p) \/ ((StartSubGame(p) \/ Reoffer(p)) /\ ~Fault("lost_offer"))
  BY <1>2, StartQueued, ReadOfferQueued, ReofferQueued
<1>3. CASE ReadTurn(p)
  <2>1. UNCHANGED <<num, hello>> /\ \A x \in Peers : phase'[x] = "offering" => phase[x] = "offering"
    BY <1>3, ReadTurnDoes
  <2>2. QED
    BY <2>1, QueuedStays
<1>4. CASE Moves(p) \/ Reveals(p) \/ ReadAudit(p) \/ AuditTimeout(p) \/ EndSeries(p)
  <2>1. UNCHANGED <<num, hello>> /\ \A x \in Peers : phase'[x] = "offering" => phase[x] = "offering"
    BY <1>1, <1>4 DEF Moves, Reveals, ReadAudit, AuditTimeout, EndSeries, Settles, Goes, inboxes
  <2>2. QED
    BY <2>1, QueuedStays
<1>5. QED
  BY <1>2, <1>3, <1>4 DEF Plain

LEMMA NextCleanInv == IInv /\ Close /\ WindowInv /\ CleanInv /\ [Next]_vars => CleanInv'
<1> SUFFICES ASSUME IInv, Close, WindowInv, CleanInv, [Next]_vars, Clean'
             PROVE  \A x \in Peers : Follows(x)'
  BY DEF CleanInv, Follows
<1>1. /\ Clean /\ ~Fault("late") /\ ~Fault("slow") /\ ~Fault("raise") /\ ~Fault("lost_offer")
  BY FaultGrows, StepFaults DEF IInv, Clean, FaultKinds
<1>2. \A x \in Peers : InWindow(x) /\ Follows(x)
  <2>1. ~Happened({"late", "slow"})
    BY <1>1 DEF Clean, Happened, FaultKinds
  <2>2. QED
    BY <1>1, <2>1 DEF WindowInv, CleanInv, Follows
<1>3. ASSUME NEW p \in Peers, Step(p) PROVE \A x \in Peers : Follows(x)'
  <2>1. Plain(p)
    BY <1>1, <1>2, <1>3, StepPlain
  <2>2. \A x \in Peers : Queued(x)'
    BY <1>2, <2>1, QueuedKept DEF Follows
  <2>3. \A x \in Peers : Reported(x)'
    BY <1>2, <2>1, ReportedKept DEF Follows
  <2>4. \A x \in Peers : Answered(x)'
    BY <1>2, <2>1, AnsweredKept DEF Follows
  <2>5. \A x \in Peers : Reaches(x)'
    BY <1>2, <2>1, ReachesKept DEF Follows
  <2>6. \A x \in Peers : Revealed(x)'
    BY <1>2, <2>1, RevealedKept
  <2>7. QED
    BY <2>2, <2>3, <2>4, <2>5, <2>6 DEF Follows
<1>4. ASSUME NEW p \in Peers, Arrives(p) PROVE FALSE
  BY <1>2, <1>4 DEF Arrives, InWindow
<1>5. CASE UNCHANGED vars
  <2>1. \A x \in Peers : Queued(x)' /\ Reported(x)' /\ Answered(x)'
    BY <1>2, <1>5 DEF vars, inboxes, game, Follows, Queued, Offered, Reported, Answered, Playing
  <2>2. \A x \in Peers : Reaches(x)' /\ Revealed(x)'
    BY <1>2, <1>5 DEF vars, inboxes, game, Follows, Reaches, Deserted, Revealed, Hasty
  <2>3. QED
    BY <2>1, <2>2 DEF Follows
<1>6. QED
  BY <1>3, <1>4, <1>5 DEF Next, Stopped

LEMMA InitCleanInv == Init => CleanInv
<1> SUFFICES ASSUME Init, NEW p \in Peers PROVE Follows(p)
  BY DEF CleanInv, Follows
<1>1. /\ Other(p) \in Peers /\ phase[p] = "idle" /\ seen[p] = <<>> /\ hello[p] = <<>>
      /\ audits[p] = <<>> /\ rows[p] = <<>> /\ outcome[p] = "played"
      /\ made[p] = 0 /\ num[p] = 0 /\ num[Other(p)] = 0 /\ phase[Other(p)] = "idle"
  BY PeerFacts DEF Init
<1>2. Len(seen[p]) = 0 /\ Len(rows[p]) = 0 /\ 0 < Steps /\ ~(0 > 0)
  BY <1>1, SeriesAssumption
<1>3. Queued(p) /\ Reported(p) /\ Answered(p)
  BY <1>1, <1>2 DEF Queued, Reported, Answered, Playing
<1>4. Reaches(p) /\ Revealed(p)
  BY <1>1, <1>2 DEF Reaches, Revealed
<1>5. QED
  BY <1>3, <1>4 DEF Follows

-----------------------------------------------------------------------------
\* Every variable keeps its type.
THEOREM TypeCorrect == Spec => []TypeOK
<1>1. IInv => TypeOK
  BY DEF IInv
<1>2. QED
  BY <1>1, InitIInv, NextIInv, PTL DEF Spec

\* The pairing guard of the handshake is enough: two peers that play at the
\* same time play the same sub-game, whatever faults happen.
THEOREM Paired == Spec => []PlayTogether
<1>1. IInv => PlayTogether
  <2> SUFFICES ASSUME IInv, \A p \in Peers : Playing(p) PROVE num["a"] = num["b"]
    BY DEF PlayTogether
  <2>1. num["a"] <= num["b"] /\ num["b"] <= num["a"]
    BY DEF IInv, Met, Playing, Peers, Other
  <2>2. num["a"] \in Nat /\ num["b"] \in Nat
    BY DEF IInv, TypeOK, Peers
  <2>3. QED
    BY <2>1, <2>2
<1>2. QED
  BY <1>1, InitIInv, NextIInv, PTL DEF Spec

\* "Safe: fresh turns only follow the new handshake": the drain that opens a
\* window never discards a turn or an audit of that window.
THEOREM DrainSafe == Spec => DrainsStale
<1> DEFINE Stale == \A p \in Peers : num'[p] # num[p] =>
                      /\ \A i \in DOMAIN turns[p] : turns[p][i].win < num'[p]
                      /\ \A i \in DOMAIN audits[p] : audits[p][i].win < num'[p]
<1>1. IInv /\ [Next]_vars => [Stale]_vars
  <2> SUFFICES ASSUME IInv, Next PROVE Stale
    BY DEF vars
  <2> SUFFICES ASSUME NEW p \in Peers, num'[p] # num[p]
               PROVE  /\ \A i \in DOMAIN turns[p] : turns[p][i].win < num'[p]
                      /\ \A i \in DOMAIN audits[p] : audits[p][i].win < num'[p]
    OBVIOUS
  <2>1. TypeOK /\ TurnsBound /\ AuditsBound
    BY DEF IInv, Bounds
  <2>2. PICK q \in Peers : StartSubGame(q)
    BY DEF Next, Step, Stopped, Arrives, ReadOffer, Reoffer, HandshakeDeadline, Move, Raises,
           ReadTurn, TurnTimeout, Reveal, ReadAudit, AuditTimeout, EndSeries, vars
  <2>3. num'[p] = num[p] + 1
    BY <2>1, <2>2 DEF StartSubGame, TypeOK
  <2>4. QED
    BY <2>1, <2>3, WinTyped DEF TurnsBound, AuditsBound
<1>2. QED
  BY <1>1, InitIInv, NextIInv, PTL DEF Spec, DrainsStale

\* As long as no request outlives its call and no deadline fires early, a peer
\* applies only turns of the window it plays, for any number of sub-games, any
\* other faults and whichever side the previous window ended on: what a peer
\* still says once the other is through with a window is its last word there.
THEOREM TurnsOfOwnWindow == Spec => []OwnWindow
<1>1. WindowInv => OwnWindow
  BY DEF WindowInv, OwnWindow, InWindow, Local
<1>2. Init => IInv /\ Close /\ WindowInv
  BY InitIInv, InitWindowInv
<1>3. IInv /\ Close /\ WindowInv /\ [Next]_vars => (IInv /\ Close /\ WindowInv)'
  BY NextIInv, CloseKept, NextWindowInv
<1>4. QED
  BY <1>1, <1>2, <1>3, PTL DEF Spec

\* Unless something worse happens than a retried call that is delivered twice,
\* two peers that finish report the same rows, one per sub-game and each of
\* them played out: for any number of sub-games and of steps that win one.
THEOREM ReportsAgree == Spec => []SeriesAgrees
<1> DEFINE Inv == IInv /\ Close /\ WindowInv /\ CleanInv
<1>1. Inv => SeriesAgrees
  <2> SUFFICES ASSUME IInv, CleanInv, Clean, \A p \in Peers : phase[p] = "finished"
               PROVE  rows["a"] = [n \in 1 .. Games |-> "played"] /\ rows["b"] = rows["a"]
    BY DEF SeriesAgrees, Clean
  <2>1. ASSUME NEW p \in Peers PROVE rows[p] = [n \in 1 .. Games |-> "played"]
    <3>1. rows[p] \in Seq(Outcomes)
      BY DEF IInv, TypeOK
    <3>2. Len(rows[p]) = Games /\ \A i \in DOMAIN rows[p] : rows[p][i] = "played"
      BY DEF CleanInv, Reported
    <3>3. DOMAIN rows[p] = 1 .. Games
      BY <3>1, <3>2
    <3>4. QED
      BY <3>1, <3>2, <3>3
  <2>2. QED
    BY <2>1 DEF Peers
<1>2. Init => Inv
  BY InitIInv, InitWindowInv, InitCleanInv
<1>3. Inv /\ [Next]_vars => Inv'
  BY NextIInv, CloseKept, NextWindowInv, NextCleanInv
<1>4. QED
  BY <1>1, <1>2, <1>3, PTL DEF Spec

=============================================================================
