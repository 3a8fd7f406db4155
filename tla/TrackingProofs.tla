--------------------------- MODULE TrackingProofs ---------------------------
(***************************************************************************)
(* What two peers that agreed have signed; what the reference law gives    *)
(* away; and that under no law the filter loses the truth, or gives up its *)
(* history, by rounding, decay or overlapping trails: for any              *)
(* configurations, any board and any scent parameters within their named   *)
(* assumptions.                                                            *)
(***************************************************************************)
EXTENDS Tracking, FiniteSetTheorems, WellFoundedInduction, TLAPS

-----------------------------------------------------------------------------
(* One contract.                                                           *)

\* The whole of the handshake's state.
HandshakeInv ==
    /\ config \in [Roles -> Configs]
    /\ DOMAIN phase = Roles
    /\ \A r \in Roles :
          phase[r] = "agreed" => Acceptable(Message(config[r]), Message(config[Opp(r)]))

LEMMA ConfigKept == ASSUME [Next]_vars PROVE config' = config /\ lab' = lab /\ emitter' = emitter
  BY DEF Next, Negotiate, AgreementNext, Launch, Offer, Agree, Expire, EmitTurn, ReadTurn, vars, body

LEMMA HandshakeStep == ASSUME HandshakeInv, [Next]_vars PROVE HandshakeInv'
  <1>1. config' = config
    BY ConfigKept
  <1>2. CASE phase' = phase
    BY <1>1, <1>2 DEF HandshakeInv
  <1>3. CASE phase' # phase
    <2>1. PICK r \in Roles : Launch(r) \/ Offer(r) \/ Agree(r) \/ Expire(r)
      BY <1>3 DEF Next, Negotiate, AgreementNext, EmitTurn, ReadTurn, vars
    <2>2. PICK p : /\ phase' = [phase EXCEPT ![r] = p]
                   /\ p = "agreed" => Acceptable(Message(config[r]), Message(config[Opp(r)]))
      BY <2>1 DEF Launch, Offer, Agree, Expire
    <2>3. DOMAIN phase' = Roles
      BY <2>2 DEF HandshakeInv
    <2>4. \A s \in Roles : phase'[s] = IF s = r THEN p ELSE phase[s]
      BY <2>2 DEF HandshakeInv
    <2>5. \A s \in Roles :
             phase'[s] = "agreed" => Acceptable(Message(config[s]), Message(config[Opp(s)]))
      BY <2>2, <2>4 DEF HandshakeInv
    <2>. QED  BY <1>1, <2>3, <2>5 DEF HandshakeInv
  <1>. QED  BY <1>2, <1>3

\* Whatever a peer sends, it has signed.
LEMMA AcceptedAlike ==
    ASSUME NEW c, NEW d
    PROVE  Acceptable(Message(c), Message(d)) <=> Acceptable(Message(d), Message(c))
  <1>1. VerifySignature(Message(c)) /\ VerifySignature(Message(d))
    BY DEF VerifySignature, Message
  <1>2. LocksClash(Message(c), Message(d)) <=> LocksClash(Message(d), Message(c))
    BY DEF LocksClash
  <1>. QED  BY <1>1, <1>2 DEF Acceptable

LEMMA LocksAre ==
    ASSUME NEW c, NEW d, Acceptable(Message(c), Message(d))
    PROVE  \A f \in LockFields : Locks(c)[f] = None \/ Locks(d)[f] = None \/ Locks(c)[f] = Locks(d)[f]
  <1>1. Message(c).locks = Locks(c) /\ Message(d).locks = Locks(d)
    BY DEF Message
  <1>. QED  BY <1>1 DEF Acceptable, LocksClash

LEMMA LoadedIs ==
    ASSUME NEW c \in Configs
    PROVE  /\ Loaded(c).source = c.tree
           /\ Loaded(c).game.wired = c.tree.wired
  <1>1. "wired" \in DOMAIN c.tree /\ DOMAIN c.tree = Entries
    BY AgreementAssumption DEF Entries
  <1>2. PICK g : g = RuntimeTerms(c.tree)
    OBVIOUS
  <1>3. g.wired = c.tree.wired /\ DOMAIN g = DOMAIN c.tree
    BY <1>1, <1>2 DEF RuntimeTerms
  <1>4. OverrideGame(g, c.override).wired = c.tree.wired
    BY <1>1, <1>3 DEF OverrideGame
  <1>. QED  BY <1>2, <1>4 DEF Loaded

\* What is signed and locked in common is common.
LEMMA AcceptedMeans ==
    ASSUME NEW p \in Configs, NEW t \in Configs, Acceptable(Message(p), Message(t))
    PROVE  /\ GameUid(Message(p), Message(t)) = GameUid(Message(t), Message(p))
           /\ p.tree = t.tree
           /\ p.tree.wired \/ {Law(p), Law(t)} \subseteq Registered => Law(p) = Law(t)
  <1>1. Message(p).terms = BuildTerms(p) /\ Message(t).terms = BuildTerms(t)
    BY DEF Message
  <1>2. BuildTerms(p) = BuildTerms(t)
    BY <1>1 DEF Acceptable
  <1>3. GameUid(Message(p), Message(t)) = GameUid(Message(t), Message(p))
    <2>1. {Message(p).identity.group_id, Message(t).identity.group_id}
            = {Message(t).identity.group_id, Message(p).identity.group_id}
      OBVIOUS
    <2>. QED  BY <1>1, <1>2, <2>1 DEF GameUid
  <1>4. p.tree = t.tree
    <2>1. "config_sha256" \in LockFields
      BY DEF LockFields
    <2>2. Locks(p)["config_sha256"] = p.tree /\ Locks(t)["config_sha256"] = t.tree
      BY <2>1, LoadedIs DEF Locks, ConfigSha
    <2>. QED  BY <2>1, <2>2, LocksAre, AgreementAssumption
  <1>5. ASSUME p.tree.wired PROVE Law(p) = Law(t)
    <2>1. Loaded(p).game.wired /\ Loaded(t).game.wired
      BY <1>4, <1>5, LoadedIs
    <2>2. BuildTerms(p).dialect = Law(p) /\ BuildTerms(t).dialect = Law(t)
      BY <2>1 DEF BuildTerms, DialectTerms, Law
    <2>. QED  BY <1>2, <2>2
  <1>6. ASSUME Law(p) \in Registered, Law(t) \in Registered PROVE Law(p) = Law(t)
    <2>1. "scent_model_sha256" \in LockFields
      BY DEF LockFields
    <2>2. Locks(p)["scent_model_sha256"] = Law(p) /\ Locks(t)["scent_model_sha256"] = Law(t)
      BY <1>6, <2>1 DEF Locks
    <2>3. Law(p) # None /\ Law(t) # None
      BY <1>6, AgreementAssumption DEF Registered, Laws
    <2>. QED  BY <2>1, <2>2, <2>3, LocksAre
  <1>. QED  BY <1>3, <1>4, <1>5, <1>6

LEMMA ContractHolds == ASSUME HandshakeInv PROVE SameContract
  <1>1. PICK p, t : p = config["police"] /\ t = config["thief"]
    OBVIOUS
  <1>2. p \in Configs /\ t \in Configs
    BY <1>1 DEF HandshakeInv, Roles
  <1>3. Acceptable(Message(p), Message(t)) <=> Acceptable(Message(t), Message(p))
    BY AcceptedAlike
  <1>4. Agreed => Acceptable(Message(p), Message(t))
    BY <1>1 DEF HandshakeInv, Agreed, Roles, Opp
  <1>5. [r \in Roles |-> Message(config[r])]["police"] = Message(p)
        /\ [r \in Roles |-> Message(config[r])]["thief"] = Message(t)
    BY <1>1 DEF Roles
  <1>6. Agreed => /\ GameUid(Message(p), Message(t)) = GameUid(Message(t), Message(p))
                  /\ p.tree = t.tree
                  /\ p.tree.wired \/ {Law(p), Law(t)} \subseteq Registered => Law(p) = Law(t)
    BY <1>2, <1>4, AcceptedMeans
  <1>. QED  BY <1>1, <1>3, <1>5, <1>6 DEF SameContract

\* SameContract, of peer/handshake.py: what one peer accepts the other would,
\* and peers that both agreed have signed the same terms, loaded the same file
\* and run the same scent law wherever the terms or both locks name it.
THEOREM PeersSignOneContract == Spec => []SameContract
  <1>1. Init => HandshakeInv
    BY DEF Init, AgreementInit, HandshakeInv
  <1>2. HandshakeInv /\ [Next]_vars => HandshakeInv'
    BY HandshakeStep
  <1>3. HandshakeInv => SameContract
    BY ContractHolds
  <1>. QED  BY <1>1, <1>2, <1>3, PTL DEF Spec

-----------------------------------------------------------------------------
(* Arithmetic.                                                             *)

LEMMA DivIs ==
    ASSUME NEW a \in Int, NEW b \in Nat \ {0}, NEW q \in Int, b * q <= a, a < b * q + b
    PROVE  a \div b = q
  OBVIOUS

LEMMA DivMod ==
    ASSUME NEW a \in Nat, NEW b \in Nat \ {0}
    PROVE  a \div b \in Nat /\ a % b \in 0 .. b - 1 /\ a = b * (a \div b) + (a % b)
  OBVIOUS

LEMMA Products == ASSUME NEW a \in Nat \ {0}, NEW b \in Nat \ {0} PROVE a * b \in Nat \ {0}
  OBVIOUS

LEMMA Scaled ==
    ASSUME NEW a \in Nat \ {0}, NEW m \in Int, NEW n \in Int
    PROVE  /\ a * m \in Int /\ a * n \in Int
           /\ m <= n <=> a * m <= a * n
           /\ m < n <=> a * m < a * n
           /\ a * m - a * n = a * (m - n)
  OBVIOUS

-----------------------------------------------------------------------------
(* Stamps.                                                                 *)

LEMMA CellsHere ==
    \A c \in Cells : c[1] \in Int /\ c[2] \in Int /\ c = <<c[1], c[2]>>
  BY ScentAssumption DEF Cells, ValidParams

LEMMA RingIs ==
    ASSUME NEW a \in Cells, NEW c \in Cells
    PROVE  Ring(a, c) \in Nat /\ (Ring(a, c) = 0 <=> a = c)
  BY CellsHere DEF Ring, Greater, Magnitude

\* The fall of a stamp from ring to ring, its strength at the edge of the
\* window, and the strength of an emission, which no field exceeds.
Slope == Emit \div (Half + 1)

Low == Emit - Slope * Half

Top == Fine * Emit

Strengths == [Cells -> 0 .. Top]

LEMMA Levels ==
    /\ Fine \in Nat \ {0} /\ Emit \in Nat \ {0} /\ Half \in Nat /\ Rho \in 0 .. 10
    /\ Slope \in Nat /\ Low \in Nat /\ Top \in Nat /\ Low <= Emit
    /\ ZeroWeight \in Nat /\ Window = 2 * Half + 1 /\ Size \in Nat \ {0}
  <1>1. /\ Fine \in Nat \ {0} /\ Emit \in Nat \ {0} /\ Rho \in 0 .. 10
        /\ Window \in Nat /\ Window % 2 = 1 /\ ZeroWeight \in Nat /\ Size \in Nat \ {0}
    BY ScentAssumption DEF ValidParams
  <1>2. Half \in Nat /\ Window = 2 * Half + 1
    BY <1>1 DEF Half
  <1>3. Top \in Nat
    BY <1>1 DEF Top
  <1>4. PICK n, s, r : n = Half + 1 /\ s = Slope /\ r = Emit % n
    OBVIOUS
  <1>5. n \in Nat \ {0} /\ s \in Nat /\ r \in Nat /\ Emit = n * s + r
    <2>1. n \in Nat \ {0} /\ Emit \in Nat
      BY <1>1, <1>2, <1>4
    <2>2. s = Emit \div n
      BY <1>4 DEF Slope
    <2>3. /\ Emit \div n \in Nat /\ Emit % n \in 0 .. n - 1
          /\ Emit = n * (Emit \div n) + (Emit % n)
      BY <2>1, DivMod
    <2>. QED  BY <1>4, <2>1, <2>2, <2>3
  <1>6. s * Half \in Nat /\ n * s = s * Half + s
    BY <1>2, <1>4, <1>5
  <1>. QED  BY <1>1, <1>2, <1>3, <1>4, <1>5, <1>6 DEF Low

LEMMA StampIsDeposited ==
    ASSUME NEW d \in Dialects, NEW c \in Cells, NEW x \in Cells
    PROVE  Stamp(d, c, x) = Deposited(d, c, x)
  <1>1. \A f : Stored(f) = f
    BY DEF Stored
  <1>2. Stamps = [e \in Dialects |-> Stored([p \in Cells |->
                    Stored([q \in Cells |-> Deposited(e, p, q)])])]
    BY <1>1, Zenon DEF Stamps
  <1>3. Stamps[d] = [p \in Cells |-> Stored([q \in Cells |-> Deposited(d, p, q)])]
    BY <1>1, <1>2
  <1>4. Stamps[d][c] = [q \in Cells |-> Deposited(d, c, q)]
    BY <1>1, <1>3
  <1>. QED  BY <1>4 DEF Stamp

LEMMA KernelIs ==
    \A i, j \in 1 .. 5 : Figure4[i][j] \in 0 .. 900
  <1>1. \A i \in 1 .. 5 : i = 1 \/ i = 2 \/ i = 3 \/ i = 4 \/ i = 5
    OBVIOUS
  <1>2. \A i \in 1 .. 5 : \/ Figure4[i] = << 40, 140, 200, 140,  40>>
                          \/ Figure4[i] = <<140, 420, 620, 420, 140>>
                          \/ Figure4[i] = <<200, 620, 900, 620, 200>>
    BY <1>1 DEF Figure4
  <1>. QED  BY <1>1, <1>2

\* A stamp is no stronger than an emission; within the window of a law that
\* slopes it is no weaker than at its edge, and beyond it nothing.
LEMMA StampBounds ==
    ASSUME NEW d \in Dialects, NEW c \in Cells, NEW x \in Cells
    PROVE  /\ Stamp(d, c, x) \in 0 .. Top
           /\ d # "multiplicative_book_v1" /\ Ring(c, x) <= Half => Stamp(d, c, x) >= Fine * Low
           /\ d # "multiplicative_book_v1" /\ ~(Ring(c, x) <= Half) => Stamp(d, c, x) = 0
  <1>1. PICK ring : ring = Ring(c, x)
    OBVIOUS
  <1>2. ring \in Nat
    BY <1>1, RingIs
  <1>3. CASE d = "multiplicative_book_v1"
    <2>1. CASE ring <= 2
      <3>1. /\ c[1] \in Int /\ c[2] \in Int /\ x[1] \in Int /\ x[2] \in Int
        BY CellsHere
      <3>2. x[1] - c[1] + 3 \in 1 .. 5 /\ x[2] - c[2] + 3 \in 1 .. 5
        BY <1>1, <2>1, <3>1 DEF Ring, Greater, Magnitude
      <3>3. PICK k : k = Figure4[x[1] - c[1] + 3][x[2] - c[2] + 3]
        OBVIOUS
      <3>4. k \in Nat /\ k <= Emit
        <4>1. PICK i, j : i = x[1] - c[1] + 3 /\ j = x[2] - c[2] + 3
          OBVIOUS
        <4>2. Figure4[i][j] \in 0 .. 900
          BY <3>2, <4>1, KernelIs
        <4>3. Emit = 900
          BY ScentAssumption DEF PinnedCentre
        <4>4. k \in 0 .. 900
          BY <3>3, <4>1, <4>2
        <4>. QED  BY <4>3, <4>4
      <3>5. Deposited(d, c, x) = Fine * k
        BY <1>1, <1>3, <2>1, <3>3 DEF Deposited
      <3>6. Fine * k \in Nat /\ Fine * k <= Top
        BY <3>4, Levels, Scaled DEF Top
      <3>. QED  BY <1>3, <3>5, <3>6, StampIsDeposited, Levels
    <2>2. CASE ~(ring <= 2)
      BY <1>1, <1>3, <2>2, StampIsDeposited, Levels DEF Deposited
    <2>. QED  BY <2>1, <2>2
  <1>4. CASE d # "multiplicative_book_v1" /\ ring <= Half
    <2>1. PICK s, fall, most : s = Slope /\ fall = s * ring /\ most = s * Half
      OBVIOUS
    <2>2. /\ s \in Nat /\ fall \in Nat /\ most \in Nat /\ fall <= most
          /\ Low = Emit - most /\ Low \in Nat /\ Emit \in Nat
      <3>1. s * ring <= s * Half
        <4>1. CASE s = 0
          BY <1>2, <4>1, Levels
        <4>2. CASE s # 0
          BY <1>2, <1>4, <2>1, <4>2, Levels, Scaled
        <4>. QED  BY <4>1, <4>2
      <3>. QED  BY <1>2, <2>1, <3>1, Levels DEF Low
    <2>3. PICK k : k = Emit - fall
      OBVIOUS
    <2>4. k \in Nat /\ Low <= k /\ k <= Emit
      BY <2>2, <2>3
    <2>5. Deposited(d, c, x) = Fine * k
      BY <1>1, <1>4, <2>1, <2>3 DEF Deposited, Slope
    <2>6. Fine * k \in Nat /\ Fine * k <= Top /\ Fine * Low <= Fine * k
      BY <2>2, <2>4, Levels, Scaled DEF Top
    <2>. QED  BY <1>1, <1>4, <2>5, <2>6, StampIsDeposited, Levels
  <1>5. CASE d # "multiplicative_book_v1" /\ ~(ring <= Half)
    BY <1>1, <1>5, StampIsDeposited, Levels DEF Deposited
  <1>. QED  BY <1>3, <1>4, <1>5

-----------------------------------------------------------------------------
(* A turn under the reference law.                                         *)

\* An emission leaves more than a turn takes, and a turn takes something.
Decaying == Rho > 0 /\ 100 * Rho < Emit

\* The stamp falls off by at least a thousandth a ring.
Sloping == Emit \div (Half + 1) > 0

\* What is left of an emission after its turn, in thousandths.
Peak == Emit - 100 * Rho

LEMMA Parameters ==
    ASSUME Decaying
    PROVE  /\ Fine \in Nat \ {0} /\ Emit \in Nat \ {0} /\ Rho \in Nat \ {0} /\ Half \in Nat
           /\ Peak \in Nat \ {0} /\ Peak < Emit
  <1>1. Fine \in Nat \ {0} /\ Emit \in Nat \ {0} /\ Rho \in 0 .. 10 /\ Window \in Nat
    BY ScentAssumption DEF ValidParams
  <1>2. Half \in Nat
    BY <1>1, DivMod DEF Half
  <1>. QED  BY <1>1, <1>2 DEF Decaying, Peak

LEMMA Rounds ==
    ASSUME Decaying, NEW k \in Int
    PROVE  Thousandths(Fine * k, TRUE) = k
  <1>1. Fine \in Nat \ {0} /\ 2 \in Nat \ {0}
    BY Parameters
  <1>2. PICK h : h = Fine \div 2
    OBVIOUS
  <1>3. h \in Nat /\ h < Fine
    BY <1>1, <1>2
  <1>4. PICK a : a = Fine * k
    OBVIOUS
  <1>5. a \in Int /\ Fine * k <= a + h /\ a + h < Fine * k + Fine
    BY <1>1, <1>3, <1>4
  <1>6. (a + h) \div Fine = k
    BY <1>1, <1>3, <1>5, DivIs
  <1>. QED  BY <1>2, <1>3, <1>4, <1>5, <1>6 DEF Thousandths

\* A stamp of the reference law is whole, and strongest where it is made.
LEMMA StampIs ==
    ASSUME Decaying, Sloping, NEW c \in Cells, NEW x \in Cells
    PROVE  \E s \in Int : /\ Stamp("reference", c, x) = Fine * s
                          /\ s <= Emit /\ (x = c => s = Emit) /\ (x # c => s < Emit)
  <1>1. Stamp("reference", c, x) = Deposited("reference", c, x)
    BY StampIsDeposited DEF Dialects
  <1>2. PICK ring, slope : ring = Ring(c, x) /\ slope = Emit \div (Half + 1)
    OBVIOUS
  <1>3. /\ Fine \in Nat \ {0} /\ Emit \in Nat \ {0}
        /\ ring \in Nat /\ (ring = 0 <=> x = c) /\ slope \in Nat \ {0} /\ Half \in Nat
    <2>1. slope \in Nat
      <3>1. Half + 1 \in Nat \ {0} /\ Emit \in Nat
        BY Parameters
      <3>. QED  BY <1>2, <3>1, DivMod
    <2>. QED  BY <1>2, <2>1, Parameters, RingIs DEF Sloping
  <1>4. PICK fall : fall = slope * ring
    OBVIOUS
  <1>5. fall \in Nat /\ (x = c => fall = 0) /\ (x # c => fall > 0)
    BY <1>3, <1>4, Products
  <1>6. Deposited("reference", c, x) = IF ring <= Half THEN Fine * (Emit - fall) ELSE 0
    BY <1>2, <1>4 DEF Deposited
  <1>7. CASE ring <= Half
    <2>1. PICK s : s = Emit - fall
      OBVIOUS
    <2>2. s \in Int /\ s <= Emit /\ (x = c => s = Emit) /\ (x # c => s < Emit)
      BY <1>3, <1>5, <2>1
    <2>3. Stamp("reference", c, x) = Fine * s
      BY <1>1, <1>6, <1>7, <2>1
    <2>. QED  BY <2>2, <2>3
  <1>8. CASE ~(ring <= Half)
    <2>1. Stamp("reference", c, x) = Fine * 0 /\ x # c /\ 0 < Emit
      BY <1>1, <1>3, <1>6, <1>8
    <2>2. PICK s : s = 0 /\ s \in Int
      OBVIOUS
    <2>. QED  BY <1>3, <2>1, <2>2
  <1>. QED  BY <1>7, <1>8

\* The stamps of a cell under the reference law, in thousandths.
Stamped(s, c) ==
    /\ s \in [Cells -> 0 .. Emit]
    /\ \A x \in Cells : Stamp("reference", c, x) = Fine * s[x] /\ (s[x] = Emit <=> x = c)

LEMMA StampedIs ==
    ASSUME Decaying, Sloping, NEW c \in Cells
    PROVE  \E s : Stamped(s, c)
  <1> DEFINE Is(x, i) == Stamp("reference", c, x) = Fine * i /\ (i = Emit <=> x = c)
  <1>1. ASSUME NEW x \in Cells PROVE \E i \in 0 .. Emit : Is(x, i)
    <2>1. PICK i \in Int : /\ Stamp("reference", c, x) = Fine * i
                           /\ i <= Emit /\ (x = c => i = Emit) /\ (x # c => i < Emit)
      BY StampIs
    <2>2. Stamp("reference", c, x) \in 0 .. Top
      BY StampBounds DEF Dialects
    <2>3. Fine * 0 <= Fine * i
      BY <2>1, <2>2, Levels
    <2>4. 0 <= i
      BY <2>1, <2>3, Levels, Scaled
    <2>5. i \in 0 .. Emit /\ Is(x, i)
      BY <2>1, <2>4, Levels
    <2>. QED  BY <2>5
  <1>2. PICK s : s = [x \in Cells |-> CHOOSE i \in 0 .. Emit : Is(x, i)]
    OBVIOUS
  <1>3. \A x \in Cells : s[x] \in 0 .. Emit /\ Is(x, s[x])
    BY <1>1, <1>2
  <1>4. s \in [Cells -> 0 .. Emit]
    BY <1>2, <1>3
  <1>. QED  BY <1>3, <1>4 DEF Stamped

\* A field of whole thousandths that a turn has passed over.
Whole(f) == \E k \in [Cells -> 0 .. Peak] : f = [x \in Cells |-> Fine * k[x]]

\* It is strongest at c, and as strong as a turn leaves an emission.
Peaked(f, c) == f[c] = Fine * Peak /\ \A x \in Cells \ {c} : f[x] < f[c]

LEMMA WholeIs ==
    ASSUME Decaying, NEW f, Whole(f)
    PROVE  /\ f \in [Cells -> Nat]
           /\ Snapshot("reference", f, TRUE) = f /\ Absorb(f) = f
  <1>1. PICK k \in [Cells -> 0 .. Peak] : f = [x \in Cells |-> Fine * k[x]]
    BY DEF Whole
  <1>2. ASSUME NEW x \in Cells
        PROVE  k[x] \in Nat /\ f[x] = Fine * k[x] /\ Thousandths(f[x], TRUE) = k[x] /\ f[x] \in Nat
    <2>1. PICK n : n = k[x]
      OBVIOUS
    <2>2. n \in Nat /\ n \in Int /\ f[x] = Fine * n
      BY <1>1, <2>1, Parameters
    <2>3. Fine * n \in Nat
      BY <2>2, Parameters
    <2>. QED  BY <2>1, <2>2, <2>3, Rounds
  <1>3. \A x \in Cells : f[x] \in Nat
    BY <1>2
  <1>4. Snapshot("reference", f, TRUE) = [x \in Cells |-> Fine * Thousandths(f[x], TRUE)]
    BY DEF Snapshot
  <1>5. Absorb(f) = [x \in Cells |-> f[x]]
    BY <1>3 DEF Absorb, Greater
  <1>. QED  BY <1>1, <1>2, <1>3, <1>4, <1>5

LEMMA NoScentIs == ASSUME Decaying PROVE Whole(NoScent)
  <1>1. PICK k : k = [x \in Cells |-> 0]
    OBVIOUS
  <1>2. k \in [Cells -> 0 .. Peak] /\ NoScent = [x \in Cells |-> Fine * k[x]]
    BY <1>1, Parameters DEF NoScent
  <1>. QED  BY <1>2 DEF Whole

\* What is left after the turn of the greater of two strengths.
Left(m, n) == Greater(0, Greater(m, n) - 100 * Rho)

LEMMA LeftIs ==
    ASSUME Decaying, NEW m \in 0 .. Emit, NEW n \in 0 .. Emit, NEW o \in 0 .. Emit
    PROVE  /\ Left(m, n) \in 0 .. Peak
           /\ Left(m, Emit) = Peak /\ (m < Emit /\ n < Emit => Left(m, n) < Peak)
           /\ Left(0, n) <= Left(m, n) /\ Left(0, m) <= Left(m, n)
           /\ Left(m, n) = Left(0, n) \/ Left(m, n) <= Left(m, o)
           /\ Left(Emit, n) = Peak
  <1>1. PICK r : r = 100 * Rho
    OBVIOUS
  <1>2. r \in Nat /\ r > 0 /\ r < Emit /\ Emit \in Nat
    BY <1>1, Parameters DEF Decaying
  <1>. QED  BY <1>1, <1>2 DEF Left, Greater, Peak

\* k is the field f in thousandths; w is what a turn leaves of k and stamps s.
Fines(k) == [x \in Cells |-> Fine * k[x]]

Grained(f, k) == k \in [Cells -> 0 .. Emit] /\ f = Fines(k)

After(w, k, s) == w = [x \in Cells |-> Left(k[x], s[x])]

\* A turn under the reference law, in thousandths.
LEMMA TurnLeaves ==
    ASSUME Decaying, Sloping, NEW f, NEW k, Grained(f, k), NEW c \in Cells, NEW s, Stamped(s, c),
           NEW w, After(w, k, s)
    PROVE  /\ w \in [Cells -> 0 .. Peak]
           /\ FullTurn("reference", f, c, TRUE) = Fines(w)
           /\ Forward("reference", f, c, TRUE) = Fines(w)
  <1> USE DEF Grained, After, Fines
  <1>1. \A x \in Cells : k[x] \in 0 .. Emit /\ s[x] \in 0 .. Emit
    BY DEF Stamped
  <1>2. w \in [Cells -> 0 .. Peak]
    BY <1>1, LeftIs
  <1>3. PICK g : g = FullTurn("reference", f, c, TRUE)
    OBVIOUS
  <1>4. g = [x \in Cells |-> Greater(0, Greater(f[x], Stamp("reference", c, x)) - 100 * Rho * Fine)]
    BY <1>3 DEF FullTurn, Fade, Deposit, Decay, Merge
  <1>5. ASSUME NEW x \in Cells PROVE g[x] = Fine * w[x]
    <2>1. PICK a, b, r : a = k[x] /\ b = s[x] /\ r = 100 * Rho
      OBVIOUS
    <2>2. a \in Int /\ b \in Int /\ r \in Int /\ Fine \in Nat \ {0}
      BY <1>1, <2>1, Parameters
    <2>3. f[x] = Fine * a /\ Stamp("reference", c, x) = Fine * b
      BY <2>1 DEF Stamped
    <2>4. PICK m : m = Greater(a, b)
      OBVIOUS
    <2>5. m \in Int /\ Greater(Fine * a, Fine * b) = Fine * m
      BY <2>2, <2>4, Scaled DEF Greater
    <2>6. Fine * m - r * Fine = Fine * (m - r)
      BY <2>2, <2>5
    <2>7. Greater(0, Fine * (m - r)) = Fine * Greater(0, m - r)
      <3>1. m - r \in Int /\ Fine * 0 = 0
        BY <2>2, <2>5
      <3>. QED  BY <2>2, <3>1, Scaled DEF Greater
    <2>8. g[x] = Greater(0, Fine * m - r * Fine)
      BY <1>4, <2>1, <2>3, <2>5
    <2>9. w[x] = Greater(0, m - r)
      BY <2>1, <2>4 DEF Left
    <2>. QED  BY <2>6, <2>7, <2>8, <2>9
  <1>6. g = [x \in Cells |-> Fine * w[x]]
    BY <1>4, <1>5
  <1>7. Snapshot("reference", g, TRUE) = g
    BY <1>2, <1>6, WholeIs DEF Whole
  <1>8. Absorb(f) = f
    <2>1. \A x \in Cells : Fine * k[x] \in Nat
      <3>1. ASSUME NEW n \in 0 .. Emit PROVE Fine * n \in Nat
        BY Parameters
      <3>. QED  BY <1>1, <3>1
    <2>2. \A x \in Cells : Greater(0, f[x]) = Fine * k[x]
      BY <2>1 DEF Greater
    <2>. QED  BY <2>2 DEF Absorb
  <1>. QED  BY <1>2, <1>3, <1>6, <1>7, <1>8 DEF Forward

LEMMA ForwardLeaves ==
    ASSUME Decaying, Sloping, NEW f, NEW k, Grained(f, k), NEW c \in Cells, NEW s, Stamped(s, c),
           NEW w, After(w, k, s)
    PROVE  Forward("reference", f, c, TRUE) = Fines(w)
  BY TurnLeaves

LEMMA TurnIs ==
    ASSUME Decaying, Sloping, NEW f, Whole(f), NEW c \in Cells
    PROVE  /\ Whole(FullTurn("reference", f, c, TRUE))
           /\ Peaked(FullTurn("reference", f, c, TRUE), c)
  <1>1. PICK k \in [Cells -> 0 .. Peak] : f = Fines(k)
    BY DEF Whole, Fines
  <1>2. /\ Fine \in Nat \ {0} /\ Emit \in Nat /\ Peak \in Nat /\ Peak < Emit
        /\ \A x \in Cells : k[x] \in 0 .. Emit /\ k[x] < Emit
    BY Parameters
  <1>3. Grained(f, k)
    BY <1>1, <1>2 DEF Grained
  <1>4. PICK s : Stamped(s, c)
    BY StampedIs
  <1>5. PICK w : After(w, k, s)
    BY DEF After
  <1>6. PICK g : g = FullTurn("reference", f, c, TRUE)
    OBVIOUS
  <1>7. w \in [Cells -> 0 .. Peak] /\ g = Fines(w)
    BY <1>3, <1>4, <1>5, <1>6, TurnLeaves
  <1>8. Whole(g)
    BY <1>7 DEF Whole, Fines
  <1>9. Peaked(g, c)
    <2>1. \A x \in Cells : s[x] \in 0 .. Emit /\ (s[x] = Emit <=> x = c) /\ w[x] = Left(k[x], s[x])
      BY <1>4, <1>5 DEF Stamped, After
    <2>2. w[c] = Peak
      BY <1>2, <2>1, LeftIs
    <2>3. ASSUME NEW x \in Cells \ {c} PROVE Fine * w[x] < Fine * Peak
      <3>1. s[x] < Emit
        BY <1>2, <2>1
      <3>2. w[x] < Peak
        BY <1>2, <2>1, <3>1, LeftIs
      <3>3. w[x] \in Int
        BY <1>2, <1>7
      <3>. QED  BY <1>2, <3>2, <3>3, Scaled
    <2>4. \A x \in Cells : g[x] = Fine * w[x]
      BY <1>7 DEF Fines
    <2>. QED  BY <2>2, <2>3, <2>4 DEF Peaked
  <1>. QED  BY <1>6, <1>8, <1>9

-----------------------------------------------------------------------------
(* The stand-in belief.                                                    *)

LEMMA StrongestIs ==
    ASSUME NEW f \in [Cells -> Nat], NEW c \in Cells, Peaked(f, c)
    PROVE  Strongest(f) = c
  <1> DEFINE Best(p) == \A x \in Cells \ {p} : f[x] < f[p] \/ (f[x] = f[p] /\ Before(p, x))
  <1>1. Best(c)
    BY DEF Peaked
  <1>2. \A p \in Cells : Best(p) => p = c
    BY DEF Peaked
  <1>3. Strongest(f) = CHOOSE p \in Cells : Best(p)
    BY DEF Strongest
  <1>. QED  BY <1>1, <1>2, <1>3

\* Under the reference law the grid is the field, and its peak the emitter.
PinInv ==
    /\ pos \in Cells /\ turn \in Nat /\ emitter \in Roles
    /\ LawOf(emitter) = "reference" =>
        /\ Whole(field) /\ air = field
        /\ turn > 0 => Peaked(field, pos)
        /\ turn > 0 /\ ~unread => mode = pos

LEMMA PinInit == ASSUME Decaying, Init PROVE PinInv
  BY NoScentIs, TrackingAssumption DEF Init, PinInv, Start

LEMMA EmitIs ==
    ASSUME Decaying, Sloping, PinInv, EmitTurn, LawOf(emitter) = "reference"
    PROVE  /\ field' = FullTurn("reference", field, pos', TRUE)
           /\ pos' \in Cells /\ Whole(field') /\ Peaked(field', pos') /\ air' = field'
  <1>1. pos' \in Cells
    BY DEF EmitTurn, CanStep, PinInv
  <1>2. field' = FullTurn("reference", field, pos', TRUE) /\ air' = Snapshot("reference", field', TRUE)
    <2>1. PICK up \in Ties("reference") :
            /\ field' = FullTurn("reference", field, pos', up)
            /\ air' = Snapshot("reference", field', up)
      BY DEF EmitTurn
    <2>2. up = TRUE
      BY <2>1 DEF Ties
    <2>. QED  BY <2>1, <2>2
  <1>3. Whole(field)
    BY DEF PinInv
  <1>4. PICK g, c : g = field' /\ c = pos'
    OBVIOUS
  <1>5. Whole(g) /\ Peaked(g, c)
    BY <1>1, <1>2, <1>3, <1>4, TurnIs
  <1>6. Snapshot("reference", g, TRUE) = g
    BY <1>5, WholeIs
  <1>. QED  BY <1>1, <1>2, <1>4, <1>5, <1>6

LEMMA PinStep == ASSUME Decaying, Sloping, PinInv, [Next]_vars PROVE PinInv'
  <1>1. config' = config /\ emitter' = emitter /\ LawOf(emitter)' = LawOf(emitter)
    BY ConfigKept DEF LawOf
  <1>2. CASE UNCHANGED <<sent, unread, filter>>
    BY <1>1, <1>2 DEF PinInv, sent, filter, Whole, Peaked
  <1>3. CASE EmitTurn
    <2>1. turn' = turn + 1 /\ unread' = TRUE /\ pos' \in Cells
      BY <1>3 DEF EmitTurn, CanStep, PinInv
    <2>2. LawOf(emitter) = "reference" => Whole(field') /\ Peaked(field', pos') /\ air' = field'
      BY <1>3, EmitIs
    <2>. QED  BY <1>1, <2>1, <2>2 DEF PinInv, Whole, Peaked
  <1>4. CASE ReadTurn
    <2>1. UNCHANGED sent /\ mode' = IF air = NoScent THEN mode ELSE Strongest(air)
      BY <1>4 DEF ReadTurn, Follow
    <2>2. ASSUME LawOf(emitter) = "reference", turn > 0 PROVE mode' = pos
      <3>1. /\ pos \in Cells /\ air \in [Cells -> Nat] /\ Peaked(air, pos)
        BY <2>2, WholeIs DEF PinInv
      <3>2. air # NoScent
        <4>1. Fine * Peak \in Nat \ {0}
          BY Parameters, Products
        <4>. QED  BY <3>1, <4>1 DEF Peaked, NoScent
      <3>. QED  BY <2>1, <3>1, <3>2, StrongestIs
    <2>. QED  BY <1>1, <2>1, <2>2 DEF PinInv, sent, Whole, Peaked
  <1>. QED  BY <1>2, <1>3, <1>4 DEF Next, Negotiate, vars

LEMMA PinInvariant == ASSUME Decaying, Sloping PROVE Spec => []PinInv
  <1>1. Init => PinInv
    BY PinInit
  <1>2. PinInv /\ [Next]_vars => PinInv'
    BY PinStep
  <1>. QED  BY <1>1, <1>2, PTL DEF Spec

\* ScentPinpoints, of reference.py: the strongest cell of every grid is where
\* its emitter stands, whatever trail lies under it, so that the stand-in
\* belief (ScentBelief.observe_smell) is never wrong.
THEOREM ScentGivesAway == ASSUME Decaying, Sloping PROVE Spec => []ScentPinpoints
  <1>1. PinInv => ScentPinpoints
    BY DEF PinInv, ScentPinpoints, Digested
  <1>. QED  BY <1>1, PinInvariant, PTL

-----------------------------------------------------------------------------
(* Sums over the board.                                                    *)

\* The cells are numbered row by row.
LEMMA CellAtIs ==
    /\ Size * Size \in Nat
    /\ \A i \in 1 .. Size * Size : CellAt(i) \in Cells
    /\ \A c \in Cells : \E i \in 1 .. Size * Size : CellAt(i) = c
  <1>1. Size \in Nat \ {0} /\ Size * Size \in Nat
    BY BoardAssumption
  <1>2. ASSUME NEW i \in 1 .. Size * Size PROVE CellAt(i) \in Cells
    <2>1. PICK j, r, m : j = i - 1 /\ r = j \div Size /\ m = j % Size
      OBVIOUS
    <2>2. j \in Nat /\ j < Size * Size
      BY <1>1, <1>2, <2>1
    <2>3. r \in Nat /\ m \in 0 .. Size - 1 /\ j = Size * r + m
      BY <1>1, <2>1, <2>2, DivMod
    <2>4. Size * r < Size * Size
      <3>1. Size * r \in Nat
        BY <1>1, <2>3
      <3>. QED  BY <1>1, <2>2, <2>3, <3>1
    <2>5. r < Size
      BY <1>1, <2>3, <2>4, Scaled
    <2>. QED  BY <1>1, <2>1, <2>3, <2>5 DEF CellAt, Cells
  <1>3. ASSUME NEW c \in Cells PROVE \E i \in 1 .. Size * Size : CellAt(i) = c
    <2>1. PICK r, m : r \in 0 .. Size - 1 /\ m \in 0 .. Size - 1 /\ c = <<r, m>>
      BY DEF Cells
    <2>2. PICK j : j = Size * r + m
      OBVIOUS
    <2>3. /\ Size * r \in Nat /\ j \in Nat /\ Size * r <= j /\ j < Size * r + Size
      <3>1. Size * r \in Nat
        BY <1>1, <2>1
      <3>. QED  BY <1>1, <2>1, <2>2, <3>1
    <2>4. j \div Size = r
      BY <1>1, <2>1, <2>3, DivIs
    <2>5. j % Size = m
      <3>1. j = Size * (j \div Size) + (j % Size) /\ j % Size \in 0 .. Size - 1
        BY <1>1, <2>3, DivMod
      <3>. QED  BY <1>1, <2>1, <2>2, <2>3, <2>4, <3>1
    <2>6. Size * r + Size <= Size * Size
      <3>1. Size * (r + 1) <= Size * Size
        BY <1>1, <2>1, Scaled
      <3>2. Size * (r + 1) = Size * r + Size
        BY <1>1, <2>1
      <3>. QED  BY <3>1, <3>2
    <2>7. PICK i : i = j + 1
      OBVIOUS
    <2>8. i \in 1 .. Size * Size /\ i - 1 = j
      BY <1>1, <2>3, <2>6, <2>7
    <2>. QED  BY <2>1, <2>4, <2>5, <2>8 DEF CellAt
  <1>. QED  BY <1>1, <1>2, <1>3

\* A set of numbers has a least one.
LEMMA LeastOf ==
    ASSUME NEW T, T \subseteq Nat, T # {}
    PROVE  \E m \in T : \A k \in T : m <= k
  <1>1. PICK m \in T : \A k \in T : <<k, m>> \notin OpToRel(<, Nat)
    BY WFMin, NatLessThanWellFounded, Zenon
  <1>2. ASSUME NEW k \in T PROVE m <= k
    <2>1. k \in Nat /\ m \in Nat
      OBVIOUS
    <2>2. ~(k < m)
      BY <1>1, <2>1 DEF OpToRel
    <2>. QED  BY <2>1, <2>2
  <1>. QED  BY <1>2

IsSums(g, w, k) == g = [i \in 0 .. k |-> IF i = 0 THEN 0 ELSE g[i - 1] + w[CellAt(i)]]

LEMMA SumsExist ==
    ASSUME NEW w, NEW k \in Nat
    PROVE  \E g : IsSums(g, w, k)
  <1> USE DEF IsSums
  <1> DEFINE Grows(m) == \E g : IsSums(g, w, m)
             T == {m \in Nat : ~Grows(m)}
  <1>1. SUFFICES ASSUME T # {} PROVE FALSE
    BY <1>1
  <1>2. PICK m \in T : \A j \in T : m <= j
    BY <1>1, LeastOf
  <1>3. CASE m = 0
    <2>1. PICK g : g = [i \in 0 .. 0 |-> 0]
      OBVIOUS
    <2>2. g = [i \in 0 .. 0 |-> IF i = 0 THEN 0 ELSE g[i - 1] + w[CellAt(i)]]
      BY <2>1
    <2>3. Grows(0)
      BY <2>2
    <2>. QED  BY <1>2, <1>3, <2>3
  <1>4. CASE m # 0
    <2>1. m - 1 \in Nat /\ m - 1 \notin T
      <3>1. m \in Nat /\ m - 1 \in Nat /\ ~(m <= m - 1)
        BY <1>2, <1>4
      <3>. QED  BY <1>2, <3>1
    <2>2. PICK g : g = [i \in 0 .. m - 1 |-> IF i = 0 THEN 0 ELSE g[i - 1] + w[CellAt(i)]]
      BY <2>1
    <2>3. PICK h : h = [i \in 0 .. m |-> IF i = 0 THEN 0 ELSE g[i - 1] + w[CellAt(i)]]
      OBVIOUS
    <2>4. ASSUME NEW i \in 0 .. m - 1 PROVE h[i] = g[i]
      <3>1. i \in 0 .. m
        BY <1>2, <2>4
      <3>2. h[i] = IF i = 0 THEN 0 ELSE g[i - 1] + w[CellAt(i)]
        BY <2>3, <3>1
      <3>3. g[i] = IF i = 0 THEN 0 ELSE g[i - 1] + w[CellAt(i)]
        BY <2>2, <2>4
      <3>. QED  BY <3>2, <3>3
    <2>5. \A i \in 0 .. m : i # 0 => i - 1 \in 0 .. m - 1
      BY <1>2
    <2>6. h = [i \in 0 .. m |-> IF i = 0 THEN 0 ELSE h[i - 1] + w[CellAt(i)]]
      BY <2>3, <2>4, <2>5
    <2>7. Grows(m)
      BY <2>6
    <2>. QED  BY <1>2, <2>7
  <1>. QED  BY <1>3, <1>4

\* g are the partial sums of w along the cells.
SumsUp(g, w, n) ==
    /\ Total(w) = g[n] /\ g[0] = 0
    /\ \A i \in 1 .. n : g[i] = g[i - 1] + w[CellAt(i)]
    /\ \A i \in 1 .. n : CellAt(i) \in Cells
    /\ \A x \in Cells : \E i \in 1 .. n : CellAt(i) = x

\* The total is the last of the partial sums.
LEMMA SumsOf ==
    ASSUME NEW w, NEW n, n = Size * Size
    PROVE  n \in Nat /\ \E g : SumsUp(g, w, n)
  <1>1. n = Size * Size
    OBVIOUS
  <1>2. n \in Nat
    BY <1>1, CellAtIs
  <1>3. PICK g : IsSums(g, w, n) /\ Total(w) = g[n]
    <2>1. \E g : IsSums(g, w, Size * Size)
      BY <1>1, <1>2, SumsExist
    <2>2. Total(w) = (CHOOSE g : IsSums(g, w, Size * Size))[Size * Size]
      BY Zenon DEF Total, IsSums
    <2>. QED  BY <1>1, <2>1, <2>2
  <1>4. \A i \in 0 .. n : g[i] = IF i = 0 THEN 0 ELSE g[i - 1] + w[CellAt(i)]
    BY <1>3 DEF IsSums
  <1>5. g[0] = 0 /\ \A i \in 1 .. n : g[i] = g[i - 1] + w[CellAt(i)]
    BY <1>2, <1>4
  <1>6. \A i \in 1 .. n : CellAt(i) \in Cells
    BY <1>1, CellAtIs
  <1>7. \A x \in Cells : \E i \in 1 .. n : CellAt(i) = x
    BY <1>1, CellAtIs
  <1>. QED  BY <1>2, <1>3, <1>5, <1>6, <1>7 DEF SumsUp

\* A total of scores is nothing only where every score is.
LEMMA TotalIs ==
    ASSUME NEW w, \A x \in Cells : w[x] \in Nat
    PROVE  /\ Total(w) \in Nat
           /\ Total(w) = 0 <=> \A x \in Cells : w[x] = 0
  <1>0. PICK n : n = Size * Size
    OBVIOUS
  <1>1. PICK g : n \in Nat /\ n = Size * Size /\ SumsUp(g, w, n)
    BY <1>0, SumsOf
  <1>2. n \in Nat /\ \A i \in 1 .. n : w[CellAt(i)] \in Nat
    BY <1>1 DEF SumsUp
  <1>3. Total(w) = g[n]
    BY <1>1 DEF SumsUp
  <1>4. \A i \in 0 .. n : g[i] = IF i = 0 THEN 0 ELSE g[i - 1] + w[CellAt(i)]
    BY <1>1, <1>2 DEF SumsUp
  <1> DEFINE Holds(i) == g[i] \in Nat /\ (g[i] = 0 <=> \A j \in 1 .. i : w[CellAt(j)] = 0)
  <1>5. PICK T : T = {i \in 0 .. n : ~Holds(i)}
    OBVIOUS
  <1>6. T = {}
    <2>1. SUFFICES ASSUME T # {} PROVE FALSE
      OBVIOUS
    <2>2. T \subseteq Nat
      BY <1>2, <1>5
    <2>3. PICK i \in T : \A j \in T : i <= j
      BY <2>1, <2>2, LeastOf
    <2>4. i \in 0 .. n /\ ~Holds(i)
      BY <1>5, <2>3
    <2>5. i # 0
      <3>1. ASSUME i = 0 PROVE g[i] = 0
        BY <1>4, <2>4, <3>1
      <3>. QED  BY <2>4, <3>1
    <2>6. i - 1 \in 0 .. n /\ i - 1 \notin T
      BY <1>2, <2>2, <2>3, <2>4, <2>5
    <2>7. Holds(i - 1)
      BY <1>5, <2>6
    <2>8. g[i] = g[i - 1] + w[CellAt(i)] /\ w[CellAt(i)] \in Nat
      BY <1>2, <1>4, <2>4, <2>5
    <2>9. \A j \in 1 .. i : j = i \/ j \in 1 .. i - 1
      BY <2>4
    <2>10. \A j \in 1 .. i - 1 : j \in 1 .. i
      BY <2>4
    <2>11. i \in 1 .. i
      BY <2>4, <2>5
    <2>12. g[i] \in Nat /\ (g[i] = 0 <=> g[i - 1] = 0 /\ w[CellAt(i)] = 0)
      BY <2>7, <2>8
    <2>13. (\A j \in 1 .. i : w[CellAt(j)] = 0)
              <=> (\A j \in 1 .. i - 1 : w[CellAt(j)] = 0) /\ w[CellAt(i)] = 0
      BY <2>9, <2>10, <2>11
    <2>. QED  BY <2>4, <2>7, <2>12, <2>13
  <1>7. Holds(n)
    BY <1>2, <1>5, <1>6
  <1>8. (\A j \in 1 .. n : w[CellAt(j)] = 0) <=> (\A x \in Cells : w[x] = 0)
    BY <1>1, CellAtIs
  <1>. QED  BY <1>3, <1>7, <1>8

\* A total is at least each of its scores, and at most the greatest for every
\* cell.
LEMMA TotalBounds ==
    ASSUME NEW w, \A x \in Cells : w[x] \in Nat
    PROVE  /\ \A x \in Cells : w[x] <= Total(w)
           /\ \A b \in Nat : (\A x \in Cells : w[x] <= b) => Total(w) <= b * (Size * Size)
  <1>0. PICK n : n = Size * Size
    OBVIOUS
  <1>1. PICK g : n \in Nat /\ n = Size * Size /\ SumsUp(g, w, n)
    BY <1>0, SumsOf
  <1> USE DEF SumsUp
  <1> DEFINE Holds(i) == /\ g[i] \in Nat
                         /\ \A j \in 1 .. i : w[CellAt(j)] <= g[i]
                         /\ \A b \in Nat : (\A x \in Cells : w[x] <= b) => g[i] <= b * i
  <1>2. PICK T : T = {i \in 0 .. n : ~Holds(i)}
    OBVIOUS
  <1>3. T = {}
    <2>1. SUFFICES ASSUME T # {} PROVE FALSE
      OBVIOUS
    <2>2. T \subseteq Nat
      BY <1>2
    <2>3. PICK i \in T : \A j \in T : i <= j
      BY <2>1, <2>2, LeastOf
    <2>4. i \in 0 .. n /\ ~Holds(i)
      BY <1>2, <2>3
    <2>5. Holds(0)
      BY <1>1
    <2>6. i \in 1 .. n
      BY <2>4, <2>5
    <2>7. i - 1 \in 0 .. n /\ i - 1 \notin T
      BY <1>1, <2>2, <2>3, <2>6
    <2>8. Holds(i - 1)
      BY <1>2, <2>7
    <2>9. g[i] = g[i - 1] + w[CellAt(i)] /\ w[CellAt(i)] \in Nat /\ CellAt(i) \in Cells
      BY <1>1, <2>6
    <2>10. g[i] \in Nat /\ \A j \in 1 .. i : w[CellAt(j)] <= g[i]
      <3>1. \A j \in 1 .. i : j = i \/ j \in 1 .. i - 1
        BY <2>6
      <3>2. g[i - 1] \in Nat /\ \A j \in 1 .. i - 1 : w[CellAt(j)] <= g[i - 1]
        BY <2>8
      <3>3. g[i] \in Nat /\ g[i - 1] <= g[i] /\ w[CellAt(i)] <= g[i]
        BY <2>9, <3>2
      <3>4. \A j \in 1 .. i : CellAt(j) \in Cells /\ w[CellAt(j)] \in Nat
        BY <1>1, <2>6
      <3>5. ASSUME NEW j \in 1 .. i - 1 PROVE w[CellAt(j)] <= g[i]
        <4>1. w[CellAt(j)] <= g[i - 1] /\ w[CellAt(j)] \in Nat
          BY <2>6, <3>2, <3>4
        <4>. QED  BY <3>2, <3>3, <4>1
      <3>. QED  BY <3>1, <3>3, <3>5
    <2>11. ASSUME NEW b \in Nat, \A x \in Cells : w[x] <= b PROVE g[i] <= b * i
      <3>1. g[i - 1] <= b * (i - 1) /\ w[CellAt(i)] <= b /\ g[i - 1] \in Nat
        BY <2>8, <2>9, <2>11
      <3>2. b * i = b * (i - 1) + b /\ b * (i - 1) \in Int
        BY <2>6
      <3>. QED  BY <2>9, <3>1, <3>2
    <2>. QED  BY <2>4, <2>10, <2>11
  <1>4. Holds(n)
    BY <1>1, <1>2, <1>3
  <1>5. ASSUME NEW x \in Cells PROVE w[x] <= Total(w)
    BY <1>1, <1>4
  <1>. QED  BY <1>1, <1>4, <1>5

\* Greater scores make a greater total.
LEMMA TotalsCompare ==
    ASSUME NEW w, NEW v, \A x \in Cells : w[x] \in Nat /\ v[x] \in Nat /\ w[x] <= v[x]
    PROVE  /\ Total(w) <= Total(v)
           /\ (\E x \in Cells : w[x] < v[x]) => Total(w) < Total(v)
  <1>0. PICK n : n = Size * Size
    OBVIOUS
  <1>1. PICK g : n \in Nat /\ n = Size * Size /\ SumsUp(g, w, n)
    BY <1>0, SumsOf
  <1>2. PICK h : SumsUp(h, v, n)
    BY <1>0, SumsOf
  <1> USE DEF SumsUp
  <1> DEFINE Holds(i) == /\ g[i] \in Nat /\ h[i] \in Nat /\ g[i] <= h[i]
                         /\ (\E j \in 1 .. i : w[CellAt(j)] < v[CellAt(j)]) => g[i] < h[i]
  <1>4. PICK T : T = {i \in 0 .. n : ~Holds(i)}
    OBVIOUS
  <1>5. T = {}
    <2>1. SUFFICES ASSUME T # {} PROVE FALSE
      OBVIOUS
    <2>2. T \subseteq Nat
      BY <1>4
    <2>3. PICK i \in T : \A j \in T : i <= j
      BY <2>1, <2>2, LeastOf
    <2>4. i \in 0 .. n /\ ~Holds(i)
      BY <1>4, <2>3
    <2>5. Holds(0)
      BY <1>1, <1>2
    <2>6. i \in 1 .. n
      BY <2>4, <2>5
    <2>7. i - 1 \in 0 .. n /\ i - 1 \notin T
      BY <1>1, <2>2, <2>3, <2>6
    <2>8. Holds(i - 1)
      BY <1>4, <2>7
    <2>9. PICK a, b : a = w[CellAt(i)] /\ b = v[CellAt(i)]
      OBVIOUS
    <2>10. /\ g[i] = g[i - 1] + a /\ h[i] = h[i - 1] + b
           /\ a \in Nat /\ b \in Nat /\ a <= b
      BY <1>1, <1>2, <2>6, <2>9
    <2>11. g[i - 1] \in Nat /\ h[i - 1] \in Nat /\ g[i - 1] <= h[i - 1]
      BY <2>8
    <2>12. g[i] \in Nat /\ h[i] \in Nat /\ g[i] <= h[i]
      BY <2>10, <2>11
    <2>13. ASSUME NEW j \in 1 .. i, w[CellAt(j)] < v[CellAt(j)] PROVE g[i] < h[i]
      <3>1. CASE j = i
        BY <2>9, <2>10, <2>11, <2>13, <3>1
      <3>2. CASE j # i
        <4>1. j \in 1 .. i - 1
          BY <2>6, <3>2
        <4>2. g[i - 1] < h[i - 1]
          BY <2>8, <2>13, <4>1
        <4>. QED  BY <2>10, <2>11, <4>2
      <3>. QED  BY <3>1, <3>2
    <2>. QED  BY <2>4, <2>12, <2>13
  <1>6. Holds(n)
    BY <1>1, <1>4, <1>5
  <1>7. (\E x \in Cells : w[x] < v[x]) => \E j \in 1 .. n : w[CellAt(j)] < v[CellAt(j)]
    BY <1>1
  <1>. QED  BY <1>1, <1>2, <1>6, <1>7

-----------------------------------------------------------------------------
(* What a reader makes of a grid under the reference law.                  *)

LEMMA ScoreIs ==
    ASSUME NEW seen \in [Cells -> Nat], NEW expected \in [Cells -> Nat]
    PROVE  /\ Residual(seen, expected) \in Nat
           /\ expected = seen => Residual(seen, expected) = 0
           /\ (\E x \in Cells : seen[x] - expected[x] >= Fine) => Residual(seen, expected) > 0
  <1>1. Fine \in Nat \ {0} /\ ZeroWeight \in Nat
    BY ScentAssumption
  <1>2. PICK w : w = [x \in Cells |->
           Weight(seen[x], expected[x]) * Square(Magnitude(seen[x] - expected[x]) \div Fine)]
    OBVIOUS
  <1>3. Residual(seen, expected) = Total(w)
    BY <1>2 DEF Residual
  <1>4. ASSUME NEW x \in Cells
        PROVE  /\ w[x] \in Nat
               /\ expected[x] = seen[x] => w[x] = 0
               /\ seen[x] - expected[x] >= Fine => w[x] # 0
    <2>1. PICK a, b : a = seen[x] /\ b = expected[x]
      OBVIOUS
    <2>2. PICK m, q, z : m = Magnitude(a - b) /\ q = m \div Fine /\ z = Weight(a, b)
      OBVIOUS
    <2>3. a \in Nat /\ b \in Nat
      BY <2>1
    <2>4. m \in Nat /\ (a = b => m = 0) /\ (a - b >= Fine => m >= Fine)
      BY <1>1, <2>2, <2>3 DEF Magnitude
    <2>5. q \in Nat
      BY <1>1, <2>2, <2>4, DivMod
    <2>6. m = 0 => q = 0
      <3>1. Fine * 0 <= 0 /\ 0 < Fine * 0 + Fine
        BY <1>1
      <3>. QED  BY <1>1, <2>2, <3>1, DivIs
    <2>7. m >= Fine => q # 0
      <3>1. /\ m \div Fine \in Nat /\ m % Fine \in 0 .. Fine - 1
            /\ m = Fine * (m \div Fine) + (m % Fine)
        BY <1>1, <2>4, DivMod
      <3>2. q = 0 => Fine * (m \div Fine) = 0
        BY <1>1, <2>2
      <3>. QED  BY <1>1, <2>4, <3>1, <3>2
    <2>8. z \in Nat /\ (a > 0 => z = 10)
      BY <1>1, <2>2, <2>3 DEF Weight
    <2>9. w[x] = z * (q * q)
      BY <1>2, <2>1, <2>2 DEF Square
    <2>10. q * q \in Nat /\ (q = 0 => q * q = 0) /\ (q # 0 => q * q # 0)
      BY <2>5
    <2>11. a - b >= Fine => a > 0
      BY <1>1, <2>3
    <2>12. PICK s : s = q * q
      OBVIOUS
    <2>13. z * s \in Nat /\ (s = 0 => z * s = 0) /\ (z = 10 /\ s # 0 => z * s # 0)
      BY <2>8, <2>10, <2>12
    <2>. QED  BY <2>1, <2>4, <2>6, <2>7, <2>8, <2>9, <2>10, <2>11, <2>12, <2>13
  <1>5. /\ Total(w) \in Nat
        /\ Total(w) = 0 <=> \A x \in Cells : w[x] = 0
    BY <1>4, TotalIs
  <1>. QED  BY <1>3, <1>4, <1>5

\* The one continuation of the last grid that fits is from where the emitter
\* stands.
LEMMA ReadingIs ==
    ASSUME Decaying, Sloping, NEW f, Whole(f), NEW c \in Cells, NEW S \in SUBSET Cells, c \in S,
           NEW fit, fit = Continues("reference", FullTurn("reference", f, c, TRUE), f, S, TRUE)
    PROVE  Lowest(fit, S) = {c} /\ ~Resyncs(fit, S)
  <1>1. PICK g : g = FullTurn("reference", f, c, TRUE)
    OBVIOUS
  <1>2. Whole(g) /\ Peaked(g, c) /\ g \in [Cells -> Nat]
    BY <1>1, TurnIs, WholeIs
  <1>3. ASSUME NEW x \in S
        PROVE  /\ fit[x] = Residual(g, FullTurn("reference", f, x, TRUE))
               /\ fit[x] \in Nat /\ (x = c => fit[x] = 0) /\ (x # c => fit[x] > 0)
    <2>1. PICK h : h = FullTurn("reference", f, x, TRUE)
      OBVIOUS
    <2>2. Whole(h) /\ Peaked(h, x) /\ h \in [Cells -> Nat]
      BY <1>3, <2>1, TurnIs, WholeIs
    <2>3. Forward("reference", f, x, TRUE) = h
      BY <2>1, <2>2, WholeIs DEF Forward
    <2>4. fit[x] = Residual(g, h)
      BY <1>1, <1>3, <2>3 DEF Continues
    <2>5. x = c => h = g
      BY <1>1, <2>1
    <2>6. ASSUME x # c PROVE g[c] - h[c] >= Fine
      <3>1. PICK k \in [Cells -> 0 .. Peak] : h = [y \in Cells |-> Fine * k[y]]
        BY <2>2 DEF Whole
      <3>2. g[c] = Fine * Peak /\ h[c] < Fine * Peak
        BY <1>2, <2>2, <2>6 DEF Peaked
      <3>3. PICK n : n = k[c]
        OBVIOUS
      <3>4. n \in Int /\ n <= Peak /\ h[c] = Fine * n /\ Fine \in Nat \ {0} /\ Peak \in Int
        BY <3>1, <3>3, Parameters
      <3>5. n < Peak
        BY <3>2, <3>4, Scaled
      <3>6. Fine * 1 <= Fine * (Peak - n) /\ Fine * Peak - Fine * n = Fine * (Peak - n)
        BY <3>4, <3>5, Scaled
      <3>. QED  BY <3>2, <3>4, <3>6
    <2>. QED  BY <1>2, <2>1, <2>2, <2>4, <2>5, <2>6, ScoreIs
  <1>4. Lowest(fit, S) = {c}
    <2>1. fit[c] = 0 /\ c \in S
      BY <1>3
    <2>2. ASSUME NEW x \in S PROVE fit[x] \in Nat /\ (x # c => fit[x] > 0)
      BY <1>3, <2>2
    <2>3. \A x \in S : (\A y \in S : fit[x] <= fit[y]) <=> x = c
      BY ONLY <2>1, <2>2
    <2>. QED  BY <2>1, <2>3 DEF Lowest
  <1>5. ~Resyncs(fit, S)
    <2>1. fit[c] = 0 /\ ResyncAt \in Nat
      BY <1>3, TrackingAssumption
    <2>2. PICK z : z = fit[c]
      OBVIOUS
    <2>3. ~(z > ResyncAt)
      BY ONLY <2>1, <2>2
    <2>. QED  BY <2>2, <2>3 DEF Resyncs
  <1>. QED  BY <1>4, <1>5

-----------------------------------------------------------------------------
(* The history nobody made.                                                *)

\* The score of a cell, in thousandths.
Mark(m, n) == Weight(m, n) * Square(Magnitude(m - n))

LEMMA MarkIs ==
    ASSUME NEW m \in Nat, NEW n \in Nat, NEW o \in Nat
    PROVE  /\ Mark(m, n) \in Nat /\ Mark(m, m) = 0
           /\ m <= n /\ n <= o => Mark(m, n) <= Mark(m, o)
           /\ m <= n /\ n < o /\ ZeroWeight > 0 => Mark(m, n) < Mark(m, o)
           /\ n < m => Mark(m, n) > 0
  <1>1. ZeroWeight \in Nat
    BY Levels
  <1>2. ASSUME NEW i \in Nat
        PROVE \E z \in Nat, j \in Nat :
                 /\ Mark(m, i) = z * (j * j)
                 /\ z = Weight(m, i) /\ j = Magnitude(m - i)
    <2>1. PICK z, j : z = Weight(m, i) /\ j = Magnitude(m - i)
      OBVIOUS
    <2>2. z \in Nat /\ j \in Nat
      BY <1>1, <2>1 DEF Weight, Magnitude
    <2>. QED  BY <2>1, <2>2 DEF Mark, Square
  <1>3. ASSUME NEW z \in Nat, NEW j \in Nat
        PROVE z * (j * j) \in Nat /\ (j = 0 => z * (j * j) = 0) /\ (j > 0 /\ z > 0 => z * (j * j) > 0)
    <2>1. PICK a : a = j * j
      OBVIOUS
    <2>2. a \in Nat /\ (j = 0 => a = 0) /\ (j > 0 => a > 0)
      BY <2>1
    <2>. QED  BY <2>1, <2>2
  <1>4. ASSUME NEW z \in Nat, NEW i \in Nat, NEW j \in Nat, i <= j
        PROVE z * (i * i) <= z * (j * j) /\ (i < j /\ z > 0 => z * (i * i) < z * (j * j))
    <2>1. PICK a, b : a = i * i /\ b = j * j
      OBVIOUS
    <2>2. a \in Nat /\ b \in Nat /\ a <= b /\ (i < j => a < b)
      <3>1. i * i <= i * j /\ i * j <= j * j /\ (i < j => i * j < j * j)
        BY <1>4
      <3>2. i * i \in Nat /\ i * j \in Nat /\ j * j \in Nat
        OBVIOUS
      <3>. QED  BY <2>1, <3>1, <3>2
    <2>. QED  BY <2>1, <2>2
  <1>5. Mark(m, n) \in Nat /\ Mark(m, m) = 0
    <2>1. PICK z \in Nat, j \in Nat : Mark(m, n) = z * (j * j) /\ z = Weight(m, n) /\ j = Magnitude(m - n)
      BY <1>2
    <2>2. PICK y \in Nat, i \in Nat : Mark(m, m) = y * (i * i) /\ y = Weight(m, m) /\ i = Magnitude(m - m)
      BY <1>2
    <2>3. i = 0
      BY <2>2 DEF Magnitude
    <2>4. Mark(m, n) \in Nat
      BY <1>3, <2>1
    <2>5. Mark(m, m) = 0
      BY <1>3, <2>2, <2>3
    <2>. QED  BY <2>4, <2>5
  <1>6. ASSUME m <= n, n <= o
        PROVE Mark(m, n) <= Mark(m, o) /\ (n < o /\ ZeroWeight > 0 => Mark(m, n) < Mark(m, o))
    <2>1. PICK y \in Nat, i \in Nat : Mark(m, n) = y * (i * i) /\ y = Weight(m, n) /\ i = Magnitude(m - n)
      BY <1>2
    <2>2. PICK z \in Nat, j \in Nat : Mark(m, o) = z * (j * j) /\ z = Weight(m, o) /\ j = Magnitude(m - o)
      BY <1>2
    <2>3. i = n - m /\ j = o - m /\ i <= j
      BY <1>6, <2>1, <2>2 DEF Magnitude
    <2>4. i = 0 \/ y = z
      BY <1>6, <2>1, <2>2, <2>3 DEF Weight
    <2>5. ZeroWeight > 0 => z > 0
      BY <2>2 DEF Weight
    <2>6. CASE i = 0
      <3>1. Mark(m, n) = 0
        BY <1>3, <2>1, <2>6
      <3>2. n < o => j > 0
        BY <2>3
      <3>. QED  BY <1>3, <2>2, <2>5, <3>1, <3>2
    <2>7. CASE y = z
      <3>1. Mark(m, n) = z * (i * i)
        BY <2>1, <2>7
      <3>2. n < o => i < j
        BY <2>3
      <3>. QED  BY <1>4, <2>2, <2>3, <2>5, <3>1, <3>2
    <2>. QED  BY <2>4, <2>6, <2>7
  <1>7. ASSUME n < m PROVE Mark(m, n) > 0
    <2>1. PICK z \in Nat, j \in Nat : Mark(m, n) = z * (j * j) /\ z = Weight(m, n) /\ j = Magnitude(m - n)
      BY <1>2
    <2>2. z > 0 /\ j > 0
      BY <1>7, <2>1 DEF Weight, Magnitude
    <2>. QED  BY <1>3, <2>1, <2>2
  <1>. QED  BY <1>5, <1>6, <1>7

LEMMA ScoreWhole ==
    ASSUME NEW a \in [Cells -> Nat], NEW b \in [Cells -> Nat]
    PROVE  Residual(Fines(a), Fines(b))
             = Total([x \in Cells |-> Mark(a[x], b[x])])
  <1>1. Fine \in Nat \ {0}
    BY Levels
  <1>2. PICK seen, e : seen = Fines(a) /\ e = Fines(b)
    OBVIOUS
  <1>3. ASSUME NEW x \in Cells
        PROVE Weight(seen[x], e[x]) * Square(Magnitude(seen[x] - e[x]) \div Fine) = Mark(a[x], b[x])
    <2>1. PICK m, n : m = a[x] /\ n = b[x]
      OBVIOUS
    <2>2. m \in Nat /\ n \in Nat /\ seen[x] = Fine * m /\ e[x] = Fine * n
      BY <1>2, <2>1 DEF Fines
    <2>3. Weight(Fine * m, Fine * n) = Weight(m, n)
      <3>1. \A i \in Nat : Fine * i \in Nat /\ (Fine * i = 0 <=> i = 0)
        BY <1>1
      <3>2. Fine * m \in Nat /\ Fine * n \in Nat /\ (Fine * m = 0 <=> m = 0) /\ (Fine * n > 0 <=> n > 0)
        BY <2>2, <3>1
      <3>. QED  BY <3>2 DEF Weight
    <2>4. PICK d : d = Magnitude(m - n)
      OBVIOUS
    <2>5. d \in Nat /\ (d = m - n \/ d = n - m) /\ (m < n => d = n - m) /\ (m >= n => d = m - n)
      BY <2>2, <2>4 DEF Magnitude
    <2>6. Magnitude(Fine * m - Fine * n) = Fine * d
      <3>1. Fine * m - Fine * n = Fine * (m - n) /\ Fine * n - Fine * m = Fine * (n - m)
            /\ (m < n <=> Fine * m < Fine * n) /\ Fine * m \in Int /\ Fine * n \in Int
        BY <1>1, <2>2, Scaled
      <3>2. Magnitude(Fine * m - Fine * n)
              = IF Fine * m < Fine * n THEN Fine * n - Fine * m ELSE Fine * m - Fine * n
        BY <3>1 DEF Magnitude
      <3>. QED  BY <2>2, <2>5, <3>1, <3>2
    <2>7. (Fine * d) \div Fine = d
      <3>1. PICK i : i = Fine * d
        OBVIOUS
      <3>2. i \in Int /\ Fine * d <= i /\ i < Fine * d + Fine
        BY <1>1, <2>5, <3>1
      <3>. QED  BY <1>1, <2>5, <3>1, <3>2, DivIs
    <2>. QED  BY <2>1, <2>2, <2>3, <2>4, <2>6, <2>7 DEF Mark
  <1>4. Residual(seen, e) = Total([x \in Cells |->
           Weight(seen[x], e[x]) * Square(Magnitude(seen[x] - e[x]) \div Fine)])
    BY DEF Residual
  <1>5. [x \in Cells |-> Weight(seen[x], e[x]) * Square(Magnitude(seen[x] - e[x]) \div Fine)]
          = [x \in Cells |-> Mark(a[x], b[x])]
    BY <1>3
  <1>. QED  BY <1>2, <1>4, <1>5

\* What is missing of a fresh stamp costs something, what is beyond it nothing.
LEMMA DeficitIs ==
    ASSUME NEW a \in [Cells -> Nat], NEW b \in [Cells -> Nat], NEW n,
           n = Deficit(Fines(a), Fines(b))
    PROVE  /\ n \in Nat
           /\ (\A x \in Cells : b[x] <= a[x]) => n = 0
           /\ ZeroWeight > 0 /\ (\E x \in Cells : a[x] < b[x]) => n > 0
  <1>1. Fine \in Nat \ {0} /\ ZeroWeight \in Nat
    BY Levels
  <1>2. PICK seen, e : seen = Fines(a) /\ e = Fines(b)
    OBVIOUS
  <1>3. PICK w : w = [x \in Cells |-> Weight(seen[x], e[x]) * Square(Greater(0, e[x] - seen[x]) \div Fine)]
    OBVIOUS
  <1>4. n = Total(w)
    BY <1>2, <1>3 DEF Deficit
  <1>5. ASSUME NEW x \in Cells
        PROVE  /\ w[x] \in Nat /\ (b[x] <= a[x] => w[x] = 0)
               /\ a[x] < b[x] /\ ZeroWeight > 0 => w[x] # 0
    <2>1. PICK i, j : i = a[x] /\ j = b[x]
      OBVIOUS
    <2>2. i \in Nat /\ j \in Nat /\ seen[x] = Fine * i /\ e[x] = Fine * j
      BY <1>2, <2>1 DEF Fines
    <2>3. PICK k, z : k = Greater(0, j - i) /\ z = Weight(seen[x], e[x])
      OBVIOUS
    <2>4. k \in Nat /\ (j <= i => k = 0) /\ (i < j => k > 0)
      BY <2>2, <2>3 DEF Greater
    <2>5. Greater(0, Fine * j - Fine * i) = Fine * k
      <3>1. /\ Fine * j - Fine * i = Fine * (j - i) /\ j - i \in Int /\ Fine * 0 = 0
            /\ (0 > j - i <=> Fine * 0 > Fine * (j - i))
        <4>1. j - i \in Int /\ Fine * 0 = 0 /\ 0 \in Int
          BY <1>1, <2>2
        <4>. QED  BY <1>1, <2>2, <4>1, Scaled
      <3>. QED  BY <2>3, <3>1 DEF Greater
    <2>6. (Fine * k) \div Fine = k
      <3>1. PICK v : v = Fine * k
        OBVIOUS
      <3>2. v \in Int /\ Fine * k <= v /\ v < Fine * k + Fine
        BY <1>1, <2>4, <3>1
      <3>. QED  BY <1>1, <2>4, <3>1, <3>2, DivIs
    <2>7. w[x] = z * (k * k)
      BY <1>3, <2>2, <2>3, <2>5, <2>6 DEF Square
    <2>8. z \in Nat /\ (ZeroWeight > 0 => z > 0)
      BY <1>1, <2>3 DEF Weight
    <2>9. PICK q : q = k * k
      OBVIOUS
    <2>10. q \in Nat /\ (k = 0 => q = 0) /\ (k > 0 => q > 0)
      BY <2>4, <2>9
    <2>11. z * q \in Nat /\ (q = 0 => z * q = 0) /\ (q > 0 /\ z > 0 => z * q # 0)
      BY <2>8, <2>10
    <2>. QED  BY <2>1, <2>4, <2>7, <2>8, <2>9, <2>10, <2>11
  <1>6. n \in Nat /\ (n = 0 <=> \A x \in Cells : w[x] = 0)
    BY <1>4, <1>5, TotalIs
  <1>. QED  BY <1>5, <1>6

\* A scent that is missed counts.
Minding == ZeroWeight > 0

\* The seed: one deposit at a cell.
Sown(c) == [x \in Cells |-> Stamp("reference", c, x)]

\* Only c explains a grid best, continued or from scratch.
PointedOut(c, seen, p, S) ==
    /\ Lowest(Continues("reference", seen, p, S, TRUE), S) = {c}
    /\ Lowest(Restarts("reference", seen, S, TRUE), S) = {c}

\* The lab's thief emits on an empty field while its reader expects the seeded
\* deposit under it: still only the cell of the emitter explains the grid,
\* continued or from scratch.
LEMMA SeedTells ==
    ASSUME Decaying, Sloping, Minding, NEW start \in Cells, NEW c \in Cells,
           NEW p, p = Sown(start),
           NEW seen, seen = FullTurn("reference", NoScent, c, TRUE),
           NEW S \in SUBSET Cells, c \in S
    PROVE  PointedOut(c, seen, p, S)
  <1>1. PICK k : Stamped(k, start)
    BY StampedIs
  <1>2. Grained(p, k)
    BY <1>1 DEF Stamped, Grained, Fines, Sown
  <1>3. PICK z : z = [x \in Cells |-> 0]
    OBVIOUS
  <1>4. /\ Grained(NoScent, z)
        /\ Fine \in Nat \ {0} /\ Peak \in Nat /\ Emit \in Nat
    BY <1>3, Parameters DEF NoScent, Grained, Fines
  <1>5. PICK s : Stamped(s, c)
    BY StampedIs
  <1>6. PICK a : After(a, z, s)
    BY DEF After
  <1>7. a \in [Cells -> 0 .. Peak] /\ seen = Fines(a)
    <2>1. Grained(NoScent, z)
      BY <1>4
    <2>2. Stamped(s, c)
      BY <1>5
    <2>3. After(a, z, s)
      BY <1>6
    <2>4. FullTurn("reference", NoScent, c, TRUE) = Fines(a)
      BY <2>1, <2>2, <2>3, TurnLeaves, ZenonT(60)
    <2>5. a \in [Cells -> 0 .. Peak]
      BY <2>1, <2>2, <2>3, TurnLeaves, ZenonT(60)
    <2>. QED  BY <2>4, <2>5
  <1>8. a \in [Cells -> Nat]
    BY <1>4, <1>7
  <1>9. \A x \in Cells : a[x] = Left(0, s[x])
    BY <1>3, <1>6 DEF After
  <1>10. ASSUME NEW x \in S
         PROVE  \E w, h \in [Cells -> Nat] : \E t \in [Cells -> 0 .. Emit] :
                   /\ \A y \in Cells : w[y] = Left(k[y], t[y]) /\ h[y] = Left(0, t[y])
                   /\ Stamped(t, x) /\ (x = c => t = s)
                   /\ Continues("reference", seen, p, S, TRUE)[x] = Total([y \in Cells |-> Mark(a[y], w[y])])
                   /\ Restarts("reference", seen, S, TRUE)[x]
                        = Deficit(Fines(a), Fines(h))
    <2>0. x \in Cells
      OBVIOUS
    <2>1. PICK t : Stamped(t, x) /\ (x = c => t = s)
      BY <1>5, <2>0, StampedIs
    <2>2. PICK w, h : After(w, k, t) /\ After(h, z, t)
      BY DEF After
    <2>3. /\ w \in [Cells -> 0 .. Peak]
          /\ Forward("reference", p, x, TRUE) = Fines(w)
      <3>1. Grained(p, k)
        BY <1>2
      <3>2. Stamped(t, x)
        BY <2>1
      <3>3. After(w, k, t)
        BY <2>2
      <3>4. w \in [Cells -> 0 .. Peak]
        BY <2>0, <3>1, <3>2, <3>3, TurnLeaves, ZenonT(60)
      <3>5. Forward("reference", p, x, TRUE) = Fines(w)
        BY <2>0, <3>1, <3>2, <3>3, ForwardLeaves, ZenonT(60)
      <3>. QED  BY <3>4, <3>5
    <2>4. /\ h \in [Cells -> 0 .. Peak]
          /\ Forward("reference", NoScent, x, TRUE) = Fines(h)
      <3>1. Grained(NoScent, z)
        BY <1>4
      <3>2. Stamped(t, x)
        BY <2>1
      <3>3. After(h, z, t)
        BY <2>2
      <3>4. h \in [Cells -> 0 .. Peak]
        BY <2>0, <3>1, <3>2, <3>3, TurnLeaves, ZenonT(60)
      <3>5. Forward("reference", NoScent, x, TRUE) = Fines(h)
        BY <2>0, <3>1, <3>2, <3>3, ForwardLeaves, ZenonT(60)
      <3>. QED  BY <3>4, <3>5
    <2>5. w \in [Cells -> Nat] /\ h \in [Cells -> Nat] /\ t \in [Cells -> 0 .. Emit]
      BY <1>4, <2>1, <2>3, <2>4 DEF Stamped
    <2>6. \A y \in Cells : w[y] = Left(k[y], t[y]) /\ h[y] = Left(0, t[y])
      BY <1>3, <2>2 DEF After
    <2>7. Continues("reference", seen, p, S, TRUE)[x] = Total([y \in Cells |-> Mark(a[y], w[y])])
      BY <1>7, <1>8, <2>3, <2>5, ScoreWhole DEF Continues
    <2>8. Restarts("reference", seen, S, TRUE)[x]
            = Deficit(Fines(a), Fines(h))
      BY <1>7, <2>4 DEF Restarts
    <2>. QED  BY <2>1, <2>5, <2>6, <2>7, <2>8
  <1>11. \A x \in Cells : /\ k[x] \in 0 .. Emit /\ s[x] \in 0 .. Emit
                          /\ (k[x] < Emit <=> x # start) /\ (s[x] < Emit <=> x # c)
                          /\ (k[x] = Emit <=> x = start) /\ (s[x] = Emit <=> x = c)
    BY <1>1, <1>4, <1>5 DEF Stamped
  <1>12. PICK fit, new : /\ fit = Continues("reference", seen, p, S, TRUE)
                         /\ new = Restarts("reference", seen, S, TRUE)
    OBVIOUS
  <1>13. PICK w \in [Cells -> Nat] : /\ \A y \in Cells : w[y] = Left(k[y], s[y])
                                     /\ fit[c] = Total([y \in Cells |-> Mark(a[y], w[y])])
    BY <1>10, <1>12
  <1>14. new[c] = 0
    <2>1. PICK h \in [Cells -> Nat] :
              /\ \A y \in Cells : h[y] = Left(0, s[y])
              /\ new[c] = Deficit(Fines(a), Fines(h))
      BY <1>10, <1>12
    <2>2. \A y \in Cells : h[y] <= a[y]
      BY <1>8, <1>9, <2>1
    <2>. QED  BY <1>8, <2>1, <2>2, DeficitIs
  <1>15. fit[c] \in Nat
    <2>1. \A y \in Cells : Mark(a[y], w[y]) \in Nat
      BY <1>8, <1>13, MarkIs
    <2>2. PICK m : m = [y \in Cells |-> Mark(a[y], w[y])]
      OBVIOUS
    <2>3. \A y \in Cells : m[y] \in Nat
      BY <2>1, <2>2
    <2>. QED  BY <1>13, <2>2, <2>3, TotalIs
  <1>16. ASSUME NEW x \in S, x # c PROVE fit[c] < fit[x] /\ fit[x] \in Nat /\ 0 < new[x] /\ new[x] \in Nat
    <2>1. PICK v \in [Cells -> Nat], h \in [Cells -> Nat], t \in [Cells -> 0 .. Emit] :
              /\ \A y \in Cells : v[y] = Left(k[y], t[y]) /\ h[y] = Left(0, t[y])
              /\ Stamped(t, x)
              /\ fit[x] = Total([y \in Cells |-> Mark(a[y], v[y])])
              /\ new[x] = Deficit(Fines(a), Fines(h))
      BY <1>10, <1>12, <1>16
    <2>2. PICK m, n : m = [y \in Cells |-> Mark(a[y], w[y])] /\ n = [y \in Cells |-> Mark(a[y], v[y])]
      OBVIOUS
    <2>3. \A y \in Cells : t[y] \in 0 .. Emit /\ (t[y] = Emit <=> y = x) /\ (t[y] < Emit <=> y # x)
      <3>1. ASSUME NEW y \in Cells PROVE t[y] \in 0 .. Emit /\ (t[y] = Emit <=> y = x)
        BY <2>1 DEF Stamped
      <3>2. \A i \in 0 .. Emit : i < Emit <=> i # Emit
        BY <1>4
      <3>. QED  BY <3>1, <3>2
    <2>4. ASSUME NEW y \in Cells PROVE m[y] \in Nat /\ n[y] \in Nat /\ m[y] <= n[y]
      <3>1. /\ m[y] = Mark(a[y], w[y]) /\ n[y] = Mark(a[y], v[y])
            /\ a[y] \in Nat /\ w[y] \in Nat /\ v[y] \in Nat
        BY <1>8, <1>13, <2>1, <2>2
      <3>2. a[y] = w[y] \/ (a[y] <= w[y] /\ w[y] <= v[y])
        <4>1. a[y] = Left(0, s[y]) /\ w[y] = Left(k[y], s[y]) /\ v[y] = Left(k[y], t[y])
          BY <1>9, <1>13, <2>1
        <4>. QED  BY <1>11, <2>3, <4>1, LeftIs
      <3>3. CASE a[y] = w[y]
        <4>1. m[y] = 0 /\ n[y] \in Nat
          BY <3>1, <3>3, MarkIs
        <4>. QED  BY <4>1
      <3>4. CASE a[y] <= w[y] /\ w[y] <= v[y]
        <4>1. PICK i, j, o : i = a[y] /\ j = w[y] /\ o = v[y]
          OBVIOUS
        <4>2. i \in Nat /\ j \in Nat /\ o \in Nat /\ i <= j /\ j <= o
          BY <3>1, <3>4, <4>1
        <4>3. Mark(i, j) \in Nat /\ Mark(i, o) \in Nat /\ Mark(i, j) <= Mark(i, o)
          BY <4>2, MarkIs
        <4>. QED  BY <3>1, <4>1, <4>3
      <3>. QED  BY <3>2, <3>3, <3>4
    <2>5. \E y \in Cells : m[y] < n[y]
      <3>1. CASE x = start
        <4>1. a[c] = Peak /\ w[c] = Peak /\ v[c] < Peak
          <5>1. a[c] = Left(0, Emit) /\ w[c] = Left(k[c], Emit) /\ v[c] = Left(k[c], t[c])
            BY <1>9, <1>11, <1>13, <2>1
          <5>2. k[c] \in 0 .. Emit /\ k[c] < Emit /\ t[c] \in 0 .. Emit /\ t[c] < Emit /\ 0 \in 0 .. Emit
            BY <1>4, <1>11, <1>16, <2>3, <3>1
          <5>. QED  BY <5>1, <5>2, LeftIs
        <4>2. m[c] = 0 /\ n[c] > 0
          BY <1>4, <2>1, <2>2, <4>1, MarkIs
        <4>. QED  BY <4>2
      <3>2. CASE x # start
        <4>1. v[x] = Peak /\ w[x] < Peak /\ a[x] <= w[x]
          <5>1. a[x] = Left(0, s[x]) /\ w[x] = Left(k[x], s[x]) /\ v[x] = Left(k[x], Emit)
            BY <1>9, <1>13, <2>1, <2>3
          <5>2. k[x] \in 0 .. Emit /\ k[x] < Emit /\ s[x] \in 0 .. Emit /\ s[x] < Emit
            BY <1>4, <1>11, <1>16, <3>2
          <5>. QED  BY <5>1, <5>2, LeftIs
        <4>2. m[x] < n[x]
          BY <1>4, <1>8, <1>13, <2>1, <2>2, <4>1, MarkIs DEF Minding
        <4>. QED  BY <4>2
      <3>. QED  BY <3>1, <3>2
    <2>6. fit[c] < fit[x] /\ fit[x] \in Nat
      <3>1. Total(m) < Total(n)
        BY <2>4, <2>5, TotalsCompare
      <3>2. Total(n) \in Nat
        BY <2>4, TotalIs
      <3>. QED  BY <1>13, <2>1, <2>2, <3>1, <3>2
    <2>7. a[x] < h[x]
      <3>1. a[x] = Left(0, s[x]) /\ h[x] = Left(0, Emit)
        BY <1>9, <2>1, <2>3
      <3>2. s[x] \in 0 .. Emit /\ s[x] < Emit /\ 0 \in 0 .. Emit /\ 0 < Emit
        BY <1>4, <1>11, <1>16, Parameters
      <3>. QED  BY <3>1, <3>2, LeftIs
    <2>8. 0 < new[x] /\ new[x] \in Nat
      BY <1>8, <2>1, <2>7, DeficitIs DEF Minding
    <2>. QED  BY <2>6, <2>8
  <1>17. \A n : n \in Nat => n <= n
    OBVIOUS
  <1>18. \A x \in S : (\A y \in S : fit[x] <= fit[y]) <=> x = c
    BY <1>15, <1>16, <1>17
  <1>19. \A x \in S : (\A y \in S : new[x] <= new[y]) <=> x = c
    BY <1>14, <1>16
  <1>. QED  BY <1>12, <1>18, <1>19 DEF Lowest, PointedOut

\* The lab's thief is read against a deposit that nobody made.
SeededReading == lab /\ emitter = "thief" /\ turn <= 1

Unstarted == lab /\ emitter = "thief" /\ turn = 0

-----------------------------------------------------------------------------
(* The reference law finds the truth.                                      *)

OneReference == LawOf("police") = "reference" /\ LawOf("thief") = "reference"

\* Past that turn the reader's last grid is the field the next emission falls
\* on; in it the seed is, and the field is empty.
TruthInv ==
    OneReference =>
        /\ ~unread /\ ~Unstarted => prev = field
        /\ unread /\ turn > 0 /\ ~SeededReading =>
              Whole(prev) /\ field = FullTurn("reference", prev, pos, TRUE)
        /\ Unstarted => ~unread /\ prev = Seed(emitter) /\ field = NoScent
        /\ unread /\ turn > 0 /\ SeededReading =>
              prev = Seed(emitter) /\ field = FullTurn("reference", NoScent, pos, TRUE)
        /\ Digested /\ InView =>
              /\ SeededReading \/ (best = {pos} /\ ~refit)
              /\ Minding => best = {pos}

LEMMA TruthInit == ASSUME Init PROVE TruthInv
  <1>1. turn = 0 /\ lab \in BOOLEAN /\ (~lab => prev = field) /\ field = NoScent
        /\ (lab => prev = Seed(emitter)) /\ unread = (lab /\ emitter = "police") /\ emitter \in Roles
    BY DEF Init
  <1>2. ~Digested /\ (~unread /\ ~Unstarted => ~lab)
    BY <1>1 DEF Digested, Unstarted, Roles
  <1>3. Unstarted => ~unread /\ prev = Seed(emitter) /\ field = NoScent
    BY <1>1 DEF Unstarted
  <1>. QED  BY <1>1, <1>2, <1>3 DEF TruthInv

LEMMA TruthStep ==
    ASSUME Decaying, Sloping, PinInv, lab \in BOOLEAN, TruthInv, [Next]_vars
    PROVE  TruthInv'
  <1>1. /\ config' = config /\ emitter' = emitter /\ lab' = lab
        /\ OneReference' = OneReference /\ Seed(emitter)' = Seed(emitter)
    BY ConfigKept DEF OneReference, LawOf, Seed
  <1>2. OneReference => LawOf(emitter) = "reference" /\ LawOf(Reader) = "reference"
    BY DEF OneReference, PinInv, Reader, Roles, Opp
  <1>3. CASE UNCHANGED <<sent, unread, filter>>
    <2>1. /\ Digested' = Digested /\ InView' = InView /\ SeededReading' = SeededReading
          /\ Unstarted' = Unstarted /\ Whole(prev)' = Whole(prev)
      BY <1>1, <1>3 DEF sent, filter, Digested, InView, SeededReading, Unstarted, Whole
    <2>. QED  BY <1>1, <1>3, <2>1 DEF TruthInv, sent, filter
  <1>4. CASE EmitTurn
    <2>1. /\ turn' = turn + 1 /\ unread' = TRUE /\ ~unread /\ prev' = prev /\ turn \in Nat
          /\ ~Digested' /\ ~Unstarted'
      BY <1>4 DEF EmitTurn, filter, PinInv, Digested, Unstarted
    <2>2. SeededReading' = Unstarted
      BY <1>1, <2>1 DEF SeededReading, Unstarted
    <2>3. ASSUME OneReference, ~Unstarted
          PROVE  Whole(prev) /\ field' = FullTurn("reference", prev, pos', TRUE)
      <3>1. prev = field
        BY <2>1, <2>3 DEF TruthInv
      <3>2. Whole(field) /\ field' = FullTurn("reference", field, pos', TRUE)
        BY <1>2, <1>4, <2>3, EmitIs DEF PinInv
      <3>. QED  BY <3>1, <3>2
    <2>4. ASSUME OneReference, Unstarted
          PROVE  prev = Seed(emitter) /\ field' = FullTurn("reference", NoScent, pos', TRUE)
      <3>1. prev = Seed(emitter) /\ field = NoScent
        BY <2>4 DEF TruthInv
      <3>2. field' = FullTurn("reference", field, pos', TRUE)
        BY <1>2, <1>4, <2>4, EmitIs
      <3>. QED  BY <3>1, <3>2
    <2>5. Whole(prev)' = Whole(prev)
      BY <2>1 DEF Whole
    <2>. QED  BY <1>1, <2>1, <2>2, <2>3, <2>4, <2>5 DEF TruthInv
  <1>5. CASE ReadTurn
    <2>1. UNCHANGED sent /\ unread /\ unread' = FALSE
      BY <1>5 DEF ReadTurn
    <2>2. ASSUME OneReference PROVE prev' = field
      <3>1. \E up \in Ties("reference") : prev' = ParseWire("reference", air, up)
        BY <1>2, <1>5, <2>2 DEF ReadTurn
      <3>2. prev' = ParseWire("reference", air, TRUE)
        BY <3>1 DEF Ties
      <3>3. Whole(air) /\ air = field
        BY <1>2, <2>2 DEF PinInv
      <3>. QED  BY <3>2, <3>3, WholeIs DEF ParseWire
    <2>3. ASSUME OneReference, turn > 0, pos \notin masked'
          PROVE  /\ SeededReading \/ (best' = {pos} /\ ~refit')
                 /\ Minding => best' = {pos}
      <3>1. PICK free : free = Cells \ masked'
        OBVIOUS
      <3>2. ParseWire("reference", air, TRUE) = field
        BY <1>2, <2>3, WholeIs DEF ParseWire, PinInv
      <3>3. PICK fit, restart :
               /\ fit = Continues("reference", field, prev, free, TRUE)
               /\ restart = Restarts("reference", field, free, TRUE)
               /\ refit' = Resyncs(fit, free)
               /\ best' = Lowest(IF refit' THEN restart ELSE fit, free)
        BY <1>2, <1>5, <2>3, <3>1, <3>2 DEF ReadTurn, Ties
      <3>4. pos \in free /\ pos \in Cells /\ free \in SUBSET Cells
        BY <2>3, <3>1 DEF PinInv
      <3>5. CASE ~SeededReading
        <4>1. Whole(prev) /\ field = FullTurn("reference", prev, pos, TRUE)
          BY <2>1, <2>3, <3>5 DEF TruthInv
        <4>2. Lowest(fit, free) = {pos} /\ ~Resyncs(fit, free)
          BY <3>3, <3>4, <4>1, ReadingIs
        <4>. QED  BY <3>3, <4>2
      <3>6. CASE SeededReading
        <4>1. prev = Seed(emitter) /\ field = FullTurn("reference", NoScent, pos, TRUE)
          BY <2>1, <2>3, <3>6 DEF TruthInv
        <4>2. PICK start \in Cells : start = Start(emitter)
          BY TrackingAssumption DEF Start
        <4>3. prev = Sown(start)
          BY <1>2, <2>3, <4>1, <4>2 DEF Seed, Sown
        <4>4. Minding => PointedOut(pos, field, prev, free)
          BY <3>4, <4>1, <4>2, <4>3, SeedTells
        <4>5. ASSUME Minding PROVE Lowest(fit, free) = {pos} /\ Lowest(restart, free) = {pos}
          BY <3>3, <4>5, <4>4 DEF PointedOut
        <4>. QED  BY <3>3, <3>6, <4>5
      <3>. QED  BY <3>5, <3>6
    <2>4. /\ Digested' = (turn > 0) /\ InView' = (pos \notin masked') /\ SeededReading' = SeededReading
          /\ Unstarted' = Unstarted
      BY <1>1, <2>1 DEF Digested, InView, SeededReading, Unstarted, sent
    <2>5. OneReference => ~Unstarted
      BY <2>1 DEF TruthInv
    <2>. QED  BY <1>1, <2>1, <2>2, <2>3, <2>4, <2>5 DEF TruthInv, sent
  <1>. QED  BY <1>3, <1>4, <1>5 DEF Next, Negotiate, vars

\* Under the reference law the filter is right and never gives up: but for the
\* seeded reading no cell but the emitter's explains a grid, and none has to be
\* explained from scratch (forward_snapshot, residual_log_likelihood).
ReferenceTruth ==
    Digested /\ ~SeededReading /\ InView /\ OneReference => best = {pos} /\ ~refit

\* ReferenceTruth holds of every grid that is read under the reference law,
\* live or in the lab, on every board (engine.py, observe_smell).
THEOREM ReferenceFindsTheTruth == ASSUME Decaying, Sloping PROVE Spec => []ReferenceTruth
  <1>1. Init => TruthInv /\ lab \in BOOLEAN
    BY TruthInit DEF Init
  <1>2. PinInv /\ lab \in BOOLEAN /\ TruthInv /\ [Next]_vars => TruthInv' /\ (lab \in BOOLEAN)'
    BY TruthStep, ConfigKept
  <1>3. TruthInv => ReferenceTruth
    BY DEF TruthInv, ReferenceTruth
  <1>. QED  BY <1>1, <1>2, <1>3, PinInvariant, PTL DEF Spec

-----------------------------------------------------------------------------
(* Rounding.                                                               *)

\* A thousandth has a middle, on which the ties of the rounding lie.
Halving == Fine % 2 = 0

LEMMA HalfIs ==
    ASSUME Halving
    PROVE  \E h \in Nat \ {0} : Fine = 2 * h /\ Fine \div 2 = h
  <1>1. Fine \in Nat \ {0} /\ Fine % 2 = 0
    BY ScentAssumption DEF Halving
  <1>2. PICK h : h = Fine \div 2
    OBVIOUS
  <1>3. h \in Nat \ {0} /\ Fine = 2 * h
    BY <1>1, <1>2
  <1>. QED  BY <1>2, <1>3

\* A rounded value is a quotient; what it leaves is less than a thousandth.
LEMMA RoundedIs ==
    ASSUME Halving, NEW v \in Nat, NEW up \in BOOLEAN
    PROVE  \E h \in Nat, e \in 0 .. 1, z \in Nat, r \in Nat :
              /\ h > 0 /\ Fine = 2 * h /\ r < Fine
              /\ Thousandths(v, up) \in Nat /\ z = Fine * Thousandths(v, up)
              /\ v + h - e = z + r
  <1>1. PICK h \in Nat \ {0} : Fine = 2 * h /\ Fine \div 2 = h
    BY HalfIs
  <1>2. PICK e \in 0 .. 1 : e = IF up THEN 0 ELSE 1
    OBVIOUS
  <1>3. PICK n : n = v + h - e
    OBVIOUS
  <1>4. n \in Nat /\ Fine \in Nat \ {0}
    BY <1>1, <1>2, <1>3
  <1>5. PICK q : q = Thousandths(v, up)
    OBVIOUS
  <1>6. q = n \div Fine
    BY <1>1, <1>2, <1>3, <1>5 DEF Thousandths
  <1>7. q \in Nat /\ n % Fine \in 0 .. Fine - 1 /\ n = Fine * q + (n % Fine)
    BY <1>4, <1>6, DivMod
  <1>8. PICK z, r : z = Fine * q /\ r = n % Fine
    OBVIOUS
  <1>9. z \in Nat /\ r \in Nat /\ r < Fine /\ n = z + r
    BY <1>4, <1>7, <1>8
  <1>. QED  BY <1>1, <1>3, <1>5, <1>7, <1>8, <1>9

\* Rounding moves a value by half a thousandth at most.
LEMMA RoundedClose ==
    ASSUME Halving, NEW v \in Nat, NEW up \in BOOLEAN
    PROVE  \E z \in Nat : /\ z = Fine * Thousandths(v, up)
                          /\ 2 * (z - v) <= Fine /\ 2 * (v - z) <= Fine
  <1>1. PICK q : q = Thousandths(v, up)
    OBVIOUS
  <1>2. PICK h \in Nat, e \in 0 .. 1, z \in Nat, r \in Nat :
           /\ h > 0 /\ Fine = 2 * h /\ r < Fine /\ q \in Nat /\ z = Fine * q
           /\ v + h - e = z + r
    BY <1>1, RoundedIs
  <1>3. 2 * (z - v) <= Fine /\ 2 * (v - z) <= Fine
    BY <1>2
  <1>. QED  BY <1>1, <1>2, <1>3

\* A whole value stays as it is.
LEMMA RoundedWhole ==
    ASSUME Halving, NEW q \in Nat, NEW up \in BOOLEAN
    PROVE  Fine * q \in Nat /\ Thousandths(Fine * q, up) = q
  <1>1. PICK v : v = Fine * q
    OBVIOUS
  <1>2. v \in Nat /\ Fine \in Nat \ {0}
    BY <1>1, ScentAssumption
  <1>3. PICK p : p = Thousandths(v, up)
    OBVIOUS
  <1>4. PICK h \in Nat, e \in 0 .. 1, z \in Nat, r \in Nat :
           /\ h > 0 /\ Fine = 2 * h /\ r < Fine /\ p \in Nat /\ z = Fine * p
           /\ v + h - e = z + r
    BY <1>2, <1>3, RoundedIs
  <1>5. Fine * p < Fine * (q + 1) /\ Fine * q < Fine * (p + 1)
    <2>1. Fine * (q + 1) = v + Fine /\ Fine * (p + 1) = z + Fine
      BY <1>1, <1>2, <1>4
    <2>2. z < v + Fine /\ v < z + Fine
      BY <1>2, <1>4
    <2>. QED  BY <1>1, <1>4, <2>1, <2>2
  <1>6. p < q + 1 /\ q < p + 1
    BY <1>2, <1>4, <1>5, Scaled
  <1>. QED  BY <1>1, <1>2, <1>3, <1>4, <1>6

\* Values half a thousandth apart are rounded to neighbours at most.
LEMMA RoundedNear ==
    ASSUME Halving, NEW v \in Nat, NEW w \in Nat, NEW up \in BOOLEAN, NEW down \in BOOLEAN,
           2 * (v - w) <= Fine
    PROVE  Thousandths(v, up) <= Thousandths(w, down) + 1
  <1>1. PICK p, q : p = Thousandths(v, up) /\ q = Thousandths(w, down)
    OBVIOUS
  <1>2. PICK h \in Nat, e \in 0 .. 1, z \in Nat, r \in Nat :
           /\ h > 0 /\ Fine = 2 * h /\ r < Fine /\ p \in Nat /\ z = Fine * p
           /\ v + h - e = z + r
    BY <1>1, RoundedIs
  <1>3. PICK g \in Nat, i \in 0 .. 1, y \in Nat, s \in Nat :
           /\ g > 0 /\ Fine = 2 * g /\ s < Fine /\ q \in Nat /\ y = Fine * q
           /\ w + g - i = y + s
    BY <1>1, RoundedIs
  <1>4. z < y + 2 * Fine
    BY <1>2, <1>3
  <1>5. Fine * p < Fine * (q + 2)
    <2>1. Fine * (q + 2) = y + 2 * Fine
      BY <1>2, <1>3
    <2>. QED  BY <1>2, <1>4, <2>1
  <1>6. p < q + 2
    BY <1>2, <1>3, <1>5, Scaled, ScentAssumption
  <1>. QED  BY <1>1, <1>2, <1>3, <1>6

\* Values more thousandths apart stay so, but for one.
LEMMA RoundedApart ==
    ASSUME Halving, NEW v \in Nat, NEW w \in Nat, NEW up \in BOOLEAN, NEW down \in BOOLEAN,
           NEW gap \in Nat, v - w >= Fine * (gap + 1)
    PROVE  Thousandths(v, up) >= Thousandths(w, down) + gap
  <1>1. PICK p, q : p = Thousandths(v, up) /\ q = Thousandths(w, down)
    OBVIOUS
  <1>2. PICK h \in Nat, e \in 0 .. 1, z \in Nat, r \in Nat :
           /\ h > 0 /\ Fine = 2 * h /\ r < Fine /\ p \in Nat /\ z = Fine * p
           /\ v + h - e = z + r
    BY <1>1, RoundedIs
  <1>3. PICK g \in Nat, i \in 0 .. 1, y \in Nat, s \in Nat :
           /\ g > 0 /\ Fine = 2 * g /\ s < Fine /\ q \in Nat /\ y = Fine * q
           /\ w + g - i = y + s
    BY <1>1, RoundedIs
  <1>4. PICK t : t = Fine * gap
    OBVIOUS
  <1>5. t \in Nat /\ Fine * (gap + 1) = t + Fine
    BY <1>2, <1>4
  <1>6. z > y + t - Fine
    BY <1>2, <1>3, <1>5
  <1>7. Fine * (q + gap) < Fine * (p + 1)
    <2>1. Fine * (q + gap) = y + t /\ Fine * (p + 1) = z + Fine
      BY <1>2, <1>3, <1>4
    <2>. QED  BY <1>2, <1>3, <1>5, <1>6, <2>1
  <1>8. q + gap < p + 1
    BY <1>2, <1>3, <1>7, Scaled, ScentAssumption
  <1>. QED  BY <1>1, <1>2, <1>3, <1>8

-----------------------------------------------------------------------------
(* A turn under every law.                                                 *)

\* What a turn leaves of a strength, the dropping of what rounds to nothing
\* apart.
Kept(d, v) ==
    IF d = "reference" THEN Greater(0, v - 100 * Rho * Fine) ELSE (v * (10 - Rho)) \div 10

\* Tenths.
LEMMA TenthsAre ==
    ASSUME NEW v \in Nat
    PROVE  \E m \in Nat, k \in Nat, r \in 0 .. 9 :
              /\ m = v * (10 - Rho) /\ k = m \div 10 /\ m = 10 * k + r /\ k <= v
  <1>1. PICK m, k, r : m = v * (10 - Rho) /\ k = m \div 10 /\ r = m % 10
    OBVIOUS
  <1>2. m \in Nat /\ m <= 10 * v
    <2>1. PICK n : n = 10 - Rho
      OBVIOUS
    <2>2. n \in Nat /\ n <= 10
      BY <2>1, Levels
    <2>3. v * n \in Nat /\ v * n <= v * 10
      BY <2>2
    <2>. QED  BY <1>1, <2>1, <2>3
  <1>3. k \in Nat /\ r \in 0 .. 9 /\ m = 10 * k + r
    BY <1>1, <1>2
  <1>4. k <= v
    BY <1>2, <1>3
  <1>. QED  BY <1>1, <1>2, <1>3, <1>4

LEMMA KeptIs ==
    ASSUME NEW d \in Dialects, NEW v \in Nat
    PROVE  Kept(d, v) \in Nat /\ Kept(d, v) <= v
  <1>1. PICK loss : loss = 100 * Rho * Fine
    OBVIOUS
  <1>2. loss \in Nat
    BY <1>1, Levels
  <1>3. CASE d = "reference"
    BY <1>1, <1>2, <1>3 DEF Kept, Greater
  <1>4. CASE d # "reference"
    BY <1>4, TenthsAre DEF Kept
  <1>. QED  BY <1>3, <1>4

\* Decay brings values no further apart.
LEMMA KeptNear ==
    ASSUME NEW d \in Dialects, NEW v \in Nat, NEW w \in Nat, NEW b \in Nat, v - w <= b
    PROVE  Kept(d, v) - Kept(d, w) <= b
  <1>1. CASE d = "reference"
    <2>1. PICK loss : loss = 100 * Rho * Fine
      OBVIOUS
    <2>2. loss \in Nat
      BY <2>1, Levels
    <2>. QED  BY <1>1, <2>1, <2>2 DEF Kept, Greater
  <1>2. CASE d # "reference"
    <2>1. PICK m \in Nat, k \in Nat, r \in 0 .. 9 :
             m = v * (10 - Rho) /\ k = m \div 10 /\ m = 10 * k + r
      BY TenthsAre
    <2>2. PICK n \in Nat, j \in Nat, s \in 0 .. 9 :
             n = w * (10 - Rho) /\ j = n \div 10 /\ n = 10 * j + s
      BY TenthsAre
    <2>3. m - n <= 10 * b
      <3>1. PICK t : t = 10 - Rho
        OBVIOUS
      <3>2. t \in Nat /\ t <= 10
        BY <3>1, Levels
      <3>3. m - n = (v - w) * t
        BY <2>1, <2>2, <3>1, <3>2
      <3>4. (v - w) * t <= b * t
        BY <3>2
      <3>5. b * t <= b * 10
        BY <3>2
      <3>6. (v - w) * t \in Int /\ b * t \in Int
        BY <3>2
      <3>. QED  BY <3>3, <3>4, <3>5, <3>6
    <2>4. k - j <= b
      BY <2>1, <2>2, <2>3
    <2>. QED  BY <1>2, <2>1, <2>2, <2>4 DEF Kept
  <1>. QED  BY <1>1, <1>2

Exact(d) == d = "multiplicative_book_v1"

LEMMA TiesAre ==
    ASSUME NEW d \in Dialects, NEW up \in Ties(d)
    PROVE  up \in BOOLEAN /\ (d # "book" => up = TRUE)
  BY DEF Ties

LEMMA MergeHas ==
    ASSUME NEW d \in Dialects, NEW v \in Nat, NEW s \in 0 .. Top
    PROVE  /\ Merge(d, v, s) \in Nat
           /\ v <= Top => Merge(d, v, s) <= Top
           /\ \A w \in Nat : Merge(d, v, s) - Merge(d, w, s) <= Greater(0, v - w)
  <1>1. Top \in Nat /\ s \in Nat /\ s <= Top
    BY Levels
  <1>. QED  BY <1>1 DEF Merge, Greater, Lesser, Top

\* What a turn leaves on a cell.
LEMMA TurnAt ==
    ASSUME NEW d \in Dialects, NEW f \in [Cells -> Nat], NEW c \in Cells, NEW up \in Ties(d),
           NEW x \in Cells
    PROVE  /\ FullTurn(d, f, c, up) = [y \in Cells |-> FullTurn(d, f, c, up)[y]]
           /\ Exact(d) => FullTurn(d, f, c, up)[x] = Merge(d, Kept(d, f[x]), Stamp(d, c, x))
           /\ d = "reference" => FullTurn(d, f, c, up)[x] = Kept(d, Merge(d, f[x], Stamp(d, c, x)))
           /\ d = "book" => FullTurn(d, f, c, up)[x]
                              = LET k == Kept(d, Merge(d, f[x], Stamp(d, c, x)))
                                IN  IF Thousandths(k, up) > 0 THEN k ELSE 0
  BY DEF FullTurn, Fade, Deposit, Decay, Kept, Exact, Dialects

LEMMA TurnHas ==
    ASSUME NEW d \in Dialects, NEW f \in [Cells -> Nat], NEW c \in Cells, NEW up \in Ties(d)
    PROVE  /\ FullTurn(d, f, c, up) \in [Cells -> Nat]
           /\ f \in Strengths => FullTurn(d, f, c, up) \in Strengths
           /\ d = "book" => \A x \in Cells : 10 * FullTurn(d, f, c, up)[x] <= (10 - Rho) * Top
  <1>1. PICK g : g = FullTurn(d, f, c, up)
    OBVIOUS
  <1>2. Top \in Nat
    BY Levels
  <1>3. ASSUME NEW x \in Cells
        PROVE  /\ g[x] \in Nat /\ (f[x] <= Top => g[x] <= Top)
               /\ d = "book" => 10 * g[x] <= (10 - Rho) * Top
    <2>1. PICK s : s = Stamp(d, c, x)
      OBVIOUS
    <2>2. s \in 0 .. Top /\ f[x] \in Nat
      BY <2>1, StampBounds
    <2>3. CASE Exact(d)
      <3>1. g[x] = Merge(d, Kept(d, f[x]), s)
        BY <1>1, <2>1, <2>3, TurnAt
      <3>2. Kept(d, f[x]) \in Nat /\ Kept(d, f[x]) <= f[x]
        BY <2>2, KeptIs
      <3>3. g[x] \in Nat /\ (Kept(d, f[x]) <= Top => g[x] <= Top)
        BY <2>2, <3>1, <3>2, MergeHas
      <3>. QED  BY <1>2, <2>2, <2>3, <3>2, <3>3 DEF Exact
    <2>4. CASE ~Exact(d)
      <3>1. PICK v : v = Merge(d, f[x], s)
        OBVIOUS
      <3>2. v \in Nat /\ (f[x] <= Top => v <= Top)
        BY <2>2, <3>1, MergeHas
      <3>3. Kept(d, v) \in Nat /\ Kept(d, v) <= v
        BY <3>2, KeptIs
      <3>4. g[x] = Kept(d, v) \/ g[x] = 0
        BY <1>1, <2>1, <2>4, <3>1, TurnAt DEF Exact, Dialects
      <3>5. ASSUME d = "book" PROVE 10 * Kept(d, v) <= (10 - Rho) * Top /\ 0 <= (10 - Rho) * Top
        <4>1. PICK m \in Nat, k \in Nat, r \in 0 .. 9 :
                 m = v * (10 - Rho) /\ k = m \div 10 /\ m = 10 * k + r
          BY <3>2, TenthsAre
        <4>2. Kept(d, v) = k
          BY <3>5, <4>1 DEF Kept
        <4>3. v <= Top
          BY <1>2, <2>2, <3>1, <3>5 DEF Merge, Lesser, Top
        <4>4. PICK t : t = 10 - Rho
          OBVIOUS
        <4>5. t \in Nat
          BY <4>4, Levels
        <4>6. v * t <= t * Top /\ t * Top \in Nat
          BY <1>2, <3>2, <4>3, <4>5
        <4>. QED  BY <4>1, <4>2, <4>4, <4>6
      <3>. QED  BY <1>2, <2>2, <3>2, <3>3, <3>4, <3>5
    <2>. QED  BY <2>3, <2>4
  <1>4. g = [y \in Cells |-> g[y]]
    BY <1>1 DEF FullTurn, Fade, Deposit
  <1>. QED  BY <1>1, <1>2, <1>3, <1>4 DEF Strengths

\* The grid after a turn: where grids are rounded, what was dropped of the
\* field would have been rounded to nothing.
LEMMA GridAt ==
    ASSUME Halving, NEW d \in Dialects, ~Exact(d), NEW f \in [Cells -> Nat], NEW c \in Cells,
           NEW up \in Ties(d), NEW x \in Cells
    PROVE  Snapshot(d, FullTurn(d, f, c, up), up)[x]
             = Fine * Thousandths(Kept(d, Merge(d, f[x], Stamp(d, c, x))), up)
  <1>1. PICK g, v, k : /\ g = FullTurn(d, f, c, up) /\ v = Merge(d, f[x], Stamp(d, c, x))
                       /\ k = Kept(d, v)
    OBVIOUS
  <1>2. v \in Nat
    BY <1>1, StampBounds, MergeHas
  <1>3. k \in Nat
    BY <1>1, <1>2, KeptIs
  <1>4. Snapshot(d, g, up)[x] = Fine * Thousandths(g[x], up)
    BY DEF Snapshot, Exact
  <1>5. Thousandths(g[x], up) = Thousandths(k, up)
    <2>1. CASE g[x] = k
      BY <2>1
    <2>2. CASE g[x] = 0 /\ ~(Thousandths(k, up) > 0)
      <3>1. up \in BOOLEAN
        BY TiesAre
      <3>2. Thousandths(k, up) \in Nat
        BY <1>3, <3>1, RoundedIs
      <3>3. Thousandths(0, up) = 0
        <4>1. Fine * 0 = 0 /\ 0 \in Nat
          BY Levels
        <4>. QED  BY <3>1, <4>1, RoundedWhole
      <3>. QED  BY <2>2, <3>2, <3>3
    <2>. QED  BY <1>1, <2>1, <2>2, TurnAt DEF Exact, Dialects
  <1>. QED  BY <1>1, <1>4, <1>5

\* A grid is read as it was sent.
LEMMA ReadAsSent ==
    ASSUME Halving, NEW d \in Dialects, NEW f \in [Cells -> Nat],
           NEW up \in Ties(d), NEW down \in Ties(d), NEW a, a = Snapshot(d, f, up)
    PROVE  a \in [Cells -> Nat] /\ Absorb(a) = a /\ ParseWire(d, a, down) = a
  <1>1. up \in BOOLEAN /\ down \in BOOLEAN
    BY TiesAre
  <1>2. a = [x \in Cells |-> a[x]]
    BY DEF Snapshot
  <1>3. ASSUME NEW x \in Cells
        PROVE  a[x] \in Nat /\ (~Exact(d) => Fine * Thousandths(a[x], down) = a[x])
    <2>1. CASE Exact(d)
      BY <2>1 DEF Snapshot, Exact
    <2>2. CASE ~Exact(d)
      <3>1. PICK q : q = Thousandths(f[x], up)
        OBVIOUS
      <3>2. q \in Nat
        BY <1>1, <3>1, RoundedIs
      <3>3. a[x] = Fine * q
        BY <2>2, <3>1 DEF Snapshot, Exact
      <3>. QED  BY <1>1, <3>2, <3>3, RoundedWhole
    <2>. QED  BY <2>1, <2>2
  <1>4. Absorb(a) = a
    <2>1. \A x \in Cells : Greater(0, a[x]) = a[x]
      BY <1>3 DEF Greater
    <2>. QED  BY <1>2, <2>1 DEF Absorb
  <1>5. Snapshot(d, a, down) = a
    <2>1. CASE Exact(d)
      BY <1>2, <2>1 DEF Snapshot, Exact
    <2>2. CASE ~Exact(d)
      <3>1. Snapshot(d, a, down) = [x \in Cells |-> Fine * Thousandths(a[x], down)]
        BY <2>2 DEF Snapshot, Exact
      <3>. QED  BY <1>2, <1>3, <2>2, <3>1
    <2>. QED  BY <2>1, <2>2
  <1>. QED  BY <1>2, <1>3, <1>4, <1>5 DEF ParseWire

\* What the law continues from a grid is, cell by cell, within a thousandth of
\* what it sends, though the grid was rounded and either side rounds its ties as
\* it likes.
LEMMA DriftIs ==
    ASSUME Halving, NEW d \in Dialects, NEW f \in [Cells -> Nat], NEW c \in Cells,
           NEW u1 \in Ties(d), NEW u2 \in Ties(d), NEW u3 \in Ties(d),
           NEW p, p = Snapshot(d, f, u1),
           NEW seen, seen = Snapshot(d, FullTurn(d, f, c, u2), u2),
           NEW e, e = Forward(d, p, c, u3)
    PROVE  /\ seen \in [Cells -> Nat] /\ e \in [Cells -> Nat]
           /\ Exact(d) => seen = e
           /\ \A x \in Cells : Magnitude(seen[x] - e[x]) <= Fine
  <1>1. p \in [Cells -> Nat] /\ Absorb(p) = p
    BY ReadAsSent
  <1>2. e = Snapshot(d, FullTurn(d, p, c, u3), u3)
    BY <1>1 DEF Forward
  <1>3. PICK g, k : g = FullTurn(d, f, c, u2) /\ k = FullTurn(d, p, c, u3)
    OBVIOUS
  <1>4. g \in [Cells -> Nat] /\ k \in [Cells -> Nat]
    BY <1>1, <1>3, TurnHas
  <1>5. seen \in [Cells -> Nat] /\ e \in [Cells -> Nat]
    BY <1>2, <1>3, <1>4, ReadAsSent
  <1>6. CASE Exact(d)
    <2>1. u2 = TRUE /\ u3 = TRUE
      BY <1>6, TiesAre DEF Exact
    <2>2. p = f
      BY <1>6 DEF Snapshot, Exact
    <2>3. seen = e
      BY <1>2, <2>1, <2>2
    <2>4. \A n \in Nat : Magnitude(n - n) <= Fine
      BY Levels DEF Magnitude
    <2>. QED  BY <1>5, <2>3, <2>4
  <1>7. CASE ~Exact(d)
    <2>1. u1 \in BOOLEAN /\ u2 \in BOOLEAN /\ u3 \in BOOLEAN
      BY TiesAre
    <2>2. ASSUME NEW x \in Cells PROVE Magnitude(seen[x] - e[x]) <= Fine
      <3>1. PICK s, v, w : /\ s = Stamp(d, c, x)
                           /\ v = Merge(d, f[x], s) /\ w = Merge(d, p[x], s)
        OBVIOUS
      <3>2. s \in 0 .. Top /\ f[x] \in Nat /\ p[x] \in Nat /\ v \in Nat /\ w \in Nat
        BY <1>1, <3>1, StampBounds, MergeHas
      <3>3. PICK h \in Nat \ {0} : Fine = 2 * h
        BY HalfIs
      <3>4. p[x] - f[x] <= h /\ f[x] - p[x] <= h
        <4>1. p[x] = Fine * Thousandths(f[x], u1)
          BY <1>7 DEF Snapshot, Exact
        <4>2. PICK z \in Nat : /\ z = Fine * Thousandths(f[x], u1)
                               /\ 2 * (z - f[x]) <= Fine /\ 2 * (f[x] - z) <= Fine
          BY <2>1, <3>2, RoundedClose
        <4>. QED  BY <3>2, <3>3, <4>1, <4>2
      <3>5. v - w <= h /\ w - v <= h
        <4>1. v - w <= Greater(0, f[x] - p[x]) /\ w - v <= Greater(0, p[x] - f[x])
          BY <3>1, <3>2, MergeHas
        <4>. QED  BY <3>2, <3>3, <3>4, <4>1 DEF Greater
      <3>6. PICK a, b : a = Kept(d, v) /\ b = Kept(d, w)
        OBVIOUS
      <3>7. a \in Nat /\ b \in Nat /\ a - b <= h /\ b - a <= h
        BY <3>2, <3>3, <3>5, <3>6, KeptIs, KeptNear
      <3>8. PICK q, r : q = Thousandths(a, u2) /\ r = Thousandths(b, u3)
        OBVIOUS
      <3>9. q <= r + 1 /\ r <= q + 1 /\ q \in Nat /\ r \in Nat
        <4>1. 2 * (a - b) <= Fine /\ 2 * (b - a) <= Fine
          BY <3>3, <3>7
        <4>. QED  BY <2>1, <3>7, <3>8, <4>1, RoundedNear, RoundedIs
      <3>10. seen[x] = Fine * q /\ e[x] = Fine * r
        BY <1>1, <1>2, <1>7, <3>1, <3>6, <3>8, GridAt
      <3>11. q = r \/ q = r + 1 \/ r = q + 1
        BY <3>9
      <3>12. Fine \in Nat /\ \A n \in Nat : Fine * n \in Nat /\ Fine * (n + 1) = Fine * n + Fine
        BY Levels
      <3>. QED  BY <3>9, <3>10, <3>11, <3>12 DEF Magnitude
    <2>. QED  BY <1>5, <1>7, <2>2
  <1>. QED  BY <1>6, <1>7

-----------------------------------------------------------------------------
(* What a reader makes of a grid under every law.                          *)

Heaviest == Greater(10, ZeroWeight)

Lightest == Lesser(10, ZeroWeight)

LEMMA ScoreBounds ==
    ASSUME NEW seen \in [Cells -> Nat], NEW expected \in [Cells -> Nat]
    PROVE  /\ (\A x \in Cells : Magnitude(seen[x] - expected[x]) <= Fine)
                => Residual(seen, expected) <= Heaviest * (Size * Size)
           /\ \A gap \in Nat, x \in Cells :
                Magnitude(seen[x] - expected[x]) >= Fine * gap
                   => Residual(seen, expected) >= Lightest * (gap * gap)
  <1>1. Fine \in Nat \ {0} /\ ZeroWeight \in Nat
    BY Levels
  <1>2. Heaviest \in Nat /\ Lightest \in Nat
    BY <1>1 DEF Heaviest, Lightest, Greater, Lesser
  <1>3. PICK w : w = [x \in Cells |->
           Weight(seen[x], expected[x]) * Square(Magnitude(seen[x] - expected[x]) \div Fine)]
    OBVIOUS
  <1>4. Residual(seen, expected) = Total(w)
    BY <1>3 DEF Residual
  <1>5. ASSUME NEW x \in Cells
        PROVE  /\ w[x] \in Nat
               /\ Magnitude(seen[x] - expected[x]) <= Fine => w[x] <= Heaviest
               /\ \A gap \in Nat :
                    Magnitude(seen[x] - expected[x]) >= Fine * gap => w[x] >= Lightest * (gap * gap)
    <2>1. PICK m, q, z : /\ m = Magnitude(seen[x] - expected[x]) /\ q = m \div Fine
                         /\ z = Weight(seen[x], expected[x])
      OBVIOUS
    <2>2. m \in Nat
      BY <2>1 DEF Magnitude
    <2>3. z \in Nat /\ Lightest <= z /\ z <= Heaviest
      BY <1>1, <2>1 DEF Weight, Lightest, Heaviest, Lesser, Greater
    <2>4. PICK r : r = m % Fine
      OBVIOUS
    <2>5. q \in Nat /\ r \in Nat /\ r < Fine /\ m = Fine * q + r
      <3>1. m \div Fine \in Nat /\ m % Fine \in 0 .. Fine - 1 /\ m = Fine * (m \div Fine) + (m % Fine)
        BY <1>1, <2>2, DivMod
      <3>. QED  BY <1>1, <2>1, <2>4, <3>1
    <2>6. w[x] = z * (q * q)
      BY <1>3, <2>1 DEF Square
    <2>7. w[x] \in Nat
      <3>1. q * q \in Nat
        BY <2>5
      <3>2. PICK n : n = q * q
        OBVIOUS
      <3>. QED  BY <2>3, <2>6, <3>1, <3>2
    <2>8. ASSUME m <= Fine PROVE w[x] <= Heaviest
      <3>1. Fine * q < Fine * 2
        BY <1>1, <2>5, <2>8
      <3>2. q = 0 \/ q = 1
        BY <1>1, <2>5, <3>1, Scaled
      <3>3. w[x] = 0 \/ w[x] = z
        BY <2>3, <2>6, <3>2
      <3>. QED  BY <1>2, <2>3, <3>3
    <2>9. ASSUME NEW gap \in Nat, m >= Fine * gap PROVE w[x] >= Lightest * (gap * gap)
      <3>1. Fine * gap < Fine * (q + 1)
        <4>1. Fine * (q + 1) = Fine * q + Fine /\ Fine * gap \in Nat /\ Fine * q \in Nat
          BY <1>1, <2>5
        <4>. QED  BY <1>1, <2>5, <2>9, <4>1
      <3>2. gap <= q
        <4>1. gap < q + 1
          BY <1>1, <2>5, <3>1, Scaled
        <4>. QED  BY <2>5, <4>1
      <3>3. PICK a, b : a = gap * gap /\ b = q * q
        OBVIOUS
      <3>4. a \in Nat /\ b \in Nat /\ a <= b
        BY <2>5, <3>2, <3>3
      <3>5. Lightest * a <= z * a /\ z * a <= z * b
        BY <1>2, <2>3, <3>4
      <3>6. Lightest * a \in Nat /\ z * a \in Nat /\ z * b \in Nat
        BY <1>2, <2>3, <3>4
      <3>. QED  BY <2>6, <3>3, <3>5, <3>6
    <2>. QED  BY <2>1, <2>7, <2>8, <2>9
  <1>6. ASSUME \A x \in Cells : Magnitude(seen[x] - expected[x]) <= Fine
        PROVE  Total(w) <= Heaviest * (Size * Size)
    BY <1>2, <1>5, <1>6, TotalBounds
  <1>7. ASSUME NEW gap \in Nat, NEW x \in Cells, Magnitude(seen[x] - expected[x]) >= Fine * gap
        PROVE  Total(w) >= Lightest * (gap * gap)
    <2>1. w[x] \in Nat /\ w[x] >= Lightest * (gap * gap)
      BY <1>5, <1>7
    <2>2. Total(w) \in Nat /\ w[x] <= Total(w)
      BY <1>5, TotalIs, TotalBounds
    <2>3. PICK n : n = Lightest * (gap * gap)
      OBVIOUS
    <2>4. n \in Nat
      <3>1. gap * gap \in Nat
        OBVIOUS
      <3>2. PICK a : a = gap * gap
        OBVIOUS
      <3>. QED  BY <1>2, <2>3, <3>1, <3>2
    <2>. QED  BY <2>1, <2>2, <2>3, <2>4
  <1>. QED  BY <1>4, <1>6, <1>7

\* The filter's floor lies above what rounding alone can cost.
Fitting == Heaviest * (Size * Size) <= ResyncAt

\* Thousandths that a stamp adds, at least, to a cell under the book law: the
\* strength at the edge of the window, or what the cap leaves of it.
Added == Lesser(Emit * Rho, 10 * Low)

\* After decay and rounding there are gap of them.
Leaves(gap) == 100 * (gap + 2) <= (10 - Rho) * (Added - 5)

\* One stamp more or less weighs more than rounding the whole board.
Telling ==
    /\ Window <= Size
    /\ \E gap \in Nat : Leaves(gap) /\ Heaviest * (Size * Size) <= Lightest * (gap * gap)

\* Two strengths of a cell the same but for rounding, one of them with a stamp.
LEMMA GapIs ==
    ASSUME Halving, NEW gap \in Nat, Leaves(gap),
           NEW a \in Nat, NEW b \in Nat, 2 * (a - b) <= Fine, 2 * (b - a) <= Fine,
           10 * a <= (10 - Rho) * Top \/ 10 * b <= (10 - Rho) * Top,
           NEW s \in 0 .. Top, s >= Fine * Low, NEW up \in BOOLEAN, NEW down \in BOOLEAN
    PROVE  Thousandths(Kept("book", Merge("book", a, s)), up)
             >= Thousandths(Kept("book", Merge("book", b, 0)), down) + gap
  <1>1. PICK h \in Nat \ {0} : Fine = 2 * h
    BY HalfIs
  <1>2. PICK t, k : t = Top /\ k = 10 - Rho
    OBVIOUS
  <1>3. t \in Nat /\ k \in 0 .. 10 /\ Rho \in Nat /\ Emit \in Nat /\ Low \in Nat /\ Fine \in Nat \ {0}
    BY <1>2, Levels
  <1>4. PICK v, w : v = Merge("book", a, s) /\ w = Merge("book", b, 0)
    OBVIOUS
  <1>5. v = Lesser(t, a + s) /\ w = Lesser(t, b) /\ v \in Nat /\ w \in Nat
    <2>1. b + 0 = b
      OBVIOUS
    <2>. QED  BY <1>2, <1>3, <1>4, <2>1 DEF Merge, Lesser, Top
  <1>6. PICK m, e, l : m = Added /\ e = Fine * m /\ l = Fine * Low
    OBVIOUS
  <1>7. m \in Nat /\ e \in Nat /\ l \in Nat /\ e <= Rho * t /\ Rho * t \in Nat /\ e <= 10 * l
    <2>1. PICK n, o : n = Emit * Rho /\ o = 10 * Low
      OBVIOUS
    <2>2. n \in Nat /\ o \in Nat /\ m \in Nat /\ m <= n /\ m <= o
      BY <1>3, <1>6, <2>1 DEF Added, Lesser
    <2>3. Fine * m <= Fine * n /\ Fine * m <= Fine * o /\ Fine * m \in Nat
      BY <1>3, <2>2, Scaled
    <2>4. Fine * n = Rho * t
      BY <1>2, <1>3, <2>1 DEF Top
    <2>5. Fine * o = 10 * l
      BY <1>3, <1>6, <2>1
    <2>6. l \in Nat /\ Rho * t \in Nat
      BY <1>3, <1>6
    <2>. QED  BY <1>6, <2>2, <2>3, <2>4, <2>5, <2>6
  <1>8. 10 * (v - w) >= e - 5 * Fine
    <2>1. (10 - Rho) * Top = 10 * t - Rho * t
      BY <1>2, <1>3
    <2>2. 10 * b <= 10 * t - Rho * t + 10 * h
      BY <1>1, <1>3, <1>7, <2>1
    <2>3. CASE v = t
      BY <1>1, <1>3, <1>5, <1>7, <2>2, <2>3 DEF Lesser
    <2>4. CASE v = a + s
      BY <1>1, <1>3, <1>5, <1>6, <1>7, <2>4 DEF Lesser
    <2>. QED  BY <1>5, <2>3, <2>4 DEF Lesser
  <1>9. PICK i, j : i = Kept("book", v) /\ j = Kept("book", w)
    OBVIOUS
  <1>10. i - j >= Fine * (gap + 1) /\ i \in Nat /\ j \in Nat
    <2>1. PICK p \in Nat, q \in Nat, r \in 0 .. 9 :
             p = v * (10 - Rho) /\ q = p \div 10 /\ p = 10 * q + r
      BY <1>5, TenthsAre, ZenonT(60)
    <2>2. PICK x \in Nat, y \in Nat, z \in 0 .. 9 :
             x = w * (10 - Rho) /\ y = x \div 10 /\ x = 10 * y + z
      BY <1>5, TenthsAre, ZenonT(60)
    <2>3. q = i /\ y = j
      BY <1>9, <2>1, <2>2 DEF Kept
    <2>4. 10 * (p - x) >= Fine * (100 * (gap + 2))
      <3>1. PICK u, n : u = 10 * (v - w) /\ n = e - 5 * Fine
        OBVIOUS
      <3>2. u \in Int /\ n \in Int /\ n <= u
        BY <1>3, <1>5, <1>7, <1>8, <3>1
      <3>3. n * k <= u * k /\ n * k \in Int /\ u * k \in Int
        BY <1>3, <3>2
      <3>4. 10 * (p - x) = u * k
        BY <1>2, <1>3, <1>5, <2>1, <2>2, <3>1
      <3>5. n = Fine * (m - 5)
        BY <1>3, <1>6, <1>7, <3>1
      <3>6. n * k = Fine * (k * (m - 5))
        BY <1>3, <1>7, <3>5
      <3>7. Fine * (100 * (gap + 2)) <= Fine * (k * (m - 5))
        <4>1. 100 * (gap + 2) <= k * (m - 5)
          BY <1>2, <1>6 DEF Leaves
        <4>2. PICK o : o = k * (m - 5)
          OBVIOUS
        <4>3. o \in Int
          BY <1>3, <1>7, <4>2
        <4>. QED  BY <1>3, <4>1, <4>2, <4>3, Scaled
      <3>8. Fine * (100 * (gap + 2)) \in Int
        BY <1>3
      <3>. QED  BY <3>3, <3>4, <3>6, <3>7, <3>8
    <2>5. PICK g : g = Fine * (gap + 1)
      OBVIOUS
    <2>6. g \in Nat /\ Fine * (100 * (gap + 2)) = 100 * g + 100 * Fine
      BY <1>3, <2>5
    <2>7. q - y >= g
      BY <1>3, <2>1, <2>2, <2>4, <2>6
    <2>. QED  BY <2>3, <2>5, <2>7
  <1>. QED  BY <1>4, <1>9, <1>10, RoundedApart

\* Two windows as wide as the board at most never cover the same lines of it.
LEMMA EdgeIs ==
    ASSUME NEW a \in 0 .. Size - 1, NEW b \in 0 .. Size - 1, a < b, Window <= Size
    PROVE  \E y \in 0 .. Size - 1 :
              \/ Magnitude(a - y) <= Half /\ Magnitude(b - y) > Half
              \/ Magnitude(b - y) <= Half /\ Magnitude(a - y) > Half
  <1>1. Half \in Nat /\ Size \in Nat /\ 2 * Half + 1 <= Size
    BY Levels
  <1>2. CASE b + Half <= Size - 1
    <2>1. PICK y : y = b + Half
      OBVIOUS
    <2>2. y \in 0 .. Size - 1 /\ Magnitude(b - y) <= Half /\ Magnitude(a - y) > Half
      BY <1>1, <1>2, <2>1 DEF Magnitude
    <2>. QED  BY <2>2
  <1>3. CASE ~(b + Half <= Size - 1)
    <2>1. PICK y : y = Greater(0, a - Half)
      OBVIOUS
    <2>2. y \in 0 .. Size - 1 /\ Magnitude(a - y) <= Half /\ Magnitude(b - y) > Half
      BY <1>1, <1>3, <2>1 DEF Magnitude, Greater
    <2>. QED  BY <2>2
  <1>. QED  BY <1>2, <1>3

LEMMA RingAlong ==
    ASSUME NEW a \in Cells, NEW y \in Int, NEW k \in Int
    PROVE  /\ Ring(a, <<y, k>>) \in Nat
           /\ Ring(a, <<y, k>>) >= Magnitude(a[1] - y) /\ Ring(a, <<y, k>>) >= Magnitude(a[2] - k)
           /\ k = a[2] => Ring(a, <<y, k>>) = Magnitude(a[1] - y)
           /\ y = a[1] => Ring(a, <<y, k>>) = Magnitude(a[2] - k)
  BY CellsHere DEF Ring, Greater, Magnitude

LEMMA WindowsDiffer ==
    ASSUME NEW c \in Cells, NEW x \in Cells, c # x, Window <= Size
    PROVE  \E y \in Cells : \/ Ring(c, y) <= Half /\ ~(Ring(x, y) <= Half)
                            \/ Ring(x, y) <= Half /\ ~(Ring(c, y) <= Half)
  <1>1. /\ c[1] \in 0 .. Size - 1 /\ c[2] \in 0 .. Size - 1 /\ c = <<c[1], c[2]>>
        /\ x[1] \in 0 .. Size - 1 /\ x[2] \in 0 .. Size - 1 /\ x = <<x[1], x[2]>>
        /\ Half \in Nat /\ Size \in Nat
    BY Levels DEF Cells
  <1>2. \A a, b \in 0 .. Size - 1 : a # b =>
           \E y \in 0 .. Size - 1 :
              \/ Magnitude(a - y) <= Half /\ Magnitude(b - y) > Half
              \/ Magnitude(b - y) <= Half /\ Magnitude(a - y) > Half
    <2>1. ASSUME NEW a \in 0 .. Size - 1, NEW b \in 0 .. Size - 1, a # b
          PROVE  a < b \/ b < a
      BY <1>1, <2>1
    <2>. QED  BY <2>1, EdgeIs
  <1>3. \A n \in Int : Magnitude(n) \in Nat
    BY DEF Magnitude
  <1>4. CASE c[1] # x[1]
    <2>1. PICK y \in 0 .. Size - 1 :
              \/ Magnitude(c[1] - y) <= Half /\ Magnitude(x[1] - y) > Half
              \/ Magnitude(x[1] - y) <= Half /\ Magnitude(c[1] - y) > Half
      BY <1>1, <1>2, <1>4
    <2>2. \A k \in 0 .. Size - 1 : <<y, k>> \in Cells /\ <<y, k>>[1] = y /\ <<y, k>>[2] = k
      BY DEF Cells
    <2>3. CASE Magnitude(c[1] - y) <= Half /\ Magnitude(x[1] - y) > Half
      <3>1. /\ Ring(c, <<y, c[2]>>) <= Half /\ ~(Ring(x, <<y, c[2]>>) <= Half)
        BY <1>1, <1>3, <2>1, <2>3, RingAlong
      <3>. QED  BY <1>1, <2>2, <3>1
    <2>4. CASE Magnitude(x[1] - y) <= Half /\ Magnitude(c[1] - y) > Half
      <3>1. /\ Ring(x, <<y, x[2]>>) <= Half /\ ~(Ring(c, <<y, x[2]>>) <= Half)
        BY <1>1, <1>3, <2>1, <2>4, RingAlong
      <3>. QED  BY <1>1, <2>2, <3>1
    <2>. QED  BY <2>1, <2>3, <2>4
  <1>5. CASE c[2] # x[2]
    <2>1. PICK y \in 0 .. Size - 1 :
              \/ Magnitude(c[2] - y) <= Half /\ Magnitude(x[2] - y) > Half
              \/ Magnitude(x[2] - y) <= Half /\ Magnitude(c[2] - y) > Half
      BY <1>1, <1>2, <1>5
    <2>2. \A k \in 0 .. Size - 1 : <<k, y>> \in Cells /\ <<k, y>>[1] = k /\ <<k, y>>[2] = y
      BY DEF Cells
    <2>3. CASE Magnitude(c[2] - y) <= Half /\ Magnitude(x[2] - y) > Half
      <3>1. /\ Ring(c, <<c[1], y>>) <= Half /\ ~(Ring(x, <<c[1], y>>) <= Half)
        BY <1>1, <1>3, <2>1, <2>3, RingAlong
      <3>. QED  BY <1>1, <2>2, <3>1
    <2>4. CASE Magnitude(x[2] - y) <= Half /\ Magnitude(c[2] - y) > Half
      <3>1. /\ Ring(x, <<x[1], y>>) <= Half /\ ~(Ring(c, <<x[1], y>>) <= Half)
        BY <1>1, <1>3, <2>1, <2>4, RingAlong
      <3>. QED  BY <1>1, <2>2, <3>1
    <2>. QED  BY <2>1, <2>3, <2>4
  <1>. QED  BY <1>1, <1>4, <1>5

LEMMA BookApart ==
    ASSUME Halving, Window <= Size, NEW gap \in Nat, Leaves(gap),
           NEW f \in [Cells -> Nat], \A y \in Cells : 10 * f[y] <= (10 - Rho) * Top,
           NEW c \in Cells, NEW x \in Cells, c # x,
           NEW u1 \in BOOLEAN, NEW u2 \in BOOLEAN, NEW u3 \in BOOLEAN,
           NEW p, p = Snapshot("book", f, u1),
           NEW seen, seen = Snapshot("book", FullTurn("book", f, c, u2), u2),
           NEW e, e = Forward("book", p, x, u3)
    PROVE  \E y \in Cells : Magnitude(seen[y] - e[y]) >= Fine * gap
  <1>1. "book" \in Dialects /\ ~Exact("book") /\ Ties("book") = BOOLEAN
    BY DEF Dialects, Exact, Ties
  <1>2. p \in [Cells -> Nat] /\ Absorb(p) = p
    BY <1>1, ReadAsSent
  <1>3. PICK y \in Cells : \/ Ring(c, y) <= Half /\ ~(Ring(x, y) <= Half)
                           \/ Ring(x, y) <= Half /\ ~(Ring(c, y) <= Half)
    BY WindowsDiffer
  <1>4. PICK s, r, a, b : /\ s = Stamp("book", c, y) /\ r = Stamp("book", x, y)
                          /\ a = f[y] /\ b = p[y]
    OBVIOUS
  <1>5. /\ s \in 0 .. Top /\ r \in 0 .. Top /\ a \in Nat /\ b \in Nat
        /\ \/ s >= Fine * Low /\ r = 0
           \/ r >= Fine * Low /\ s = 0
    BY <1>1, <1>2, <1>3, <1>4, StampBounds DEF Exact
  <1>6. 2 * (a - b) <= Fine /\ 2 * (b - a) <= Fine /\ 10 * a <= (10 - Rho) * Top
    <2>1. b = Fine * Thousandths(a, u1)
      BY <1>1, <1>4 DEF Snapshot
    <2>. QED  BY <1>4, <1>5, <2>1, RoundedClose
  <1>7. PICK q, n : /\ q = Thousandths(Kept("book", Merge("book", a, s)), u2)
                    /\ n = Thousandths(Kept("book", Merge("book", b, r)), u3)
    OBVIOUS
  <1>8. seen[y] = Fine * q /\ e[y] = Fine * n
    BY <1>1, <1>2, <1>4, <1>7, GridAt DEF Forward
  <1>9. q \in Nat /\ n \in Nat
    <2>1. Merge("book", a, s) \in Nat /\ Merge("book", b, r) \in Nat
      BY <1>1, <1>5, MergeHas
    <2>2. Kept("book", Merge("book", a, s)) \in Nat /\ Kept("book", Merge("book", b, r)) \in Nat
      BY <1>1, <2>1, KeptIs
    <2>. QED  BY <1>7, <2>2, RoundedIs
  <1>10. q >= n + gap \/ n >= q + gap
    <2>1. CASE s >= Fine * Low /\ r = 0
      BY <1>5, <1>6, <1>7, <2>1, GapIs
    <2>2. CASE r >= Fine * Low /\ s = 0
      BY <1>5, <1>6, <1>7, <2>2, GapIs
    <2>. QED  BY <1>5, <2>1, <2>2
  <1>11. Magnitude(seen[y] - e[y]) >= Fine * gap
    <2>1. Fine \in Nat \ {0}
      BY Levels
    <2>2. ASSUME NEW i \in Nat, NEW j \in Nat, i >= j + gap
          PROVE  Fine * i - Fine * j >= Fine * gap /\ Fine * i \in Nat /\ Fine * j \in Nat
                 /\ Fine * gap \in Nat
      <3>1. Fine * (j + gap) <= Fine * i
        BY <2>1, <2>2, Scaled
      <3>2. Fine * (j + gap) = Fine * j + Fine * gap /\ Fine * j \in Nat /\ Fine * gap \in Nat
            /\ Fine * i \in Nat
        BY <2>1
      <3>. QED  BY <3>1, <3>2
    <2>. QED  BY <1>8, <1>9, <1>10, <2>2 DEF Magnitude
  <1>. QED  BY <1>11

\* A field some turn has passed over, or none yet.
Worn(d, f) ==
    /\ f \in Strengths
    /\ d = "book" => \A x \in Cells : 10 * f[x] <= (10 - Rho) * Top

\* a is the grid of f, and the grid of the turn at c that followed one of p.
OnAir(d, f, a) == \E up \in Ties(d) : a = Snapshot(d, f, up)

Follows(d, p, c, a) ==
    \E f \in Strengths : \E u1, u2 \in Ties(d) :
        /\ Worn(d, f) /\ p = Snapshot(d, f, u1)
        /\ a = Snapshot(d, FullTurn(d, f, c, u2), u2)

LEMMA FieldsAreNat == Strengths \subseteq [Cells -> Nat]
  BY Levels DEF Strengths

LEMMA ReadingClose ==
    ASSUME Halving, NEW d \in Dialects, NEW p, NEW c \in Cells, NEW seen, Follows(d, p, c, seen),
           NEW S \in SUBSET Cells, c \in S, NEW up \in Ties(d),
           NEW fit, fit = Continues(d, seen, p, S, up)
    PROVE  /\ fit[c] \in Nat /\ fit[c] <= Heaviest * (Size * Size)
           /\ Fitting => ~Resyncs(fit, S)
  <1>1. PICK f \in Strengths, u1 \in Ties(d), u2 \in Ties(d) :
           p = Snapshot(d, f, u1) /\ seen = Snapshot(d, FullTurn(d, f, c, u2), u2)
    BY DEF Follows
  <1>2. PICK e : e = Forward(d, p, c, up)
    OBVIOUS
  <1>3. f \in [Cells -> Nat]
    BY FieldsAreNat
  <1>4. /\ seen \in [Cells -> Nat] /\ e \in [Cells -> Nat]
        /\ \A x \in Cells : Magnitude(seen[x] - e[x]) <= Fine
    BY <1>1, <1>2, <1>3, DriftIs
  <1>5. fit[c] = Residual(seen, e)
    BY <1>2 DEF Continues
  <1>6. fit[c] \in Nat /\ fit[c] <= Heaviest * (Size * Size)
    BY <1>4, <1>5, ScoreIs, ScoreBounds
  <1>7. ASSUME Fitting PROVE ~Resyncs(fit, S)
    <2>1. PICK n, m : n = fit[c] /\ m = Heaviest * (Size * Size)
      OBVIOUS
    <2>2. m \in Nat
      <3>1. Heaviest \in Nat /\ Size * Size \in Nat
        BY Levels, CellAtIs DEF Heaviest, Greater
      <3>2. PICK k : k = Size * Size
        OBVIOUS
      <3>. QED  BY <2>1, <3>1, <3>2
    <2>3. n \in Nat /\ n <= m /\ m <= ResyncAt /\ ResyncAt \in Nat
      BY <1>6, <1>7, <2>1, TrackingAssumption DEF Fitting
    <2>4. ~(n > ResyncAt)
      BY <2>2, <2>3
    <2>. QED  BY <2>1, <2>4 DEF Resyncs
  <1>. QED  BY <1>6, <1>7

\* Under the laws that sum, the cell of the emitter explains a grid best.
LEMMA ReadingTells ==
    ASSUME Halving, Telling, NEW d \in Dialects, d # "reference", NEW p, NEW c \in Cells, NEW seen,
           Follows(d, p, c, seen), NEW S \in SUBSET Cells, c \in S, NEW up \in Ties(d),
           NEW fit, fit = Continues(d, seen, p, S, up)
    PROVE  c \in Lowest(fit, S)
  <1>1. PICK f \in Strengths, u1 \in Ties(d), u2 \in Ties(d) :
           Worn(d, f) /\ p = Snapshot(d, f, u1) /\ seen = Snapshot(d, FullTurn(d, f, c, u2), u2)
    BY DEF Follows
  <1>2. f \in [Cells -> Nat] /\ p \in [Cells -> Nat] /\ seen \in [Cells -> Nat]
    <2>1. f \in [Cells -> Nat]
      BY FieldsAreNat
    <2>2. FullTurn(d, f, c, u2) \in [Cells -> Nat]
      BY <2>1, TurnHas
    <2>. QED  BY <1>1, <2>1, <2>2, ReadAsSent
  <1>3. ASSUME NEW x \in S
        PROVE  /\ fit[x] = Residual(seen, Forward(d, p, x, up)) /\ fit[x] \in Nat
               /\ Forward(d, p, x, up) \in [Cells -> Nat]
    <2>1. Absorb(p) = p
      BY <1>1, <1>2, ReadAsSent
    <2>2. FullTurn(d, p, x, up) \in [Cells -> Nat]
      BY <1>2, TurnHas
    <2>3. Forward(d, p, x, up) \in [Cells -> Nat]
      BY <2>1, <2>2, ReadAsSent DEF Forward
    <2>4. fit[x] = Residual(seen, Forward(d, p, x, up))
      BY DEF Continues
    <2>. QED  BY <1>2, <2>3, <2>4, ScoreIs
  <1>4. fit[c] \in Nat /\ fit[c] <= Heaviest * (Size * Size)
    BY ReadingClose
  <1>5. ASSUME NEW x \in S PROVE fit[c] <= fit[x]
    <2>1. CASE x = c
      BY <1>4, <2>1
    <2>2. CASE Exact(d)
      <3>1. PICK e : e = Forward(d, p, c, up)
        OBVIOUS
      <3>2. seen = e
        BY <1>1, <1>2, <2>2, <3>1, DriftIs
      <3>3. fit[c] = 0
        BY <1>2, <1>3, <3>1, <3>2, ScoreIs
      <3>. QED  BY <1>3, <3>3
    <2>3. CASE x # c /\ ~Exact(d)
      <3>1. d = "book"
        BY <2>3 DEF Exact, Dialects
      <3>2. PICK gap \in Nat : Leaves(gap) /\ Heaviest * (Size * Size) <= Lightest * (gap * gap)
        BY DEF Telling
      <3>3. PICK e : e = Forward(d, p, x, up)
        OBVIOUS
      <3>4. u1 \in BOOLEAN /\ u2 \in BOOLEAN /\ up \in BOOLEAN
        BY TiesAre
      <3>5. \A y \in Cells : 10 * f[y] <= (10 - Rho) * Top
        BY <1>1, <3>1 DEF Worn
      <3>6. \E y \in Cells : Magnitude(seen[y] - e[y]) >= Fine * gap
        <4>1. /\ p = Snapshot("book", f, u1) /\ seen = Snapshot("book", FullTurn("book", f, c, u2), u2)
              /\ e = Forward("book", p, x, up) /\ x \in Cells /\ c # x /\ Window <= Size
              /\ f \in [Cells -> Nat]
          BY <1>1, <1>2, <2>3, <3>1, <3>3 DEF Telling
        <4>. QED  BY <3>2, <3>4, <3>5, <4>1, BookApart
      <3>7. e \in [Cells -> Nat] /\ fit[x] = Residual(seen, e)
        BY <1>3, <3>3
      <3>8. Lightest * (gap * gap) <= fit[x]
        BY <1>2, <3>6, <3>7, ScoreBounds
      <3>9. PICK m, n : m = Heaviest * (Size * Size) /\ n = Lightest * (gap * gap)
        OBVIOUS
      <3>10. m \in Nat /\ n \in Nat
        <4>1. PICK k, g : k = Size * Size /\ g = gap * gap
          OBVIOUS
        <4>2. k \in Nat /\ g \in Nat /\ Heaviest \in Nat /\ Lightest \in Nat
          BY <4>1, Levels, CellAtIs DEF Heaviest, Lightest, Greater, Lesser
        <4>. QED  BY <3>9, <4>1, <4>2
      <3>. QED  BY <1>3, <1>4, <3>2, <3>8, <3>9, <3>10
    <2>. QED  BY <2>1, <2>2, <2>3
  <1>. QED  BY <1>5 DEF Lowest

-----------------------------------------------------------------------------
(* No law hides the truth.                                                 *)

LEMMA LawIs == ASSUME NEW c \in Configs PROVE Law(c) \in Dialects
  <1>1. c.tree.dialect \in Laws \cup {None} /\ c.override \in Laws \cup {None}
        /\ "dialect" \in DOMAIN c.tree
    BY AgreementAssumption DEF Entries
  <1>2. PICK g : g = RuntimeTerms(c.tree)
    OBVIOUS
  <1>3. g.dialect \in Laws /\ "dialect" \in DOMAIN g
    BY <1>1, <1>2 DEF RuntimeTerms, Laws
  <1>4. OverrideGame(g, c.override).dialect \in Laws
    BY <1>1, <1>3 DEF OverrideGame
  <1>. QED  BY <1>2, <1>4 DEF Law, Loaded, Laws, Dialects

\* What the emitter has sent and the reader has kept of it.
FollowInv ==
    /\ config \in [Roles -> Configs]
    /\ lab \in BOOLEAN /\ emitter \in Roles /\ pos \in Cells /\ turn \in Nat
    /\ Worn(LawOf(emitter), field) /\ OnAir(LawOf(emitter), field, air)
    /\ OneLaw =>
        /\ ~unread /\ ~Unstarted => prev = air
        /\ unread /\ turn > 0 /\ ~SeededReading => Follows(LawOf(emitter), prev, pos, air)
        /\ Digested /\ InView /\ ~SeededReading =>
            /\ ~refit
            /\ Telling /\ LawOf(emitter) # "reference" => pos \in best

LEMMA EmitterLaw ==
    ASSUME config \in [Roles -> Configs], emitter \in Roles
    PROVE  /\ LawOf(emitter) \in Dialects /\ LawOf(Reader) \in Dialects
           /\ OneLaw => LawOf(Reader) = LawOf(emitter)
  BY LawIs DEF LawOf, Reader, Opp, Roles, OneLaw

LEMMA Unworn ==
    ASSUME Halving, NEW d \in Dialects
    PROVE  Worn(d, NoScent) /\ OnAir(d, NoScent, NoScent)
  <1>1. NoScent \in Strengths
    BY Levels DEF NoScent, Strengths
  <1>2. \A x \in Cells : 10 * NoScent[x] <= (10 - Rho) * Top
    <2>1. (10 - Rho) * Top \in Nat
      <3>1. PICK k, t : k = 10 - Rho /\ t = Top
        OBVIOUS
      <3>2. k \in Nat /\ t \in Nat
        BY <3>1, Levels
      <3>. QED  BY <3>1, <3>2
    <2>. QED  BY <2>1 DEF NoScent
  <1>3. TRUE \in Ties(d)
    BY DEF Ties
  <1>4. Snapshot(d, NoScent, TRUE) = NoScent
    <2>1. Thousandths(0, TRUE) = 0 /\ Fine * 0 = 0
      <3>1. Fine * 0 = 0 /\ 0 \in Nat
        BY Levels
      <3>. QED  BY <3>1, RoundedWhole
    <2>. QED  BY <2>1 DEF Snapshot, NoScent
  <1>. QED  BY <1>1, <1>2, <1>3, <1>4 DEF Worn, OnAir

LEMMA FollowInit == ASSUME Halving, Init PROVE FollowInv
  <1>1. /\ config \in [Roles -> Configs]
        /\ lab \in BOOLEAN /\ emitter \in Roles /\ pos \in Cells /\ turn = 0
        /\ field = NoScent /\ air = NoScent
        /\ unread = (lab /\ emitter = "police") /\ (~lab => prev = NoScent)
    BY TrackingAssumption DEF Init, AgreementInit, Start
  <1>2. Worn(LawOf(emitter), field) /\ OnAir(LawOf(emitter), field, air)
    BY <1>1, EmitterLaw, Unworn
  <1>3. ~unread /\ ~Unstarted => prev = air
    BY <1>1 DEF Unstarted, Roles
  <1>. QED  BY <1>1, <1>2, <1>3 DEF FollowInv, Digested

LEMMA FollowEmit == ASSUME Halving, FollowInv, EmitTurn PROVE FollowInv'
  <1>1. config' = config /\ emitter' = emitter /\ lab' = lab /\ prev' = prev
        /\ LawOf(emitter)' = LawOf(emitter) /\ OneLaw' = OneLaw
    BY DEF EmitTurn, body, filter, LawOf, OneLaw
  <1>2. /\ pos' \in Cells /\ turn' = turn + 1 /\ turn \in Nat /\ ~unread /\ unread'
        /\ config \in [Roles -> Configs] /\ lab \in BOOLEAN /\ emitter \in Roles
    BY DEF EmitTurn, CanStep, FollowInv
  <1>3. PICK d, f, c, a : d = LawOf(emitter) /\ f = field' /\ c = pos' /\ a = air'
    OBVIOUS
  <1>4. PICK up \in Ties(d) : f = FullTurn(d, field, c, up) /\ a = Snapshot(d, f, up)
    BY <1>3 DEF EmitTurn
  <1>5. /\ d \in Dialects /\ c \in Cells /\ field \in Strengths /\ field \in [Cells -> Nat]
        /\ Worn(d, field)
    BY <1>2, <1>3, EmitterLaw, FieldsAreNat DEF FollowInv, Worn
  <1>6. Worn(d, f) /\ OnAir(d, f, a)
    <2>1. f \in Strengths /\ (d = "book" => \A x \in Cells : 10 * f[x] <= (10 - Rho) * Top)
      BY <1>4, <1>5, TurnHas
    <2>. QED  BY <1>4, <2>1 DEF Worn, OnAir
  <1>7. ASSUME OneLaw, ~SeededReading' PROVE Follows(d, prev, c, a)
    <2>1. ~Unstarted
      BY <1>1, <1>2, <1>7 DEF SeededReading, Unstarted
    <2>2. prev = air /\ OnAir(d, field, air)
      BY <1>2, <1>3, <1>7, <2>1 DEF FollowInv
    <2>3. PICK u1 \in Ties(d) : prev = Snapshot(d, field, u1)
      BY <2>2 DEF OnAir
    <2>4. a = Snapshot(d, FullTurn(d, field, c, up), up)
      BY <1>4
    <2>. QED  BY <1>4, <1>5, <2>3, <2>4 DEF Follows
  <1>8. Worn(LawOf(emitter), field)' /\ OnAir(LawOf(emitter), field, air)'
    BY <1>1, <1>3, <1>6 DEF Worn, OnAir
  <1>9. OneLaw' /\ ~SeededReading' => Follows(LawOf(emitter), prev, pos, air)'
    BY <1>1, <1>3, <1>7 DEF Follows, Worn
  <1>. QED  BY <1>1, <1>2, <1>8, <1>9 DEF FollowInv, Digested

LEMMA FollowRead == ASSUME Halving, Fitting, FollowInv, ReadTurn PROVE FollowInv'
  <1>1. /\ config' = config /\ UNCHANGED body /\ UNCHANGED sent /\ unread /\ unread' = FALSE
        /\ LawOf(emitter)' = LawOf(emitter) /\ OneLaw' = OneLaw
    BY DEF ReadTurn, LawOf, OneLaw, body
  <1>2. PICK d, c, a : d = LawOf(emitter) /\ c = pos /\ a = air
    OBVIOUS
  <1>3. /\ d \in Dialects /\ c \in Cells /\ field \in [Cells -> Nat] /\ OnAir(d, field, a)
        /\ OneLaw => LawOf(Reader) = d
    BY <1>2, EmitterLaw, FieldsAreNat DEF FollowInv, Worn
  <1>4. PICK S : S = Cells \ masked'
    OBVIOUS
  <1>5. ASSUME OneLaw
        PROVE  \E up \in Ties(d) : \E fit :
                  /\ prev' = ParseWire(d, a, up)
                  /\ fit = Continues(d, prev', prev, S, up)
                  /\ refit' = Resyncs(fit, S)
                  /\ ~refit' => best' = Lowest(fit, S)
    <2>1. PICK up \in Ties(d) :
             /\ prev' = ParseWire(d, a, up)
             /\ refit' = Resyncs(Continues(d, ParseWire(d, a, up), prev, S, up), S)
             /\ best' = Lowest(IF refit' THEN Restarts(d, ParseWire(d, a, up), S, up)
                               ELSE Continues(d, ParseWire(d, a, up), prev, S, up), S)
      BY <1>2, <1>3, <1>4, <1>5 DEF ReadTurn
    <2>. QED  BY <2>1
  <1>6. ASSUME OneLaw PROVE prev' = a
    <2>1. PICK u \in Ties(d) : a = Snapshot(d, field, u)
      BY <1>3 DEF OnAir
    <2>. QED  BY <1>3, <1>5, <1>6, <2>1, ReadAsSent
  <1>7. ASSUME OneLaw, turn > 0, c \notin masked', ~SeededReading
        PROVE  ~refit' /\ (Telling /\ d # "reference" => c \in best')
    <2>1. Follows(d, prev, c, a)
      BY <1>1, <1>2, <1>7 DEF FollowInv
    <2>2. PICK up, fit :
             /\ up \in Ties(d) /\ fit = Continues(d, a, prev, S, up)
             /\ refit' = Resyncs(fit, S) /\ (~refit' => best' = Lowest(fit, S))
      BY <1>5, <1>6, <1>7
    <2>3. S \in SUBSET Cells /\ c \in S
      BY <1>3, <1>4, <1>7
    <2>4. ~refit'
      BY <1>3, <2>1, <2>2, <2>3, ReadingClose
    <2>5. ASSUME Telling, d # "reference" PROVE c \in Lowest(fit, S)
      BY <1>3, <2>1, <2>2, <2>3, <2>5, ReadingTells
    <2>. QED  BY <2>2, <2>4, <2>5
  <1>8. /\ pos' = pos /\ turn' = turn /\ field' = field /\ air' = air
        /\ lab' = lab /\ emitter' = emitter
    BY <1>1 DEF body, sent
  <1>9. SeededReading' = SeededReading
    BY <1>8 DEF SeededReading
  <1>10. Worn(LawOf(emitter), field)' /\ OnAir(LawOf(emitter), field, air)'
    BY <1>1, <1>8 DEF FollowInv, Worn, OnAir
  <1>11. OneLaw' => prev' = air'
    BY <1>1, <1>2, <1>6, <1>8
  <1>12. (OneLaw /\ Digested /\ InView /\ ~SeededReading)' =>
            ~refit' /\ (Telling /\ LawOf(emitter)' # "reference" => pos' \in best')
    BY <1>1, <1>2, <1>7, <1>8, <1>9 DEF Digested, InView
  <1>. QED  BY <1>1, <1>8, <1>10, <1>11, <1>12 DEF FollowInv

LEMMA FollowStep == ASSUME Halving, Fitting, FollowInv, [Next]_vars PROVE FollowInv'
  <1>1. CASE UNCHANGED <<sent, unread, filter>>
    <2>1. config' = config /\ emitter' = emitter /\ lab' = lab
      BY ConfigKept
    <2>2. /\ LawOf(emitter)' = LawOf(emitter) /\ OneLaw' = OneLaw /\ Unstarted' = Unstarted
          /\ SeededReading' = SeededReading /\ Digested' = Digested /\ InView' = InView
      BY <1>1, <2>1 DEF LawOf, OneLaw, Unstarted, SeededReading, Digested, InView, sent, filter
    <2>3. /\ Worn(LawOf(emitter), field)' = Worn(LawOf(emitter), field)
          /\ OnAir(LawOf(emitter), field, air)' = OnAir(LawOf(emitter), field, air)
          /\ Follows(LawOf(emitter), prev, pos, air)' = Follows(LawOf(emitter), prev, pos, air)
      BY <1>1, <2>2 DEF Worn, OnAir, Follows, sent, filter
    <2>. QED  BY <1>1, <2>1, <2>2, <2>3 DEF FollowInv, sent, filter
  <1>. QED  BY <1>1, FollowEmit, FollowRead DEF Next, Negotiate, vars

LEMMA FollowInvariant == ASSUME Halving, Fitting PROVE Spec => []FollowInv
  <1>1. Init => FollowInv
    BY FollowInit
  <1>2. FollowInv /\ [Next]_vars => FollowInv'
    BY FollowStep
  <1>. QED  BY <1>1, <1>2, PTL DEF Spec

\* NoFalseResync, of engine.py (observe_smell): whatever the shared law, no
\* rounding, no decay and no overlap of trails makes the filter give up its
\* history; it does so for a cause alone.
THEOREM ResyncsForCause == ASSUME Halving, Fitting PROVE Spec => []NoFalseResync
  <1>1. FollowInv => NoFalseResync
    BY DEF FollowInv, NoFalseResync, SeededReading
  <1>. QED  BY <1>1, FollowInvariant, PTL

\* A board of one cell at least, so that telling needs a weight.
LEMMA TellingMinds == ASSUME Telling PROVE Minding
  <1>1. PICK gap \in Nat : Heaviest * (Size * Size) <= Lightest * (gap * gap)
    BY DEF Telling
  <1>2. ZeroWeight \in Nat /\ Size \in Nat \ {0}
    BY Levels
  <1>3. SUFFICES ASSUME ZeroWeight = 0 PROVE FALSE
    BY <1>2 DEF Minding
  <1>4. Heaviest = 10 /\ Lightest = 0
    BY <1>3 DEF Heaviest, Lightest, Greater, Lesser
  <1>5. PICK a, b : a = Size * Size /\ b = gap * gap
    OBVIOUS
  <1>6. a \in Nat \ {0} /\ b \in Nat
    BY <1>2, <1>5
  <1>. QED  BY <1>1, <1>4, <1>5, <1>6

\* TruthStandsOut, of residual_log_likelihood and forward_snapshot: whatever
\* the shared law, rounding drift and overlapping trails never make another
\* cell explain a grid better than the emitter's own, and under the reference
\* law none explains it as well.  Excepted is the one grid that the lab reads
\* against its seed under a law that sums.
THEOREM TruthIsNeverHidden ==
    ASSUME Decaying, Sloping, Halving, Fitting, Telling
    PROVE  Spec => [](TruthStandsOut \/ (SeededReading /\ LawOf(emitter) # "reference"))
  <1>1. Init => TruthInv /\ PinInv /\ lab \in BOOLEAN
    BY TruthInit, PinInit DEF Init
  <1>2. PinInv /\ lab \in BOOLEAN /\ TruthInv /\ [Next]_vars => TruthInv' /\ (lab \in BOOLEAN)'
    BY TruthStep, ConfigKept
  <1>3. FollowInv /\ TruthInv =>
           TruthStandsOut \/ (SeededReading /\ LawOf(emitter) # "reference")
    <2>1. SUFFICES ASSUME FollowInv, TruthInv, Digested, OneLaw, InView,
                          ~(SeededReading /\ LawOf(emitter) # "reference")
                   PROVE  pos \in best /\ (LawOf(Reader) = "reference" => best = {pos})
      BY DEF TruthStandsOut
    <2>2. LawOf(Reader) = LawOf(emitter)
      BY <2>1, EmitterLaw DEF FollowInv
    <2>3. CASE LawOf(emitter) = "reference"
      <3>1. OneReference
        BY <2>1, <2>3 DEF OneReference, OneLaw, FollowInv, Roles
      <3>. QED  BY <2>1, <3>1, TellingMinds DEF TruthInv
    <2>4. CASE LawOf(emitter) # "reference"
      <3>1. pos \in best
        BY <2>1, <2>4 DEF FollowInv
      <3>. QED  BY <2>2, <2>4, <3>1
    <2>. QED  BY <2>3, <2>4
  <1>. QED  BY <1>1, <1>2, <1>3, PinInvariant, FollowInvariant, PTL DEF Spec

-----------------------------------------------------------------------------
(* Types.                                                                  *)

\* A grid has a strongest cell, the first in reading order of those that tie.
LEMMA StrongestExists == ASSUME NEW f \in Grids PROVE Strongest(f) \in Cells
  <1> DEFINE Best(p) == \A x \in Cells \ {p} : f[x] < f[p] \/ (f[x] = f[p] /\ Before(p, x))
             Rank(x) == Size * x[1] + x[2]
  <1>1. PICK n : n = Total(f)
    OBVIOUS
  <1>2. /\ n \in Nat /\ \A x \in Cells : f[x] \in Nat /\ f[x] <= n
        /\ Size \in Nat \ {0} /\ CopStart \in Cells
    BY <1>1, TotalIs, TotalBounds, Levels, TrackingAssumption DEF Grids
  <1>3. PICK T : T = {n - f[x] : x \in Cells}
    OBVIOUS
  <1>4. T \subseteq Nat /\ T # {}
    BY <1>2, <1>3
  <1>5. PICK m \in T : \A k \in T : m <= k
    BY <1>4, LeastOf
  <1>6. PICK w \in Cells : m = n - f[w]
    BY <1>3, <1>5
  <1>7. \A x \in Cells : f[x] <= f[w]
    <2>1. ASSUME NEW x \in Cells PROVE f[x] <= f[w]
      <3>1. m <= n - f[x]
        BY <1>3, <1>5
      <3>. QED  BY <1>2, <1>6, <3>1
    <2>. QED  BY <2>1
  <1>8. ASSUME NEW x \in Cells
        PROVE  Rank(x) \in Nat /\ x[1] \in 0 .. Size - 1 /\ x[2] \in 0 .. Size - 1 /\ x = <<x[1], x[2]>>
    <2>1. x[1] \in 0 .. Size - 1 /\ x[2] \in 0 .. Size - 1 /\ x = <<x[1], x[2]>>
      BY DEF Cells
    <2>2. PICK i, j : i = x[1] /\ j = x[2]
      OBVIOUS
    <2>3. Size * i + j \in Nat
      BY <1>2, <2>1, <2>2
    <2>. QED  BY <2>1, <2>2, <2>3
  <1>9. PICK R : R = {Rank(x) : x \in {y \in Cells : f[y] = f[w]}}
    OBVIOUS
  <1>10. R \subseteq Nat /\ R # {}
    BY <1>6, <1>8, <1>9
  <1>11. PICK r \in R : \A k \in R : r <= k
    BY <1>10, LeastOf
  <1>12. PICK c \in Cells : f[c] = f[w] /\ r = Rank(c)
    BY <1>9, <1>11
  <1>13. ASSUME NEW x \in Cells, x # c, f[x] = f[w] PROVE Before(c, x)
    <2>1. Rank(c) <= Rank(x)
      BY <1>9, <1>11, <1>12, <1>13
    <2>2. PICK i, j, k, l : i = c[1] /\ j = c[2] /\ k = x[1] /\ l = x[2]
      OBVIOUS
    <2>3. /\ i \in 0 .. Size - 1 /\ j \in 0 .. Size - 1 /\ k \in 0 .. Size - 1 /\ l \in 0 .. Size - 1
          /\ (i # k \/ j # l) /\ Size * i + j <= Size * k + l
      BY <1>8, <1>13, <2>1, <2>2
    <2>4. i <= k
      <3>1. SUFFICES ASSUME k + 1 <= i PROVE FALSE
        BY <2>3
      <3>2. Size * (k + 1) <= Size * i /\ Size * (k + 1) = Size * k + Size
        BY <1>2, <2>3, <3>1, Scaled
      <3>3. Size * k \in Nat /\ Size * i \in Nat
        BY <1>2, <2>3
      <3>. QED  BY <1>2, <2>3, <3>2, <3>3
    <2>5. i = k => j < l
      <3>1. Size * k \in Nat
        BY <1>2, <2>3
      <3>. QED  BY <2>3, <3>1
    <2>. QED  BY <2>2, <2>3, <2>4, <2>5 DEF Before
  <1>14. Best(c)
    <2>1. ASSUME NEW x \in Cells, x # c PROVE f[x] < f[c] \/ (f[x] = f[c] /\ Before(c, x))
      <3>1. f[x] \in Nat /\ f[c] \in Nat /\ f[x] <= f[c]
        BY <1>2, <1>7, <1>12
      <3>. QED  BY <1>12, <1>13, <2>1, <3>1
    <2>. QED  BY <2>1
  <1>15. Strongest(f) = CHOOSE p \in Cells : Best(p)
    BY DEF Strongest
  <1>. QED  BY <1>14, <1>15

LEMMA TypeInit == ASSUME Init PROVE TypeOK
  <1>1. NoScent \in Grids
    BY DEF NoScent, Grids
  <1>2. config \in [Roles -> Configs] /\ emitter \in Roles
    BY DEF Init, AgreementInit
  <1>3. Seed(emitter) \in Grids
    <2>1. Start(emitter) \in Cells
      BY TrackingAssumption DEF Start
    <2>2. \A x \in Cells : Stamp(LawOf(emitter), Start(emitter), x) \in 0 .. Top
      BY <1>2, <2>1, EmitterLaw, StampBounds
    <2>. QED  BY <2>2, Levels DEF Seed, Grids
  <1>4. phase \in [Roles -> {"start", "ready", "offered", "agreed", "expired", "failed"}]
    BY DEF Init, AgreementInit
  <1>5. prev \in Grids
    BY <1>1, <1>3 DEF Init
  <1>6. 0 \in 0 .. MaxBarriers /\ 0 \in 0 .. Turns
    BY TrackingAssumption
  <1>7. /\ lab \in BOOLEAN /\ unread \in BOOLEAN /\ refit \in BOOLEAN
        /\ declared \in Cells \cup {None} /\ walls \subseteq Cells
        /\ masked \subseteq Cells /\ best \subseteq Cells
        /\ field \in Grids /\ air \in Grids /\ placed = 0 /\ turn = 0
    BY <1>1, Zenon DEF Init
  <1>8. pos \in Cells /\ mode \in Cells
    BY TrackingAssumption DEF Init, Start
  <1>. QED  BY <1>2, <1>4, <1>5, <1>6, <1>7, <1>8 DEF TypeOK

LEMMA TypeEmit == ASSUME Halving, TypeOK, EmitTurn PROVE TypeOK'
  <1>1. /\ pos' \in Cells /\ walls' \subseteq Cells /\ placed' \in 0 .. MaxBarriers
        /\ declared' \in Cells \cup {None}
    <2>1. CASE \E d \in Directions : /\ CanStep(pos, d, walls)
                                     /\ pos' = Shift(pos, d)
                                     /\ declared' = None
                                     /\ UNCHANGED <<walls, placed>>
      BY <2>1 DEF CanStep, TypeOK
    <2>2. CASE /\ placed < MaxBarriers
               /\ \E c \in BarrierOptions(pos, walls) :
                     declared' = c /\ walls' = walls \cup {c}
               /\ placed' = placed + 1
               /\ UNCHANGED pos
      <3>1. BarrierOptions(pos, walls) \subseteq Cells
        BY DEF BarrierOptions, CanStep, TypeOK
      <3>2. placed' \in 0 .. MaxBarriers
        BY <2>2, TrackingAssumption DEF TypeOK
      <3>. QED  BY <2>2, <3>1, <3>2 DEF TypeOK
    <2>. QED  BY <2>1, <2>2 DEF EmitTurn
  <1>2. turn' \in 0 .. Turns /\ unread' \in BOOLEAN
    BY TrackingAssumption DEF EmitTurn, TypeOK
  <1>3. field' \in Grids /\ air' \in Grids
    <2>1. PICK d, f, c, a : d = LawOf(emitter) /\ f = field' /\ c = pos' /\ a = air'
      OBVIOUS
    <2>2. PICK up \in Ties(d) : f = FullTurn(d, field, c, up) /\ a = Snapshot(d, f, up)
      BY <2>1 DEF EmitTurn
    <2>3. d \in Dialects /\ c \in Cells /\ field \in [Cells -> Nat]
      BY <1>1, <2>1, EmitterLaw DEF TypeOK, Grids
    <2>4. f \in [Cells -> Nat]
      BY <2>2, <2>3, TurnHas
    <2>5. a \in [Cells -> Nat]
      BY <2>2, <2>3, <2>4, ReadAsSent
    <2>. QED  BY <2>1, <2>4, <2>5 DEF Grids
  <1>4. UNCHANGED <<config, phase, lab, emitter, masked, prev, best, refit, mode>>
    BY DEF EmitTurn, body, filter
  <1>. QED  BY <1>1, <1>2, <1>3, <1>4 DEF TypeOK, Grids

LEMMA TypeRead == ASSUME Halving, TypeOK, ReadTurn PROVE TypeOK'
  <1>1. masked' \subseteq Cells /\ unread' \in BOOLEAN
    BY DEF ReadTurn, TypeOK
  <1>2. PICK up \in Ties(LawOf(Reader)) :
           /\ prev' = ParseWire(LawOf(Reader), air, up)
           /\ refit' \in BOOLEAN /\ best' \subseteq Cells
    BY DEF ReadTurn, Resyncs, Lowest
  <1>3. prev' \in Grids
    <2>1. PICK d, p : d = LawOf(Reader) /\ p = ParseWire(d, air, up)
      OBVIOUS
    <2>2. d \in Dialects
      BY <2>1, EmitterLaw DEF TypeOK
    <2>3. PICK f : f = Absorb(air)
      OBVIOUS
    <2>4. f \in [Cells -> Nat]
      BY <2>3 DEF Absorb, Greater, TypeOK, Grids
    <2>5. p = Snapshot(d, f, up) /\ up \in Ties(d)
      BY <2>1, <2>3 DEF ParseWire
    <2>6. p \in [Cells -> Nat]
      BY <2>2, <2>4, <2>5, ReadAsSent
    <2>. QED  BY <1>2, <2>1, <2>6 DEF Grids
  <1>4. mode' \in Cells
    BY StrongestExists DEF ReadTurn, Follow, TypeOK
  <1>5. UNCHANGED <<config, phase, lab, emitter, pos, walls, placed, field, turn, air, declared>>
    BY DEF ReadTurn, body, sent
  <1>. QED  BY <1>1, <1>2, <1>3, <1>4, <1>5 DEF TypeOK, Grids

LEMMA TypeStep == ASSUME Halving, TypeOK, [Next]_vars PROVE TypeOK'
  <1>1. CASE Negotiate
    <2>1. UNCHANGED <<config, body, sent, unread, filter>>
      BY <1>1, ConfigKept DEF Negotiate, Next
    <2>2. PICK r \in Roles, p \in {"start", "ready", "offered", "agreed", "expired", "failed"} :
             phase' = [phase EXCEPT ![r] = p]
      BY <1>1 DEF Negotiate, AgreementNext, Launch, Offer, Agree, Expire
    <2>3. phase' \in [Roles -> {"start", "ready", "offered", "agreed", "expired", "failed"}]
      BY <2>2 DEF TypeOK
    <2>. QED  BY <2>1, <2>3 DEF TypeOK, Grids, body, sent, filter
  <1>2. CASE UNCHANGED vars
    BY <1>2 DEF TypeOK, Grids, vars, body, sent, filter
  <1>. QED  BY <1>1, <1>2, TypeEmit, TypeRead DEF Next

\* TypeOK: every variable keeps its type, the bounds of the barrier quota
\* (budget in turn_sender.py) among them, on every board.
THEOREM TrackingTypes == ASSUME Halving PROVE Spec => []TypeOK
  <1>1. Init => TypeOK
    BY TypeInit
  <1>2. TypeOK /\ [Next]_vars => TypeOK'
    BY TypeStep
  <1>. QED  BY <1>1, <1>2, PTL DEF Spec

=============================================================================
