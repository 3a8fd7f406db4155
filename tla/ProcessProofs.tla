---------------------------- MODULE ProcessProofs ----------------------------
(***************************************************************************)
(* What holds of the parts a peer process keeps beside the turn protocol,  *)
(* for every value of their parameters: the gates of its e-mail keep every *)
(* limit and leave a failing service alone, of a sealed log both auditors, *)
(* the opponent's and the replay, reach the verdict it deserves, and words *)
(* only tilt the belief.                                                   *)
(***************************************************************************)
EXTENDS Gatekeeper, Sealing, Trust, FiniteSetTheorems, WellFoundedInduction,
        SequenceTheorems, TLAPS

-----------------------------------------------------------------------------
(* Rolling windows.                                                        *)

\* How many of the oldest are gone: the first that is young ends them.
Gone(s, w, n) == /\ \A i \in 1 .. n : s[i] >= w
                 /\ n < Len(s) => s[n + 1] < w

\* The oldest first.
Ordered(s) == \A i, j \in DOMAIN s : i <= j => s[j] <= s[i]

\* A set of numbers has a least one.
LEMMA LeastOf ==
    ASSUME NEW T, T \subseteq Nat, T # {}
    PROVE  \E m \in T : \A k \in T : m <= k
  <1>1. PICK m \in T : \A k \in T : <<k, m>> \notin OpToRel(<, Nat)
    BY WFMin, NatLessThanWellFounded, Zenon
  <1>2. ASSUME NEW k \in T PROVE m <= k
    <2>1. k \in Nat /\ m \in Nat
      OBVIOUS
    <2>2. ~(k < m)
      BY <1>1, <2>1 DEF OpToRel
    <2>. QED  BY <2>1, <2>2
  <1>. QED  BY <1>2

\* There is one way to cut a window, and this is what is left of it.
LEMMA SuffixOf ==
    ASSUME NEW s \in Seq(Nat), NEW n \in 0 .. Len(s)
    PROVE  /\ SubSeq(s, n + 1, Len(s)) \in Seq(Nat)
           /\ Len(SubSeq(s, n + 1, Len(s))) = Len(s) - n
           /\ \A i \in 1 .. Len(s) - n : SubSeq(s, n + 1, Len(s))[i] = s[n + i]
  <1>1. Len(s) \in Nat /\ n \in Nat /\ n <= Len(s) /\ n + 1 \in Int
    OBVIOUS
  <1>2. \A i \in (n + 1) .. Len(s) : s[i] \in Nat
    BY <1>1, ElementOfSeq
  <1>3. /\ SubSeq(s, n + 1, Len(s)) \in Seq(Nat)
        /\ Len(SubSeq(s, n + 1, Len(s))) = IF n + 1 <= Len(s) THEN Len(s) - (n + 1) + 1 ELSE 0
        /\ \A i \in 1 .. Len(s) - (n + 1) + 1 : SubSeq(s, n + 1, Len(s))[i] = s[n + 1 + i - 1]
    BY <1>1, <1>2, SubSeqProperties
  <1>4. Len(s) - (n + 1) + 1 = Len(s) - n /\ (~(n + 1 <= Len(s)) => Len(s) - n = 0)
    BY <1>1
  <1>5. \A i \in 1 .. Len(s) - n : n + 1 + i - 1 = n + i
    BY <1>1
  <1>. QED  BY <1>3, <1>4, <1>5

LEMMA GoneOnce ==
    ASSUME NEW s \in Seq(Nat), NEW w \in Nat, NEW m \in 0 .. Len(s), NEW n \in 0 .. Len(s),
           Gone(s, w, m), Gone(s, w, n)
    PROVE  m = n
  <1>1. \A i \in 1 .. Len(s) : s[i] \in Nat
    OBVIOUS
  <1>2. CASE m < n
    <2>1. m + 1 \in 1 .. n /\ m < Len(s) /\ m + 1 \in 1 .. Len(s)
      BY <1>2
    <2>. QED  BY <1>1, <2>1 DEF Gone
  <1>3. CASE n < m
    <2>1. n + 1 \in 1 .. m /\ n < Len(s) /\ n + 1 \in 1 .. Len(s)
      BY <1>3
    <2>. QED  BY <1>1, <2>1 DEF Gone
  <1>. QED  BY <1>2, <1>3

LEMMA GoneExists ==
    ASSUME NEW s \in Seq(Nat), NEW w \in Nat
    PROVE  \E n \in 0 .. Len(s) : Gone(s, w, n)
  <1>. DEFINE young == {i \in 1 .. Len(s) : s[i] < w}
  <1>0. Len(s) \in Nat /\ \A i \in 1 .. Len(s) : s[i] \in Nat
    OBVIOUS
  <1>1. CASE young = {}
    <2>1. \A i \in 1 .. Len(s) : s[i] >= w
      BY <1>0, <1>1
    <2>2. Gone(s, w, Len(s))
      BY <1>0, <2>1 DEF Gone
    <2>. QED  BY <1>0, <2>2
  <1>2. CASE young # {}
    <2>1. young \subseteq Nat
      BY <1>0
    <2>2. PICK m \in young : \A k \in young : m <= k
      BY <1>2, <2>1, LeastOf
    <2>3. m \in 1 .. Len(s) /\ s[m] < w /\ m - 1 \in 0 .. Len(s) /\ m - 1 + 1 = m
      BY <1>0
    <2>4. \A i \in 1 .. m - 1 : s[i] >= w
      <3>1. SUFFICES ASSUME NEW i \in 1 .. m - 1, ~(s[i] >= w) PROVE FALSE
        OBVIOUS
      <3>2. i \in 1 .. Len(s) /\ s[i] < w /\ i < m
        BY <1>0, <2>3, <3>1
      <3>. QED  BY <2>2, <3>2
    <2>. QED  BY <2>3, <2>4 DEF Gone
  <1>. QED  BY <1>1, <1>2

LEMMA WithinIs ==
    ASSUME NEW s \in Seq(Nat), NEW w \in Nat, NEW n \in 0 .. Len(s), Gone(s, w, n)
    PROVE  Within(s, w) = SubSeq(s, n + 1, Len(s))
  <1>. DEFINE gone == CHOOSE k \in 0 .. Len(s) : Gone(s, w, k)
  <1>1. gone \in 0 .. Len(s) /\ Gone(s, w, gone)
    OBVIOUS
  <1>2. gone = n
    BY <1>1, GoneOnce
  <1>3. Within(s, w) = SubSeq(s, gone + 1, Len(s))
    BY DEF Within, Gone
  <1>. QED  BY <1>2, <1>3

\* What is left of an ordered window is young, ordered, and a suffix.
LEMMA WindowIs ==
    ASSUME NEW s \in Seq(Nat), NEW w \in Nat
    PROVE  \E n \in 0 .. Len(s) :
              /\ Gone(s, w, n)
              /\ Within(s, w) \in Seq(Nat) /\ Len(Within(s, w)) = Len(s) - n
              /\ \A i \in 1 .. Len(s) - n : Within(s, w)[i] = s[n + i]
  <1>1. PICK n \in 0 .. Len(s) : Gone(s, w, n)
    BY GoneExists
  <1>2. Within(s, w) = SubSeq(s, n + 1, Len(s))
    BY <1>1, WithinIs
  <1>. QED  BY <1>1, <1>2, SuffixOf

LEMMA WithinYoung ==
    ASSUME NEW s \in Seq(Nat), NEW w \in Nat, Ordered(s)
    PROVE  /\ Within(s, w) \in Seq(Nat) /\ Ordered(Within(s, w))
           /\ \A i \in DOMAIN Within(s, w) : Within(s, w)[i] < w
  <1>1. PICK n \in 0 .. Len(s) :
              /\ Gone(s, w, n)
              /\ Within(s, w) \in Seq(Nat) /\ Len(Within(s, w)) = Len(s) - n
              /\ \A i \in 1 .. Len(s) - n : Within(s, w)[i] = s[n + i]
    BY WindowIs
  <1>0. PICK t : t = Within(s, w)
    OBVIOUS
  <1>2. /\ Len(s) \in Nat /\ DOMAIN s = 1 .. Len(s) /\ n \in Nat
        /\ t \in Seq(Nat) /\ DOMAIN t = 1 .. Len(s) - n
        /\ \A i \in 1 .. Len(s) : s[i] \in Nat
    BY <1>0, <1>1
  <1>3. ASSUME NEW i \in DOMAIN t PROVE n + i \in DOMAIN s /\ t[i] = s[n + i]
    <2>1. i \in 1 .. Len(s) - n /\ n + i \in 1 .. Len(s)
      BY <1>2
    <2>. QED  BY <1>0, <1>1, <1>2, <2>1
  <1>4. Ordered(t)
    <2>1. ASSUME NEW i \in DOMAIN t, NEW j \in DOMAIN t, i <= j PROVE t[j] <= t[i]
      <3>1. n + i \in DOMAIN s /\ n + j \in DOMAIN s /\ n + i <= n + j
        BY <1>2, <1>3, <2>1
      <3>2. s[n + j] <= s[n + i]
        BY <3>1 DEF Ordered
      <3>. QED  BY <1>3, <3>2
    <2>. QED  BY <2>1 DEF Ordered
  <1>5. ASSUME NEW i \in DOMAIN t PROVE t[i] < w
    <2>1. n < Len(s) /\ n + 1 \in DOMAIN s /\ n + i \in DOMAIN s /\ n + 1 <= n + i
      BY <1>2, <1>3
    <2>2. s[n + 1] < w
      BY <1>1, <2>1 DEF Gone
    <2>3. s[n + i] <= s[n + 1]
      BY <2>1 DEF Ordered
    <2>4. s[n + i] \in Nat /\ s[n + 1] \in Nat
      BY <1>2, <2>1
    <2>. QED  BY <1>3, <2>2, <2>3, <2>4
  <1>. QED  BY <1>0, <1>1, <1>4, <1>5

\* Nothing is forgotten of a window that is young.
LEMMA WithinAll ==
    ASSUME NEW s \in Seq(Nat), NEW w \in Nat, \A i \in DOMAIN s : s[i] < w
    PROVE  Within(s, w) = s
  <1>1. PICK n \in 0 .. Len(s) :
              /\ Gone(s, w, n)
              /\ Within(s, w) \in Seq(Nat) /\ Len(Within(s, w)) = Len(s) - n
              /\ \A i \in 1 .. Len(s) - n : Within(s, w)[i] = s[n + i]
    BY WindowIs
  <1>2. Len(s) \in Nat /\ DOMAIN s = 1 .. Len(s) /\ \A i \in 1 .. Len(s) : s[i] \in Nat
    OBVIOUS
  <1>3. n = 0
    <2>1. SUFFICES ASSUME n # 0 PROVE FALSE
      OBVIOUS
    <2>2. 1 \in 1 .. n /\ 1 \in DOMAIN s
      BY <1>2, <2>1
    <2>3. s[1] >= w /\ s[1] < w /\ s[1] \in Nat
      BY <1>1, <1>2, <2>2 DEF Gone
    <2>. QED  BY <2>3
  <1>4. Len(Within(s, w)) = Len(s)
    BY <1>1, <1>2, <1>3
  <1>5. \A i \in 1 .. Len(Within(s, w)) : Within(s, w)[i] = s[i]
    BY <1>1, <1>2, <1>3
  <1>. QED  BY <1>1, <1>4, <1>5, SeqEqual

\* A young one is added at the end.
LEMMA WithinAppend ==
    ASSUME NEW s \in Seq(Nat), NEW w \in Nat \ {0}, Ordered(s), \A i \in DOMAIN s : s[i] < w
    PROVE  /\ Append(s, 0) \in Seq(Nat) /\ Ordered(Append(s, 0))
           /\ Within(Append(s, 0), w) = Append(s, 0)
  <1>1. PICK t : t = Append(s, 0)
    OBVIOUS
  <1>2. /\ t \in Seq(Nat) /\ Len(t) = Len(s) + 1 /\ Len(s) \in Nat
        /\ DOMAIN t = 1 .. Len(s) + 1 /\ DOMAIN s = 1 .. Len(s)
        /\ \A i \in 1 .. Len(s) : t[i] = s[i]
        /\ t[Len(s) + 1] = 0
    BY <1>1
  <1>3. \A i \in DOMAIN t : t[i] < w /\ t[i] \in Nat
    BY <1>2
  <1>4. ASSUME NEW i \in DOMAIN t, NEW j \in DOMAIN t, i <= j PROVE t[j] <= t[i]
    <2>1. CASE j = Len(s) + 1
      BY <1>2, <1>3, <2>1
    <2>2. CASE j # Len(s) + 1
      <3>1. i \in DOMAIN s /\ j \in DOMAIN s
        BY <1>2, <1>4, <2>2
      <3>. QED  BY <1>2, <1>4, <3>1 DEF Ordered
    <2>. QED  BY <2>1, <2>2
  <1>5. Within(t, w) = t
    BY <1>2, <1>3, WithinAll
  <1>. QED  BY <1>1, <1>2, <1>4, <1>5 DEF Ordered

\* What growing older does.
LEMMA OlderIs ==
    ASSUME NEW s \in Seq(Nat), NEW w \in Nat
    PROVE  /\ Older(s, w) \in Seq(Nat) /\ Len(Older(s, w)) = Len(s)
           /\ DOMAIN Older(s, w) = 1 .. Len(s)
           /\ \A i \in 1 .. Len(s) : Older(s, w)[i] = LesserOf(w, s[i] + 1)
  <1>1. DOMAIN s = 1 .. Len(s) /\ Len(s) \in Nat
    OBVIOUS
  <1>2. \A i \in 1 .. Len(s) : LesserOf(w, s[i] + 1) \in Nat
    BY <1>1 DEF LesserOf
  <1>3. Older(s, w) = [i \in 1 .. Len(s) |-> LesserOf(w, s[i] + 1)]
    BY <1>1 DEF Older
  <1>4. Older(s, w) \in [1 .. Len(s) -> Nat]
    BY <1>2, <1>3
  <1>. QED  BY <1>1, <1>3, <1>4

LEMMA OlderOrdered ==
    ASSUME NEW s \in Seq(Nat), NEW w \in Nat, Ordered(s)
    PROVE  Ordered(Older(s, w))
  <1>1. DOMAIN s = 1 .. Len(s) /\ \A i \in 1 .. Len(s) : s[i] \in Nat
    OBVIOUS
  <1>2. ASSUME NEW i \in 1 .. Len(s), NEW j \in 1 .. Len(s), i <= j
        PROVE  Older(s, w)[j] <= Older(s, w)[i]
    <2>1. s[j] <= s[i] /\ s[i] \in Nat /\ s[j] \in Nat
      BY <1>1, <1>2 DEF Ordered
    <2>2. LesserOf(w, s[j] + 1) <= LesserOf(w, s[i] + 1)
      BY <2>1 DEF LesserOf
    <2>. QED  BY <2>2, OlderIs
  <1>. QED  BY <1>2, OlderIs DEF Ordered

\* The old ones stay old: forgetting them first changes nothing.
LEMMA OlderWithin ==
    ASSUME NEW s \in Seq(Nat), NEW w \in Nat
    PROVE  Within(Older(Within(s, w), w), w) = Within(Older(s, w), w)
  <1>1. PICK n \in 0 .. Len(s) :
              /\ Gone(s, w, n)
              /\ Within(s, w) \in Seq(Nat) /\ Len(Within(s, w)) = Len(s) - n
              /\ \A i \in 1 .. Len(s) - n : Within(s, w)[i] = s[n + i]
    BY WindowIs
  <1>2. PICK t, o, p : t = Within(s, w) /\ o = Older(s, w) /\ p = Older(t, w)
    OBVIOUS
  <1>3. Len(s) \in Nat /\ n \in Nat /\ n <= Len(s) /\ \A i \in 1 .. Len(s) : s[i] \in Nat
    OBVIOUS
  <1>4. /\ o \in Seq(Nat) /\ Len(o) = Len(s)
        /\ \A i \in 1 .. Len(s) : o[i] = LesserOf(w, s[i] + 1)
    BY <1>2, OlderIs
  <1>5. /\ p \in Seq(Nat) /\ Len(p) = Len(s) - n
        /\ \A i \in 1 .. Len(s) - n : p[i] = LesserOf(w, t[i] + 1)
    BY <1>1, <1>2, OlderIs
  <1>6. \A i \in 1 .. Len(s) - n : p[i] = o[n + i]
    <2>1. ASSUME NEW i \in 1 .. Len(s) - n PROVE p[i] = o[n + i]
      <3>1. n + i \in 1 .. Len(s) /\ t[i] = s[n + i]
        BY <1>1, <1>2, <1>3
      <3>. QED  BY <1>4, <1>5, <3>1
    <2>. QED  BY <2>1
  <1>7. PICK m \in 0 .. Len(p) :
              /\ Gone(p, w, m)
              /\ Within(p, w) \in Seq(Nat) /\ Len(Within(p, w)) = Len(p) - m
              /\ \A i \in 1 .. Len(p) - m : Within(p, w)[i] = p[m + i]
    BY <1>5, WindowIs
  <1>8. n + m \in 0 .. Len(o) /\ m \in Nat /\ m <= Len(s) - n
    BY <1>3, <1>4, <1>5
  <1>9. Gone(o, w, n + m)
    <2>1. ASSUME NEW i \in 1 .. n + m PROVE o[i] >= w
      <3>1. CASE i <= n
        <4>1. i \in 1 .. n /\ i \in 1 .. Len(s)
          BY <1>3, <1>8, <3>1
        <4>2. s[i] >= w /\ s[i] \in Nat
          BY <1>1, <1>3, <4>1 DEF Gone
        <4>3. LesserOf(w, s[i] + 1) = w
          BY <4>2 DEF LesserOf
        <4>. QED  BY <1>4, <4>1, <4>3
      <3>2. CASE i > n
        <4>1. i - n \in 1 .. m /\ i - n \in 1 .. Len(s) - n /\ n + (i - n) = i
          BY <1>3, <1>8, <3>2
        <4>2. p[i - n] >= w
          BY <1>7, <4>1 DEF Gone
        <4>3. p[i - n] = o[n + (i - n)]
          BY <1>6, <4>1
        <4>. QED  BY <4>1, <4>2, <4>3
      <3>. QED  BY <1>3, <1>8, <3>1, <3>2
    <2>2. ASSUME n + m < Len(o) PROVE o[n + m + 1] < w
      <3>1. m < Len(p) /\ m + 1 \in 1 .. Len(s) - n /\ n + (m + 1) = n + m + 1
        BY <1>3, <1>4, <1>5, <1>8, <2>2
      <3>2. p[m + 1] < w
        BY <1>7, <3>1 DEF Gone
      <3>3. p[m + 1] = o[n + (m + 1)]
        BY <1>6, <3>1
      <3>. QED  BY <3>1, <3>2, <3>3
    <2>. QED  BY <2>1, <2>2 DEF Gone
  <1>10. PICK q, r : q = Within(o, w) /\ r = Within(p, w)
    OBVIOUS
  <1>11. /\ q \in Seq(Nat) /\ Len(q) = Len(s) - (n + m)
         /\ \A i \in 1 .. Len(s) - (n + m) : q[i] = o[n + m + i]
    <2>1. PICK k : k = n + m
      OBVIOUS
    <2>2. k \in 0 .. Len(o) /\ Gone(o, w, k)
      BY <1>8, <1>9, <2>1
    <2>3. q = SubSeq(o, k + 1, Len(o))
      BY <1>4, <1>10, <2>2, WithinIs
    <2>4. /\ q \in Seq(Nat) /\ Len(q) = Len(o) - k
          /\ \A i \in 1 .. Len(o) - k : q[i] = o[k + i]
      BY <1>4, <2>2, <2>3, SuffixOf
    <2>. QED  BY <1>4, <2>1, <2>4, SMTT(30)
  <1>12. Len(r) = Len(q) /\ r \in Seq(Nat)
    BY <1>3, <1>5, <1>7, <1>8, <1>10, <1>11
  <1>13. ASSUME NEW i \in 1 .. Len(r) PROVE r[i] = q[i]
    <2>0. Len(r) = Len(s) - (n + m) /\ Len(p) = Len(s) - n
      BY <1>5, <1>11, <1>12
    <2>1. /\ i \in 1 .. Len(p) - m /\ m + i \in 1 .. Len(s) - n
          /\ i \in 1 .. Len(s) - (n + m) /\ n + (m + i) = n + m + i
      BY <1>3, <1>8, <2>0
    <2>2. r[i] = p[m + i] /\ p[m + i] = o[n + (m + i)] /\ q[i] = o[n + m + i]
      BY <1>6, <1>7, <1>10, <1>11, <2>1
    <2>. QED  BY <2>1, <2>2
  <1>14. r = q
    BY <1>11, <1>12, <1>13, SeqEqual
  <1>. QED  BY <1>2, <1>10, <1>14

-----------------------------------------------------------------------------
(* The limits.  What the histories hold is what the gates count, and the   *)
(* tokens spent since a call are those the bucket held or was given since. *)

GateTypes ==
    /\ calls \in Seq(Nat) /\ starts \in Seq(Nat) /\ mails \in Seq(Nat) /\ passed \in Seq(Nat)
    /\ tokens \in Nat /\ stale \in Nat

Remembered ==
    /\ Ordered(calls) /\ Ordered(mails)
    /\ starts = Within(calls, Day) /\ passed = Within(mails, Hour + 1)
    /\ Len(starts) <= DailyQuota /\ Len(passed) <= MaxPerHour

\* What the bucket was left with and given since, whatever it can hold.
Held == tokens + stale * Refill

\* The calls from the i-th on are paid for by what the bucket has lost and what
\* it was given since.
Paid ==
    /\ tokens <= Capacity * Cost
    /\ \A i \in DOMAIN starts :
          (Len(starts) - i + 1) * Cost + Held <= Capacity * Cost + starts[i] * Refill

\* The rate of the bucket, as LimitsExact states it.
Rated ==
    \A i, j \in DOMAIN starts : i <= j =>
        (j - i + 1) * Cost <= Capacity * Cost + (starts[i] - starts[j]) * Refill

GateInv == GateTypes /\ Remembered /\ Paid /\ Rated

\* The breaker has opened when as many failed, at the last of them.
Tripped ==
    /\ failures \in Nat /\ streak = LesserOf(Threshold, failures)
    /\ opened \in Nat \cup {Never} /\ rest \in Nat
    /\ failures >= Threshold => opened = rest

\* Sums and differences of multiples.
LEMMA Multiples ==
    ASSUME NEW a \in Int, NEW b \in Int, NEW c \in Nat
    PROVE  /\ (a + b) * c = a * c + b * c /\ (a - b) * c = a * c - b * c
           /\ a * c \in Int /\ b * c \in Int
           /\ a <= b => a * c <= b * c
  OBVIOUS

LEMMA Products ==
    /\ Capacity * Cost \in Nat /\ Cost \in Nat /\ Refill \in Nat
    /\ \A n \in Nat : n * Refill \in Nat
  <1>1. \A a, b \in Nat : a * b \in Nat
    OBVIOUS
  <1>. QED  BY <1>1, GatekeeperAssumption

\* A level is what was left and what was given since, at most the capacity.
LEMMA LevelBounded ==
    ASSUME GateTypes
    PROVE  Level \in Nat /\ Level <= Capacity * Cost /\ Level <= Held /\ Held \in Nat
  <1>1. tokens \in Nat /\ stale \in Nat
    BY DEF GateTypes
  <1>2. stale * Refill \in Nat /\ Capacity * Cost \in Nat
    BY <1>1, Products
  <1>. QED  BY <1>1, <1>2 DEF Level, LesserOf, Held

\* The window of the quota is what was let through.
LEMMA CountedIs ==
    ASSUME GateTypes, Remembered
    PROVE  /\ Counted = starts /\ starts \in Seq(Nat) /\ Ordered(starts)
           /\ \A i \in DOMAIN starts : starts[i] < Day
           /\ Within(starts, Day) = starts
  <1>1. Day \in Nat \ {0} /\ calls \in Seq(Nat) /\ Ordered(calls) /\ starts = Within(calls, Day)
    BY GatekeeperAssumption DEF GateTypes, Remembered
  <1>2. starts \in Seq(Nat) /\ Ordered(starts) /\ \A i \in DOMAIN starts : starts[i] < Day
    BY <1>1, WithinYoung
  <1>. QED  BY <1>1, <1>2, WithinAll DEF Counted

LEMMA RecentIs ==
    ASSUME GateTypes, Remembered
    PROVE  /\ Recent = passed /\ passed \in Seq(Nat) /\ Ordered(passed)
           /\ \A i \in DOMAIN passed : passed[i] < Hour + 1
           /\ Within(passed, Hour + 1) = passed
  <1>1. /\ Hour + 1 \in Nat \ {0} /\ mails \in Seq(Nat) /\ Ordered(mails)
        /\ passed = Within(mails, Hour + 1)
    BY GatekeeperAssumption DEF GateTypes, Remembered
  <1>2. passed \in Seq(Nat) /\ Ordered(passed) /\ \A i \in DOMAIN passed : passed[i] < Hour + 1
    BY <1>1, WithinYoung
  <1>. QED  BY <1>1, <1>2, WithinAll DEF Recent

\* It holds when the process starts.
LEMMA GateInitInv == ASSUME GateInit PROVE GateInv /\ Tripped
  <1>1. /\ calls = <<>> /\ starts = <<>> /\ mails = <<>> /\ passed = <<>>
        /\ tokens = Capacity * Cost /\ stale = 0 /\ failures = 0 /\ streak = 0 /\ opened = Never
        /\ rest = 0
    BY DEF GateInit
  <1>2. GateTypes
    BY <1>1, Products DEF GateTypes
  <1>3. <<>> \in Seq(Nat) /\ Len(<<>>) = 0 /\ \A i \in DOMAIN <<>> : FALSE
    OBVIOUS
  <1>4. Day \in Nat /\ Hour + 1 \in Nat /\ DailyQuota \in Nat /\ MaxPerHour \in Nat
        /\ Threshold \in Nat \ {0}
    BY GatekeeperAssumption
  <1>5. Within(<<>>, Day) = <<>> /\ Within(<<>>, Hour + 1) = <<>>
    BY <1>3, <1>4, WithinAll
  <1>6. Remembered
    BY <1>1, <1>3, <1>4, <1>5 DEF Remembered, Ordered
  <1>7. Paid /\ Rated
    BY <1>1, <1>3, Products DEF Paid, Rated
  <1>8. Tripped
    BY <1>1, <1>4 DEF Tripped, LesserOf
  <1>. QED  BY <1>2, <1>6, <1>7, <1>8 DEF GateInv

\* A refusal forgets what is old, and refills the bucket.
LEMMA RefusalKeeps ==
    ASSUME GateInv, calls' = Counted, UNCHANGED <<mails, starts, passed>>,
           (tokens' = Level /\ stale' = 0) \/ UNCHANGED <<tokens, stale>>
    PROVE  GateInv'
  <1>. USE DEF GateInv
  <1>1. calls' = starts /\ Within(starts, Day) = starts /\ Ordered(starts) /\ starts \in Seq(Nat)
    BY CountedIs
  <1>2. tokens' \in Nat /\ stale' \in Nat /\ tokens' <= Capacity * Cost /\ Held' <= Held
    <2>1. CASE tokens' = Level /\ stale' = 0
      <3>1. Held' = Level
        BY <2>1, LevelBounded, Products DEF Held
      <3>. QED  BY <2>1, <3>1, LevelBounded
    <2>2. CASE UNCHANGED <<tokens, stale>>
      BY <2>2, LevelBounded DEF GateTypes, Paid, Held
    <2>. QED  BY <2>1, <2>2
  <1>3. GateTypes'
    BY <1>1, <1>2 DEF GateTypes
  <1>4. Remembered'
    BY <1>1 DEF Remembered
  <1>5. Paid'
    <2>0. stale' * Refill \in Nat
      BY <1>2, Products
    <2>1. Held \in Nat /\ Held' \in Nat
      BY <1>2, <2>0, LevelBounded DEF Held
    <2>2. ASSUME NEW i \in DOMAIN starts
          PROVE  (Len(starts) - i + 1) * Cost + Held' <= Capacity * Cost + starts[i] * Refill
      <3>1. (Len(starts) - i + 1) * Cost + Held <= Capacity * Cost + starts[i] * Refill
        BY DEF Paid
      <3>2. starts[i] \in Nat /\ Len(starts) - i + 1 \in Int
        BY <1>1
      <3>3. starts[i] * Refill \in Nat /\ (Len(starts) - i + 1) * Cost \in Int
        BY <3>2, Products, Multiples
      <3>. QED  BY <1>2, <2>1, <3>1, <3>3, Products
    <2>. QED  BY <1>2, <2>2 DEF Paid
  <1>6. Rated'
    BY DEF Rated
  <1>. QED  BY <1>3, <1>4, <1>5, <1>6

\* A call that is let through pays its token.
LEMMA CallKeeps == ASSUME GateInv, LetThrough PROVE GateInv'
  <1>. USE DEF GateInv
  <1>0. PICK n : n = Len(starts)
    OBVIOUS
  <1>1. /\ Len(Counted) < DailyQuota /\ Level >= Cost
        /\ calls' = Append(Counted, 0) /\ starts' = Append(starts, 0)
        /\ tokens' = Level - Cost /\ stale' = 0 /\ UNCHANGED <<mails, passed>>
    BY DEF LetThrough
  <1>2. /\ Counted = starts /\ starts \in Seq(Nat) /\ Ordered(starts)
        /\ \A i \in DOMAIN starts : starts[i] < Day
    BY CountedIs
  <1>3. /\ starts' \in Seq(Nat) /\ Ordered(starts') /\ calls' = starts'
        /\ Within(starts', Day) = starts'
    BY <1>1, <1>2, WithinAppend, GatekeeperAssumption
  <1>4. /\ n \in Nat /\ DOMAIN starts = 1 .. n /\ DOMAIN starts' = 1 .. n + 1
        /\ Len(starts') = n + 1 /\ starts'[n + 1] = 0
        /\ \A i \in 1 .. n : starts'[i] = starts[i] /\ starts[i] \in Nat
    BY <1>0, <1>1, <1>2
  <1>5. /\ Level \in Nat /\ Level <= Capacity * Cost /\ Level <= Held /\ Held \in Nat
        /\ Cost \in Nat /\ Capacity * Cost \in Nat /\ Refill \in Nat
    BY LevelBounded, Products
  <1>6. tokens' \in Nat /\ tokens' <= Capacity * Cost /\ Held' = Level - Cost
    <2>1. 0 * Refill = 0
      BY <1>5
    <2>. QED  BY <1>1, <1>5, <2>1 DEF Held
  <1>7. GateTypes'
    BY <1>1, <1>3, <1>6 DEF GateTypes
  <1>8. Remembered'
    <2>1. n + 1 <= DailyQuota
      BY <1>0, <1>1, <1>2, <1>4, GatekeeperAssumption
    <2>. QED  BY <1>1, <1>3, <1>4, <2>1 DEF Remembered
  <1>9. ASSUME NEW i \in 1 .. n
        PROVE  /\ (n + 1 - i + 1) * Cost + Held' <= Capacity * Cost + starts[i] * Refill
               /\ (n + 1 - i + 1) * Cost <= Capacity * Cost + (starts[i] - 0) * Refill
    <2>1. (n - i + 1) * Cost + Held <= Capacity * Cost + starts[i] * Refill
      BY <1>0, <1>4 DEF Paid
    <2>2. n - i + 1 \in Int /\ n + 1 - i + 1 = (n - i + 1) + 1
      BY <1>4
    <2>3. (n + 1 - i + 1) * Cost = (n - i + 1) * Cost + 1 * Cost /\ (n - i + 1) * Cost \in Int
      <3>1. PICK a : a = n - i + 1
        OBVIOUS
      <3>0. a \in Int /\ 1 \in Int /\ Cost \in Nat
        BY <1>5, <2>2, <3>1
      <3>2. (a + 1) * Cost = a * Cost + 1 * Cost /\ a * Cost \in Int
        BY <3>0, Multiples
      <3>. QED  BY <2>2, <3>1, <3>2
    <2>4. 1 * Cost = Cost /\ starts[i] * Refill \in Nat /\ starts[i] - 0 = starts[i]
      BY <1>4, <1>5, Products
    <2>. QED  BY <1>1, <1>5, <1>6, <2>1, <2>3, <2>4
  <1>10. /\ (n + 1 - (n + 1) + 1) * Cost = Cost /\ 0 * Refill = 0 /\ (0 - 0) * Refill = 0
         /\ Cost <= Capacity * Cost /\ Cost + Held' <= Capacity * Cost
    BY <1>1, <1>4, <1>5, <1>6
  <1>11. Paid'
    <2>1. ASSUME NEW i \in DOMAIN starts'
          PROVE  (n + 1 - i + 1) * Cost + Held' <= Capacity * Cost + starts'[i] * Refill
      <3>1. CASE i = n + 1
        BY <1>4, <1>5, <1>10, <3>1
      <3>2. CASE i # n + 1
        <4>1. i \in 1 .. n /\ starts'[i] = starts[i]
          BY <1>4, <3>2
        <4>. QED  BY <1>9, <4>1
      <3>. QED  BY <3>1, <3>2
    <2>. QED  BY <1>4, <1>6, <2>1 DEF Paid
  <1>12. Rated'
    <2>1. ASSUME NEW i \in DOMAIN starts', NEW j \in DOMAIN starts', i <= j
          PROVE  (j - i + 1) * Cost <= Capacity * Cost + (starts'[i] - starts'[j]) * Refill
      <3>1. CASE j # n + 1
        <4>1. i \in DOMAIN starts /\ j \in DOMAIN starts
              /\ starts'[i] = starts[i] /\ starts'[j] = starts[j]
          BY <1>4, <2>1, <3>1
        <4>. QED  BY <2>1, <4>1 DEF Rated
      <3>2. CASE j = n + 1 /\ i # n + 1
        <4>1. i \in 1 .. n /\ starts'[i] = starts[i] /\ starts'[j] = 0
          BY <1>4, <3>2
        <4>2. starts'[i] - starts'[j] = starts[i] - 0
          BY <4>1
        <4>3. (n + 1 - i + 1) * Cost <= Capacity * Cost + (starts[i] - 0) * Refill
          BY <1>9, <4>1
        <4>4. j - i + 1 = n + 1 - i + 1
          BY <1>4, <3>2, <4>1
        <4>. QED  BY <4>2, <4>3, <4>4
      <3>3. CASE j = n + 1 /\ i = n + 1
        <4>1. starts'[i] = 0 /\ starts'[j] = 0
          BY <1>4, <3>3
        <4>2. starts'[i] - starts'[j] = 0 - 0 /\ j - i + 1 = n + 1 - (n + 1) + 1
          BY <1>4, <3>3, <4>1
        <4>3. (j - i + 1) * Cost = Cost /\ (starts'[i] - starts'[j]) * Refill = 0
          BY <1>10, <4>2
        <4>. QED  BY <1>5, <1>10, <4>3
      <3>. QED  BY <3>1, <3>2, <3>3
    <2>. QED  BY <2>1 DEF Rated
  <1>. QED  BY <1>7, <1>8, <1>11, <1>12

\* An e-mail that is tried is remembered; one that is not forgets what is old.
LEMMA MailKeeps ==
    ASSUME GateInv, UNCHANGED <<calls, tokens, stale, starts>>,
           \/ Allowed /\ mails' = Append(Recent, 0) /\ passed' = Append(passed, 0)
           \/ mails' = Recent /\ UNCHANGED passed
    PROVE  GateInv'
  <1>. USE DEF GateInv
  <1>1. /\ Recent = passed /\ passed \in Seq(Nat) /\ Ordered(passed)
        /\ \A i \in DOMAIN passed : passed[i] < Hour + 1
        /\ Within(passed, Hour + 1) = passed
    BY RecentIs
  <1>2. mails' \in Seq(Nat) /\ Ordered(mails') /\ passed' = mails'
        /\ Within(mails', Hour + 1) = mails' /\ Len(passed') <= MaxPerHour
    <2>1. CASE Allowed /\ mails' = Append(Recent, 0) /\ passed' = Append(passed, 0)
      <3>1. Hour + 1 \in Nat \ {0}
        BY GatekeeperAssumption
      <3>2. Len(passed') <= MaxPerHour
        BY <1>1, <2>1, GatekeeperAssumption DEF Allowed
      <3>. QED  BY <1>1, <2>1, <3>1, <3>2, WithinAppend
    <2>2. CASE mails' = Recent /\ UNCHANGED passed
      BY <1>1, <2>2 DEF Remembered
    <2>. QED  BY <2>1, <2>2
  <1>3. GateTypes'
    BY <1>2 DEF GateTypes
  <1>4. Remembered'
    BY <1>2 DEF Remembered
  <1>5. Paid' /\ Rated'
    BY DEF Paid, Rated, Held
  <1>. QED  BY <1>3, <1>4, <1>5

\* Time passes: the gaps between calls stay what they were.
LEMMA TimeKeeps == ASSUME GateInv, Elapses PROVE GateInv'
  <1>. USE DEF GateInv
  <1>0. /\ Day \in Nat /\ Hour + 1 \in Nat
        /\ calls \in Seq(Nat) /\ mails \in Seq(Nat) /\ Ordered(calls) /\ Ordered(mails)
    BY GatekeeperAssumption DEF GateTypes, Remembered
  <1>1. /\ calls' = Older(calls, Day) /\ mails' = Older(mails, Hour + 1)
        /\ starts' = Within(Older(starts, Day), Day)
        /\ passed' = Within(Older(passed, Hour + 1), Hour + 1)
        /\ stale' = stale \/ stale' = stale + 1
        /\ UNCHANGED tokens
    BY DEF Elapses
  <1>2. calls' \in Seq(Nat) /\ mails' \in Seq(Nat) /\ Ordered(calls') /\ Ordered(mails')
    BY <1>0, <1>1, OlderIs, OlderOrdered
  <1>3. starts' = Within(calls', Day) /\ passed' = Within(mails', Hour + 1)
    BY <1>0, <1>1, OlderWithin DEF Remembered
  <1>4. starts \in Seq(Nat) /\ Ordered(starts) /\ passed \in Seq(Nat)
    BY CountedIs, RecentIs
  <1>5. PICK o : o = Older(starts, Day)
    OBVIOUS
  <1>6. /\ o \in Seq(Nat) /\ Len(o) = Len(starts) /\ Ordered(o)
        /\ \A i \in 1 .. Len(starts) : o[i] = LesserOf(Day, starts[i] + 1)
    BY <1>0, <1>4, <1>5, OlderIs, OlderOrdered
  <1>7. PICK n \in 0 .. Len(o) :
              /\ Within(o, Day) \in Seq(Nat) /\ Len(Within(o, Day)) = Len(o) - n
              /\ \A i \in 1 .. Len(o) - n : Within(o, Day)[i] = o[n + i]
    BY <1>0, <1>6, WindowIs
  <1>8. PICK k : k = Len(starts)
    OBVIOUS
  <1>9. /\ k \in Nat /\ n \in 0 .. k /\ starts' \in Seq(Nat)
        /\ Len(starts') = k - n /\ DOMAIN starts' = 1 .. k - n /\ DOMAIN starts = 1 .. k
        /\ \A i \in 1 .. k : starts[i] \in Nat
    <2>1. /\ k \in Nat /\ n \in 0 .. k /\ DOMAIN starts = 1 .. k
          /\ \A i \in 1 .. k : starts[i] \in Nat
      BY <1>4, <1>6, <1>8
    <2>2. starts' \in Seq(Nat) /\ Len(starts') = k - n
      BY <1>1, <1>5, <1>6, <1>7, <1>8
    <2>3. DOMAIN starts' = 1 .. k - n
      BY <2>2
    <2>. QED  BY <2>1, <2>2, <2>3
  <1>10. ASSUME NEW i \in 1 .. k - n
         PROVE  n + i \in 1 .. k /\ starts'[i] = starts[n + i] + 1
    <2>1. n + i \in 1 .. k
      BY <1>9
    <2>2. starts'[i] = o[n + i] /\ o[n + i] = LesserOf(Day, starts[n + i] + 1)
      BY <1>1, <1>5, <1>6, <1>7, <1>8, <2>1
    <2>3. starts'[i] < Day
      <3>1. i \in DOMAIN Within(o, Day)
        BY <1>1, <1>5, <1>9
      <3>. QED  BY <1>0, <1>1, <1>5, <1>6, <3>1, WithinYoung
    <2>4. starts[n + i] \in Nat
      BY <1>9, <2>1
    <2>. QED  BY <1>0, <2>1, <2>2, <2>3, <2>4 DEF LesserOf
  <1>11. passed' \in Seq(Nat) /\ Len(passed') <= Len(passed)
    <2>1. PICK q : q = Older(passed, Hour + 1)
      OBVIOUS
    <2>2. q \in Seq(Nat) /\ Len(q) = Len(passed)
      BY <1>0, <1>4, <2>1, OlderIs
    <2>3. PICK m \in 0 .. Len(q) :
              Within(q, Hour + 1) \in Seq(Nat) /\ Len(Within(q, Hour + 1)) = Len(q) - m
      BY <1>0, <2>2, WindowIs
    <2>4. Len(q) \in Nat /\ Len(q) - m <= Len(q)
      BY <2>2
    <2>. QED  BY <1>1, <2>1, <2>2, <2>3, <2>4
  <1>12. GateTypes'
    BY <1>1, <1>2, <1>9, <1>11 DEF GateTypes
  <1>13. Remembered'
    <2>1. Len(starts') <= DailyQuota
      BY <1>8, <1>9, GatekeeperAssumption DEF Remembered
    <2>2. Len(passed') <= MaxPerHour
      <3>1. Len(passed) \in Nat /\ Len(passed') \in Nat /\ Len(passed) <= MaxPerHour
        BY <1>4, <1>11 DEF Remembered
      <3>. QED  BY <1>11, <3>1, GatekeeperAssumption
    <2>. QED  BY <1>2, <1>3, <2>1, <2>2 DEF Remembered
  <1>14. Held \in Nat /\ Held' \in Nat /\ Held' <= Held + Refill /\ Refill \in Nat
    <2>1. stale \in Nat /\ stale' \in Nat /\ tokens \in Nat /\ Refill \in Nat
      BY <1>12, Products DEF GateTypes
    <2>2. (stale + 1) * Refill = stale * Refill + Refill /\ stale * Refill \in Nat
      <3>1. (stale + 1) * Refill = stale * Refill + 1 * Refill
        BY <2>1, Multiples
      <3>. QED  BY <2>1, <3>1, Products
    <2>3. stale' * Refill \in Nat /\ stale' * Refill <= stale * Refill + Refill
      <3>1. CASE stale' = stale
        BY <2>1, <2>2, <3>1
      <3>2. CASE stale' = stale + 1
        BY <2>1, <2>2, <3>2
      <3>. QED  BY <1>1, <3>1, <3>2
    <2>4. Held = tokens + stale * Refill /\ Held' = tokens + stale' * Refill
      BY <1>1 DEF Held
    <2>5. PICK a, b : a = stale * Refill /\ b = stale' * Refill
      OBVIOUS
    <2>6. a \in Nat /\ b \in Nat /\ b <= a + Refill
      BY <2>2, <2>3, <2>5
    <2>7. Held = tokens + a /\ Held' = tokens + b
      BY <2>4, <2>5
    <2>. QED  BY <2>1, <2>6, <2>7
  <1>15. Paid'
    <2>1. ASSUME NEW i \in 1 .. k - n
          PROVE  (k - n - i + 1) * Cost + Held' <= Capacity * Cost + starts'[i] * Refill
      <3>1. PICK j, a : j = n + i /\ a = k - j + 1
        OBVIOUS
      <3>2. j \in 1 .. k /\ starts'[i] = starts[j] + 1 /\ k - n - i + 1 = a
            /\ starts[j] \in Nat /\ a \in Int
        BY <1>9, <1>10, <3>1
      <3>3. a * Cost + Held <= Capacity * Cost + starts[j] * Refill
        BY <1>8, <1>9, <3>1, <3>2 DEF Paid
      <3>4. (starts[j] + 1) * Refill = starts[j] * Refill + Refill /\ starts[j] * Refill \in Nat
        <4>1. (starts[j] + 1) * Refill = starts[j] * Refill + 1 * Refill
          BY <1>14, <3>2, Multiples
        <4>. QED  BY <1>14, <3>2, <4>1, Products
      <3>5. a * Cost \in Int /\ Capacity * Cost \in Nat
        BY <3>2, Products, Multiples
      <3>6. a * Cost + Held' <= Capacity * Cost + (starts[j] + 1) * Refill
        BY <1>14, <3>3, <3>4, <3>5
      <3>. QED  BY <3>2, <3>6
    <2>. QED  BY <1>1, <1>9, <2>1 DEF Paid
  <1>16. Rated'
    <2>1. ASSUME NEW i \in 1 .. k - n, NEW j \in 1 .. k - n, i <= j
          PROVE  (j - i + 1) * Cost <= Capacity * Cost + (starts'[i] - starts'[j]) * Refill
      <3>1. PICK u, v : u = n + i /\ v = n + j
        OBVIOUS
      <3>2. /\ u \in 1 .. k /\ v \in 1 .. k /\ u <= v /\ v - u + 1 = j - i + 1
            /\ starts'[i] = starts[u] + 1 /\ starts'[j] = starts[v] + 1
            /\ starts[u] \in Nat /\ starts[v] \in Nat
        BY <1>9, <1>10, <2>1, <3>1
      <3>3. (v - u + 1) * Cost <= Capacity * Cost + (starts[u] - starts[v]) * Refill
        BY <1>9, <3>2 DEF Rated
      <3>4. starts'[i] - starts'[j] = starts[u] - starts[v]
        BY <3>2
      <3>. QED  BY <3>2, <3>3, <3>4
    <2>. QED  BY <1>9, <2>1 DEF Rated
  <1>. QED  BY <1>12, <1>13, <1>15, <1>16

\* Every step keeps the limits.
LEMMA GateStep == ASSUME GateInv, [GateNext]_gateVars PROVE GateInv'
  <1>1. CASE FastRefused \/ UNCHANGED gateVars
    <2>1. UNCHANGED <<calls, starts, mails, passed, tokens, stale>>
      BY <1>1 DEF FastRefused, gateVars, gates, history
    <2>. QED
      BY <2>1 DEF GateInv, GateTypes, Remembered, Paid, Rated, Held
  <1>2. CASE OverQuota \/ OutOfTokens
    BY <1>2, RefusalKeeps DEF OverQuota, OutOfTokens, history
  <1>3. CASE LetThrough
    BY <1>3, CallKeeps
  <1>4. CASE Raises \/ Returns
    BY <1>4, MailKeeps DEF Raises, Returns
  <1>5. CASE Elapses
    BY <1>5, TimeKeeps
  <1>. QED  BY <1>1, <1>2, <1>3, <1>4, <1>5 DEF GateNext

\* No limit is exceeded in any window, whatever the limits are: the quota of a
\* rolling day, the burst and the rate of the bucket, the hourly limit of the
\* sender; and only the calls that were made spend the quota (gatekeeper.py,
\* _check_quota and _consume_token; email.py, _RateLimiter.allow).
THEOREM NoLimitExceeded == GateSpec => []LimitsExact
  <1>1. GateInit => GateInv
    BY GateInitInv
  <1>2. GateInv /\ [GateNext]_gateVars => GateInv'
    BY GateStep
  <1>3. GateInv => LimitsExact
    BY CountedIs DEF GateInv, Remembered, Rated, LimitsExact
  <1>. QED  BY <1>1, <1>2, <1>3, PTL DEF GateSpec

-----------------------------------------------------------------------------
(* The breaker.                                                            *)

\* Every step keeps count of the failures in a row.
LEMMA TrippedStep == ASSUME Tripped, [GateNext]_gateVars PROVE Tripped'
  <1>. USE GatekeeperAssumption DEF Tripped, LesserOf
  <1>1. CASE FastRefused \/ OverQuota \/ OutOfTokens \/ LetThrough \/ UNCHANGED gateVars
    <2>1. UNCHANGED <<failures, streak, opened, rest>>
      BY <1>1 DEF FastRefused, OverQuota, OutOfTokens, LetThrough, gateVars, gates, history
    <2>. QED  BY <2>1
  <1>2. CASE Raises
    <2>1. /\ failures' = failures + 1 /\ streak' = LesserOf(Threshold, streak + 1) /\ rest' = 0
          /\ opened' = 0 \/ (opened' = opened /\ ~(failures + 1 >= Threshold))
      BY <1>2 DEF Raises, Failed
    <2>. QED  BY <2>1
  <1>3. CASE Returns
    <2>1. failures' = 0 /\ streak' = 0 /\ opened' = Never /\ rest' = rest
      BY <1>3 DEF Returns, Succeeded
    <2>. QED  BY <2>1
  <1>4. CASE Elapses
    <2>1. /\ opened' = IF opened = Never THEN Never ELSE LesserOf(Cooldown, opened + 1)
          /\ rest' = LesserOf(Cooldown, rest + 1)
          /\ UNCHANGED <<failures, streak>>
      BY <1>4 DEF Elapses
    <2>. QED  BY <2>1
  <1>. QED  BY <1>1, <1>2, <1>3, <1>4 DEF GateNext

\* After as many failures in a row as the threshold, no call starts within a
\* cooldown of the last of them, the failed half-open probe included, whatever
\* the threshold and the cooldown are (gatekeeper.py, _check_breaker and
\* _on_failure).
THEOREM FailuresAreRested == GateSpec => BreakerRests
  <1>1. GateInit => Tripped
    BY GateInitInv
  <1>2. Tripped /\ [GateNext]_gateVars => Tripped'
    BY TrippedStep
  <1>3. Tripped /\ [GateNext]_gateVars
          => [~busy /\ busy' /\ streak >= Threshold => rest >= Cooldown]_gateVars
    <2>1. SUFFICES ASSUME Tripped, GateNext, ~busy, busy', streak >= Threshold
                   PROVE  rest >= Cooldown
      OBVIOUS
    <2>2. LetThrough
      BY <2>1 DEF GateNext, FastRefused, OverQuota, OutOfTokens, Raises, Returns, Elapses,
                  gateVars, gates
    <2>3. opened = Never \/ ~(opened < Cooldown)
      BY <2>2 DEF LetThrough, BreakerOpen
    <2>4. failures >= Threshold
      BY <2>1, GatekeeperAssumption DEF Tripped, LesserOf
    <2>. QED  BY <2>1, <2>3, <2>4, GatekeeperAssumption DEF Tripped
  <1>. QED  BY <1>1, <1>2, <1>3, PTL DEF GateSpec, BreakerRests

-----------------------------------------------------------------------------
(* The sealed log.  A commit binds its dialect, payload and nonce, and the  *)
(* only signatures are those of declarations: what a revealed record can   *)
(* be follows from what was sealed, however often it was changed.          *)

\* A payload is a mapping, signed only as a declaration is.
IsPayload(p) ==
    /\ p = [k \in DOMAIN p |-> p[k]]
    /\ "signature" \in DOMAIN p => \E b \in Bodies : p["signature"] = Sign(OwnKey, Declared(b))

IsRecord(r) ==
    /\ r = [payload |-> r.payload, nonce |-> r.nonce, commit |-> r.commit]
    /\ IsPayload(r.payload) /\ r.nonce \in 0 .. LogSteps + 1

Records(s) == \E S : s \in Seq(S) /\ \A r \in S : IsRecord(r)

\* The i-th record of the chain: the declaration, then one step after another.
Sealed(i) ==
    \E b \in Bodies :
        chain[i] = SealStep(crypto.sealer, IF i = 1 THEN Declaration(b) ELSE Step(i - 1, b), i - 1)

\* The step at place i is on the board and within a step of the one before.
Walked(i) ==
    /\ BodyOf(chain[i]) \notin OffBoard
    /\ i > 2 => <<BodyOf(chain[i - 1]), BodyOf(chain[i])>> \notin Far

ChainInv ==
    /\ crypto.sealer \in Dialects /\ crypto.auditor \in Dialects
    /\ pubkey \in {OwnKey, NoKey}
    /\ Records(chain) /\ \A i \in DOMAIN chain : Sealed(i)
    /\ \A i \in DOMAIN chain : i > 1 => Walked(i)
    /\ \A n \in DOMAIN live : n + 1 \in DOMAIN chain /\ live[n] = chain[n + 1].commit

VerdictInv ==
    /\ verdict = [phase |-> verdict.phase, received |-> verdict.received, failed |-> verdict.failed]
    /\ verdict.phase # "judged" => ~verdict.received
    /\ verdict.phase # "judged" \/ verdict.received => chain # <<>>
    /\ verdict.phase = "revealed" \/ verdict.received => (edits = 0 => revealed = chain)
    /\ verdict.received => verdict.failed = FailedSteps(revealed)

SealInv == ChainInv /\ VerdictInv /\ Records(revealed) /\ edits \in Nat

\* The program's own payloads.
LEMMA OwnPayloads ==
    ASSUME NEW b \in Bodies, NEW n \in Nat
    PROVE  /\ IsPayload(Declaration(b)) /\ IsPayload(Step(n, b))
           /\ "nonce" \notin DOMAIN Declaration(b) /\ "nonce" \notin DOMAIN Step(n, b)
           /\ "step" \in DOMAIN Declaration(b) /\ Declaration(b)["step"] = 0
           /\ "step" \in DOMAIN Step(n, b) /\ Step(n, b)["step"] = n
           /\ Unsigned(Declaration(b)) = Declared(b)
           /\ "signature" \in DOMAIN Declaration(b)
           /\ Declaration(b)["signature"] = Sign(OwnKey, Declared(b))
  <1>1. Step(n, b) = [k \in {"step", "body"} |-> IF k = "step" THEN n ELSE b]
    BY DEF Step
  <1>2. DOMAIN Declared(b) = {"step", "body", "public_key"} /\ Declared(b)["step"] = 0
        /\ Declared(b) = [k \in DOMAIN Declared(b) |-> Declared(b)[k]]
    BY DEF Declared, Step, WithKey
  <1>3. DOMAIN Declaration(b) = {"step", "body", "public_key", "signature"}
        /\ Declaration(b)["step"] = 0
        /\ Declaration(b)["signature"] = Sign(OwnKey, Declared(b))
        /\ Declaration(b) = [k \in DOMAIN Declaration(b) |-> Declaration(b)[k]]
    BY <1>2 DEF Declaration, WithKey
  <1>4. Unsigned(Declaration(b)) = Declared(b)
    BY <1>2, <1>3 DEF Unsigned, Declaration, WithKey
  <1>5. IsPayload(Declaration(b))
    BY <1>3 DEF IsPayload
  <1>6. IsPayload(Step(n, b))
    BY <1>1 DEF IsPayload
  <1>. QED  BY <1>1, <1>3, <1>4, <1>5, <1>6

\* A signature that verifies is that of a declaration of the same payload.
LEMMA SignatureBinds ==
    ASSUME NEW p, IsPayload(p), VerifyStep0Signature(p, OwnKey)
    PROVE  \E b \in Bodies : p = Declaration(b)
  <1>1. "signature" \in DOMAIN p /\ p["signature"] = Sign(OwnKey, Unsigned(p))
        /\ p = [k \in DOMAIN p |-> p[k]]
    BY DEF VerifyStep0Signature, IsPayload
  <1>2. PICK b \in Bodies : p["signature"] = Sign(OwnKey, Declared(b))
    BY <1>1 DEF IsPayload
  <1>3. Unsigned(p) = Declared(b)
    BY <1>1, <1>2 DEF Sign
  <1>4. p = Declaration(b)
    BY <1>1, <1>2, <1>3 DEF Unsigned, Declaration, WithKey
  <1>. QED  BY <1>4

\* A commit binds what it was made of.
LEMMA CommitBinds ==
    ASSUME NEW d \in Dialects, NEW e \in Dialects, NEW p, NEW q, NEW n, NEW m,
           IsPayload(p), IsPayload(q), ~Reserved(d, p), ~Reserved(e, q),
           Commit(d, p, n) = Commit(e, q, m)
    PROVE  d = e /\ p = q /\ n = m
  <1>1. CASE d = "book" /\ e = "book"
    <2>1. WithKey(p, "nonce", n) = WithKey(q, "nonce", m)
      BY <1>1 DEF Commit
    <2>2. "nonce" \notin DOMAIN p /\ "nonce" \notin DOMAIN q
      BY <1>1 DEF Reserved
    <2>3. /\ DOMAIN WithKey(p, "nonce", n) = DOMAIN p \cup {"nonce"}
          /\ DOMAIN WithKey(q, "nonce", m) = DOMAIN q \cup {"nonce"}
      BY DEF WithKey
    <2>4. DOMAIN p = DOMAIN q
      BY <2>1, <2>2, <2>3
    <2>5. n = m /\ \A k \in DOMAIN p : p[k] = q[k]
      BY <2>1, <2>2, <2>4 DEF WithKey
    <2>. QED  BY <1>1, <2>4, <2>5 DEF IsPayload
  <1>2. CASE d # "book" /\ e # "book"
    BY <1>2 DEF Commit, Dialects
  <1>3. CASE d = "book" /\ e # "book"
    BY <1>3 DEF Commit
  <1>4. CASE d # "book" /\ e = "book"
    BY <1>4 DEF Commit
  <1>. QED  BY <1>1, <1>2, <1>3, <1>4

\* What a sealed step is made of.
LEMMA SealedRecord ==
    ASSUME NEW d, NEW p, NEW n \in 0 .. LogSteps + 1, IsPayload(p)
    PROVE  /\ IsRecord(SealStep(d, p, n))
           /\ SealStep(d, p, n).payload = p /\ SealStep(d, p, n).nonce = n
           /\ SealStep(d, p, n).commit = Commit(d, p, n)
  BY DEF SealStep, IsRecord

\* No change of a payload signs it anew, but by a declaration.
LEMMA RewordedPayload ==
    ASSUME NEW p, IsPayload(p), NEW q \in Reworded(p)
    PROVE  IsPayload(q)
  <1>1. CASE \E b \in Bodies : q = Declaration(b)
    BY <1>1, OwnPayloads
  <1>2. CASE \E k \in {"body", "step", "nonce"} : \E v : q = WithKey(p, k, v)
    BY <1>2 DEF WithKey, IsPayload
  <1>3. CASE q = [k \in DOMAIN p \ {"step"} |-> p[k]]
    BY <1>3 DEF IsPayload
  <1>. QED  BY <1>1, <1>2, <1>3 DEF Reworded

LEMMA EditedRecord ==
    ASSUME NEW r, IsRecord(r), NEW t \in Edited(r), SealingAssumption
    PROVE  IsRecord(t)
  <1>1. IsPayload(r.payload) /\ r.nonce \in 0 .. LogSteps + 1 /\ LogSteps + 1 \in 0 .. LogSteps + 1
    BY SealingAssumption DEF IsRecord
  <1>2. CASE \E p \in Reworded(r.payload) : t = [r EXCEPT !.payload = p]
    <2>1. PICK p \in Reworded(r.payload) : t = [r EXCEPT !.payload = p]
      BY <1>2
    <2>2. t = [payload |-> p, nonce |-> r.nonce, commit |-> r.commit] /\ IsPayload(p)
      BY <1>1, <2>1, RewordedPayload DEF IsRecord
    <2>. QED  BY <1>1, <2>2 DEF IsRecord
  <1>3. CASE \E d \in Dialects, p \in Reworded(r.payload), n \in {r.nonce, LogSteps + 1} :
                t = SealStep(d, p, n)
    BY <1>1, <1>3, RewordedPayload, SealedRecord
  <1>. QED  BY <1>2, <1>3 DEF Edited

\* Sequences of records, added to, changed at one place, and cut.
LEMMA RecordsFew ==
    ASSUME NEW S, \A r \in S : IsRecord(r), NEW s \in Seq(S)
    PROVE  Records(s)
  BY DEF Records

LEMMA RecordsAt ==
    ASSUME NEW s, Records(s)
    PROVE  /\ Len(s) \in Nat /\ DOMAIN s = 1 .. Len(s) /\ (s # <<>> <=> 1 \in DOMAIN s)
           /\ \A i \in DOMAIN s : IsRecord(s[i])
  <1>1. PICK S : s \in Seq(S) /\ \A r \in S : IsRecord(r)
    BY DEF Records
  <1>2. Len(s) \in Nat /\ DOMAIN s = 1 .. Len(s) /\ \A i \in DOMAIN s : s[i] \in S
    BY <1>1
  <1>3. s # <<>> <=> 1 \in DOMAIN s
    BY <1>1, <1>2
  <1>. QED  BY <1>1, <1>2, <1>3

LEMMA RecordsAppend ==
    ASSUME NEW s, Records(s), NEW r, IsRecord(r)
    PROVE  /\ Records(Append(s, r)) /\ Append(s, r) # <<>>
           /\ DOMAIN Append(s, r) = 1 .. Len(s) + 1
           /\ \A i \in DOMAIN s : Append(s, r)[i] = s[i]
           /\ Append(s, r)[Len(s) + 1] = r
  <1>1. PICK S : s \in Seq(S) /\ \A x \in S : IsRecord(x)
    BY DEF Records
  <1>2. PICK T : T = S \cup {r}
    OBVIOUS
  <1>3. s \in Seq(T)
    <2>1. Len(s) \in Nat /\ s \in [1 .. Len(s) -> S]
      BY <1>1, LenProperties
    <2>2. s \in [1 .. Len(s) -> T]
      BY <1>2, <2>1
    <2>. QED  BY <2>1, <2>2
  <1>4. r \in T /\ \A x \in T : IsRecord(x)
    BY <1>1, <1>2
  <1>5. PICK t : t = Append(s, r)
    OBVIOUS
  <1>6. /\ t \in Seq(T) /\ Len(t) = Len(s) + 1 /\ Len(s) \in Nat
        /\ DOMAIN t = 1 .. Len(s) + 1 /\ DOMAIN s = 1 .. Len(s)
        /\ \A i \in 1 .. Len(s) : t[i] = s[i]
        /\ t[Len(s) + 1] = r
    BY <1>3, <1>4, <1>5
  <1>7. t # <<>>
    BY <1>6
  <1>. QED  BY <1>4, <1>5, <1>6, <1>7 DEF Records

LEMMA RecordsExcept ==
    ASSUME NEW s, Records(s), NEW i \in DOMAIN s, NEW r, IsRecord(r)
    PROVE  Records([s EXCEPT ![i] = r])
  <1>1. PICK S : s \in Seq(S) /\ \A x \in S : IsRecord(x)
    BY DEF Records
  <1>2. PICK T : T = S \cup {r}
    OBVIOUS
  <1>3. Len(s) \in Nat /\ s \in [1 .. Len(s) -> S] /\ DOMAIN s = 1 .. Len(s)
    BY <1>1, LenProperties
  <1>4. s \in [1 .. Len(s) -> T] /\ r \in T /\ i \in 1 .. Len(s)
    BY <1>2, <1>3
  <1>5. s \in Seq(T)
    BY <1>3, <1>4
  <1>6. [s EXCEPT ![i] = r] \in Seq(T)
    BY <1>4, <1>5, ExceptSeq
  <1>7. \A x \in T : IsRecord(x)
    BY <1>1, <1>2
  <1>. QED  BY <1>6, <1>7 DEF Records

LEMMA RecordsCut ==
    ASSUME NEW s, Records(s), NEW i \in DOMAIN s
    PROVE  Records(SubSeq(s, 1, i - 1) \o SubSeq(s, i + 1, Len(s)))
  <1>1. PICK S : s \in Seq(S) /\ \A x \in S : IsRecord(x)
    BY DEF Records
  <1>2. Len(s) \in Nat /\ i \in 1 .. Len(s) /\ i - 1 \in Int /\ i + 1 \in Int
        /\ \A j \in 1 .. Len(s) : s[j] \in S
    BY <1>1
  <1>3. (\A j \in 1 .. i - 1 : s[j] \in S) /\ (\A j \in i + 1 .. Len(s) : s[j] \in S)
    BY <1>2
  <1>4. SubSeq(s, 1, i - 1) \in Seq(S) /\ SubSeq(s, i + 1, Len(s)) \in Seq(S)
    BY <1>2, <1>3, SubSeqProperties
  <1>5. SubSeq(s, 1, i - 1) \o SubSeq(s, i + 1, Len(s)) \in Seq(S)
    BY <1>4, ConcatProperties
  <1>. QED  BY <1>1, <1>5 DEF Records

\* It holds before the first sub-game.
LEMMA SealInitInv == ASSUME SealInit PROVE SealInv
  <1>1. /\ crypto = [sealer |-> MakeHashDialect(<<>>), auditor |-> MakeHashDialect(<<>>)]
        /\ pubkey = NoKey /\ chain = <<>> /\ live = <<>> /\ revealed = <<>> /\ edits = 0
        /\ verdict = [phase |-> "judged", received |-> FALSE, failed |-> {}]
    BY DEF SealInit, Pending
  <1>2. Records(<<>>)
    <2>1. <<>> \in Seq({}) /\ \A r \in {} : IsRecord(r)
      OBVIOUS
    <2>. QED  BY <2>1, RecordsFew
  <1>3. MakeHashDialect(<<>>) \in Dialects
    BY DEF MakeHashDialect, Dialects
  <1>4. ChainInv
    BY <1>1, <1>2, <1>3 DEF ChainInv
  <1>5. VerdictInv
    BY <1>1 DEF VerdictInv
  <1>. QED  BY <1>1, <1>2, <1>4, <1>5 DEF SealInv

\* A sub-game starts with a log of its declaration.
LEMMA LogStarts == ASSUME NextLog PROVE SealInv'
  <1>1. PICK o \in Openings : crypto' = o.crypto /\ chain' = o.chain
    BY DEF NextLog
  <1>2. /\ pubkey' \in {OwnKey, NoKey} /\ live' = <<>> /\ revealed' = <<>> /\ edits' = 0
        /\ verdict' = [phase |-> "playing", received |-> FALSE, failed |-> {}]
    BY DEF NextLog, Pending
  <1>3. PICK mine \in Blocks, theirs \in Blocks, body \in Bodies :
            o = [crypto |-> [sealer |-> MakeHashDialect(mine), auditor |-> MakeHashDialect(theirs)],
                 chain |-> <<SealStep(MakeHashDialect(mine), Declaration(body), 0)>>]
    BY <1>1 DEF Openings
  <1>4. \A block \in Blocks : MakeHashDialect(block) \in Dialects
    BY DEF Blocks, MakeHashDialect, Dialects
  <1>5. PICK r : r = SealStep(crypto'.sealer, Declaration(body), 0)
    OBVIOUS
  <1>6. chain' = <<r>> /\ crypto'.sealer \in Dialects /\ crypto'.auditor \in Dialects
    BY <1>1, <1>3, <1>4, <1>5
  <1>7. IsRecord(r)
    <2>1. 0 \in 0 .. LogSteps + 1 /\ IsPayload(Declaration(body))
      BY OwnPayloads, SealingAssumption
    <2>. QED  BY <1>5, <2>1, SealedRecord
  <1>8. Records(chain') /\ chain' # <<>> /\ DOMAIN chain' = {1} /\ chain'[1] = r
    <2>1. <<r>> \in Seq({r}) /\ <<r>> # <<>> /\ DOMAIN <<r>> = {1} /\ <<r>>[1] = r
      OBVIOUS
    <2>2. \A x \in {r} : IsRecord(x)
      BY <1>7
    <2>3. Records(<<r>>)
      BY <2>1, <2>2, RecordsFew
    <2>. QED  BY <1>6, <2>1, <2>3
  <1>9. \A i \in DOMAIN chain' : Sealed(i)'
    <2>1. Sealed(1)'
      BY <1>5, <1>8 DEF Sealed
    <2>. QED  BY <1>8, <2>1
  <1>9a. \A i \in DOMAIN chain' : ~(i > 1)
    BY <1>8
  <1>10. Records(revealed')
    <2>1. <<>> \in Seq({}) /\ \A x \in {} : IsRecord(x)
      OBVIOUS
    <2>. QED  BY <1>2, <2>1, RecordsFew
  <1>11. ChainInv'
    BY <1>2, <1>6, <1>8, <1>9, <1>9a DEF ChainInv
  <1>12. VerdictInv'
    BY <1>2, <1>8 DEF VerdictInv
  <1>. QED  BY <1>2, <1>10, <1>11, <1>12 DEF SealInv

\* A turn seals the next step; its commit arrives or is lost.
LEMMA TurnSeals == ASSUME SealInv, NEW body \in Bodies, SealTurn(body) PROVE SealInv'
  <1>1. PICK n, r : n = Len(chain) /\ r = SealStep(crypto.sealer, Step(n, body), n)
    OBVIOUS
  <1>2. /\ verdict.phase = "playing" /\ n <= LogSteps /\ chain' = Append(chain, r)
        /\ live' = live \/ live' = WithKey(live, n, r.commit)
        /\ body \notin OffBoard /\ (n > 1 => <<BodyOf(chain[n]), body>> \notin Far)
        /\ UNCHANGED <<crypto, pubkey, revealed, edits, verdict>>
    BY <1>1 DEF SealTurn
  <1>3. /\ n \in Nat /\ DOMAIN chain = 1 .. n /\ chain # <<>> /\ 1 \in DOMAIN chain
    BY <1>1, <1>2, RecordsAt DEF SealInv, ChainInv, VerdictInv
  <1>4. IsPayload(Step(n, body)) /\ n \in 0 .. LogSteps + 1
    BY <1>2, <1>3, OwnPayloads, SealingAssumption
  <1>5. IsRecord(r)
    BY <1>1, <1>4, SealedRecord
  <1>6. /\ Records(chain') /\ chain' # <<>> /\ DOMAIN chain' = 1 .. n + 1
        /\ \A i \in DOMAIN chain : chain'[i] = chain[i]
        /\ chain'[n + 1] = r
    BY <1>1, <1>2, <1>5, RecordsAppend DEF SealInv, ChainInv
  <1>7. ASSUME NEW i \in DOMAIN chain' PROVE Sealed(i)'
    <2>1. CASE i \in DOMAIN chain
      <3>1. Sealed(i)
        BY <2>1 DEF SealInv, ChainInv
      <3>. QED  BY <1>2, <1>6, <2>1, <3>1 DEF Sealed
    <2>2. CASE i = n + 1
      <3>1. n + 1 # 1 /\ n + 1 - 1 = n
        BY <1>3
      <3>. QED  BY <1>1, <1>2, <1>6, <2>2, <3>1 DEF Sealed
    <2>3. i \in DOMAIN chain \/ i = n + 1
      BY <1>3, <1>6
    <2>. QED  BY <2>1, <2>2, <2>3
  <1>8. ASSUME NEW m \in DOMAIN live'
        PROVE  m + 1 \in DOMAIN chain' /\ live'[m] = chain'[m + 1].commit
    <2>1. CASE m \in DOMAIN live /\ live'[m] = live[m]
      <3>1. m + 1 \in DOMAIN chain /\ live[m] = chain[m + 1].commit
        BY <2>1 DEF SealInv, ChainInv
      <3>. QED  BY <1>3, <1>6, <2>1, <3>1
    <2>2. CASE m = n /\ live'[m] = r.commit
      BY <1>3, <1>6, <2>2
    <2>3. \/ m \in DOMAIN live /\ live'[m] = live[m]
          \/ m = n /\ live'[m] = r.commit
      BY <1>2 DEF WithKey
    <2>. QED  BY <2>1, <2>2, <2>3
  <1>8a. ASSUME NEW i \in DOMAIN chain', i > 1 PROVE Walked(i)'
    <2>1. CASE i \in DOMAIN chain
      <3>1. Walked(i) /\ chain'[i] = chain[i] /\ i \in Nat
        BY <1>3, <1>6, <1>8a, <2>1 DEF SealInv, ChainInv
      <3>2. i > 2 => chain'[i - 1] = chain[i - 1]
        BY <1>3, <1>6, <2>1
      <3>. QED  BY <3>1, <3>2 DEF Walked, BodyOf
    <2>2. CASE i = n + 1
      <3>1. i - 1 = n /\ (i > 2 => n > 1) /\ n \in DOMAIN chain /\ chain'[n] = chain[n]
        BY <1>3, <1>6, <2>2
      <3>2. BodyOf(chain'[i]) = body
        BY <1>1, <1>6, <2>2 DEF BodyOf, SealStep, Step
      <3>. QED  BY <1>2, <3>1, <3>2 DEF Walked, BodyOf
    <2>3. i \in DOMAIN chain \/ i = n + 1
      BY <1>3, <1>6
    <2>. QED  BY <2>1, <2>2, <2>3
  <1>9. ChainInv'
    BY <1>2, <1>6, <1>7, <1>8, <1>8a DEF ChainInv, SealInv
  <1>10. VerdictInv'
    BY <1>2, <1>6 DEF VerdictInv, SealInv
  <1>. QED  BY <1>2, <1>9, <1>10 DEF SealInv

\* The chain is revealed, and may differ from what was sealed.
LEMMA Reveals == ASSUME SealInv, AuditReveal PROVE SealInv'
  <1>1. /\ verdict.phase = "playing" /\ revealed' = chain
        /\ verdict' = [verdict EXCEPT !.phase = "revealed"]
        /\ UNCHANGED <<crypto, pubkey, chain, live, edits>>
    BY DEF AuditReveal
  <1>2. verdict' = [phase |-> "revealed", received |-> verdict.received, failed |-> verdict.failed]
    BY <1>1 DEF SealInv, VerdictInv
  <1>3. VerdictInv'
    BY <1>1, <1>2 DEF SealInv, VerdictInv
  <1>4. ChainInv' /\ Records(revealed')
    BY <1>1 DEF SealInv, ChainInv, Sealed, Walked, BodyOf
  <1>. QED  BY <1>1, <1>3, <1>4 DEF SealInv

LEMMA DiffersKeeps == ASSUME SealInv, Differs PROVE SealInv'
  <1>1. /\ verdict.phase = "revealed" /\ edits' = edits + 1
        /\ UNCHANGED <<crypto, pubkey, chain, live, verdict>>
    BY DEF Differs
  <1>2. PICK i \in DOMAIN revealed :
          \/ \E r \in Edited(revealed[i]) : revealed' = [revealed EXCEPT ![i] = r]
          \/ revealed' = SubSeq(revealed, 1, i - 1) \o SubSeq(revealed, i + 1, Len(revealed))
          \/ revealed' = [revealed EXCEPT ![i] = revealed[1], ![1] = revealed[i]]
    BY DEF Differs
  <1>3. Records(revealed) /\ 1 \in DOMAIN revealed /\ IsRecord(revealed[i]) /\ IsRecord(revealed[1])
    <2>1. /\ Records(revealed) /\ Len(revealed) \in Nat /\ DOMAIN revealed = 1 .. Len(revealed)
          /\ \A j \in DOMAIN revealed : IsRecord(revealed[j])
      BY RecordsAt DEF SealInv
    <2>2. 1 \in DOMAIN revealed
      BY <2>1
    <2>. QED  BY <2>1, <2>2
  <1>4. Records(revealed')
    <2>1. CASE \E r \in Edited(revealed[i]) : revealed' = [revealed EXCEPT ![i] = r]
      <3>1. PICK r \in Edited(revealed[i]) : revealed' = [revealed EXCEPT ![i] = r]
        BY <2>1
      <3>2. IsRecord(r)
        BY <1>3, EditedRecord, SealingAssumption
      <3>. QED  BY <1>3, <3>1, <3>2, RecordsExcept
    <2>2. CASE revealed' = SubSeq(revealed, 1, i - 1) \o SubSeq(revealed, i + 1, Len(revealed))
      BY <1>3, <2>2, RecordsCut
    <2>3. CASE revealed' = [revealed EXCEPT ![i] = revealed[1], ![1] = revealed[i]]
      <3>1. PICK t : t = [revealed EXCEPT ![i] = revealed[1]]
        OBVIOUS
      <3>2. Records(t) /\ DOMAIN t = DOMAIN revealed
        BY <1>3, <3>1, RecordsExcept
      <3>3. revealed' = [t EXCEPT ![1] = revealed[i]]
        BY <2>3, <3>1
      <3>. QED  BY <1>3, <3>2, <3>3, RecordsExcept
    <2>. QED  BY <1>2, <2>1, <2>2, <2>3
  <1>5. edits' \in Nat /\ edits' # 0
    BY <1>1 DEF SealInv
  <1>6. VerdictInv'
    BY <1>1, <1>5 DEF SealInv, VerdictInv
  <1>7. ChainInv'
    BY <1>1 DEF SealInv, ChainInv, Sealed, Walked, BodyOf
  <1>. QED  BY <1>4, <1>5, <1>6, <1>7 DEF SealInv

\* The verdict is what the auditor found.
LEMMA VerdictKeeps == ASSUME SealInv, Judges \/ HearsNothing PROVE SealInv'
  <1>1. /\ verdict.phase = "revealed" /\ UNCHANGED <<crypto, pubkey, chain, live, revealed, edits>>
        /\ \/ verdict' = [phase |-> "judged", received |-> TRUE, failed |-> FailedSteps(revealed)]
           \/ verdict' = [verdict EXCEPT !.phase = "judged"]
    BY DEF Judges, HearsNothing
  <1>2. FailedSteps(revealed)' = FailedSteps(revealed)
    BY <1>1 DEF FailedSteps, AuditVerify, RevealMismatches, Numbered, WithStep, StepOf,
                TrajectoryMismatches, OnTrail, BodyOf
  <1>3. VerdictInv'
    <2>1. CASE verdict' = [phase |-> "judged", received |-> TRUE, failed |-> FailedSteps(revealed)]
      BY <1>1, <1>2, <2>1 DEF SealInv, VerdictInv
    <2>2. CASE verdict' = [verdict EXCEPT !.phase = "judged"]
      <3>1. verdict' = [phase |-> "judged", received |-> verdict.received, failed |-> verdict.failed]
        BY <2>2 DEF SealInv, VerdictInv
      <3>. QED  BY <1>1, <3>1 DEF SealInv, VerdictInv
    <2>. QED  BY <1>1, <2>1, <2>2
  <1>4. ChainInv'
    BY <1>1 DEF SealInv, ChainInv, Sealed, Walked, BodyOf
  <1>. QED  BY <1>1, <1>3, <1>4 DEF SealInv

LEMMA SealStepKeeps == ASSUME SealInv, [SealNext]_sealVars PROVE SealInv'
  <1>1. CASE UNCHANGED sealVars
    <2>1. FailedSteps(revealed)' = FailedSteps(revealed)
      BY <1>1 DEF sealVars, FailedSteps, AuditVerify, RevealMismatches, Numbered, WithStep, StepOf,
                TrajectoryMismatches, OnTrail, BodyOf
    <2>2. VerdictInv'
      BY <1>1, <2>1 DEF sealVars, SealInv, VerdictInv
    <2>3. ChainInv'
      BY <1>1 DEF sealVars, SealInv, ChainInv, Sealed, Walked, BodyOf
    <2>. QED  BY <1>1, <2>2, <2>3 DEF sealVars, SealInv
  <1>. QED
    BY <1>1, TurnSeals, Reveals, DiffersKeeps, VerdictKeeps, LogStarts DEF SealNext

-----------------------------------------------------------------------------
(* What the two auditors find.                                             *)

\* What the chain holds at a place.
LEMMA SealedAt ==
    ASSUME ChainInv, NEW i \in DOMAIN chain
    PROVE  \E p :
             /\ IsPayload(p) /\ "nonce" \notin DOMAIN p
             /\ "step" \in DOMAIN p /\ p["step"] = i - 1
             /\ chain[i].payload = p /\ chain[i].nonce = i - 1
             /\ chain[i].commit = Commit(crypto.sealer, p, i - 1)
             /\ chain[i] = [payload |-> p, nonce |-> i - 1, commit |-> chain[i].commit]
             /\ i = 1 => \E b \in Bodies : p = Declaration(b)
  <1>1. Sealed(i) /\ i \in Nat /\ i - 1 \in Nat /\ (i = 1 => i - 1 = 0)
    BY RecordsAt DEF ChainInv
  <1>2. PICK b \in Bodies :
          chain[i] = SealStep(crypto.sealer, IF i = 1 THEN Declaration(b) ELSE Step(i - 1, b), i - 1)
    BY <1>1 DEF Sealed
  <1>3. PICK p : p = IF i = 1 THEN Declaration(b) ELSE Step(i - 1, b)
    OBVIOUS
  <1>4. /\ IsPayload(p) /\ "nonce" \notin DOMAIN p
        /\ "step" \in DOMAIN p /\ p["step"] = i - 1
        /\ (i = 1 => p = Declaration(b))
    BY <1>1, <1>3, OwnPayloads
  <1>5. chain[i] = [payload |-> p, nonce |-> i - 1, commit |-> Commit(crypto.sealer, p, i - 1)]
    BY <1>2, <1>3 DEF SealStep
  <1>. QED  BY <1>4, <1>5

\* The chain verifies under the dialect that sealed it, and under no other.
LEMMA OwnDialect ==
    ASSUME ChainInv, NEW i \in DOMAIN chain, NEW d \in Dialects
    PROVE  Verify(d, chain[i].payload, chain[i].nonce, chain[i].commit) <=> d = crypto.sealer
  <1>1. PICK p : /\ IsPayload(p) /\ "nonce" \notin DOMAIN p
                 /\ chain[i].payload = p /\ chain[i].nonce = i - 1
                 /\ chain[i].commit = Commit(crypto.sealer, p, i - 1)
    BY SealedAt
  <1>2. ~Reserved(d, p) /\ ~Reserved(crypto.sealer, p) /\ crypto.sealer \in Dialects
    BY <1>1 DEF Reserved, ChainInv
  <1>3. Commit(crypto.sealer, p, i - 1) = Commit(d, p, i - 1) => d = crypto.sealer
    BY <1>1, <1>2, CommitBinds
  <1>. QED  BY <1>1, <1>2, <1>3 DEF Verify

\* What an audit that found nothing looked at.
LEMMA NothingFound ==
    ASSUME NEW s, FailedSteps(s) = {}
    PROVE  /\ \A i \in DOMAIN s : Verify(crypto.auditor, s[i].payload, s[i].nonce, s[i].commit)
           /\ \A i \in DOMAIN s :
                 WithStep(s[i]) /\ StepOf(s[i]) \in DOMAIN live => live[StepOf(s[i])] = s[i].commit
           /\ pubkey # NoKey /\ s # <<>> => VerifyStep0Signature(s[1].payload, pubkey)
  <1>1. PICK failed : failed = AuditVerify(s, crypto.auditor) \cup RevealMismatches(s)
                               \cup TrajectoryMismatches(s)
    OBVIOUS
  <1>2. /\ failed = {}
        /\ ~(/\ failed = {} /\ pubkey # NoKey /\ s # <<>>
             /\ ~VerifyStep0Signature(s[1].payload, pubkey))
    BY <1>1 DEF FailedSteps
  <1>3. AuditVerify(s, crypto.auditor) = {} /\ RevealMismatches(s) = {}
    BY <1>1, <1>2
  <1>4. \A i \in DOMAIN s : Verify(crypto.auditor, s[i].payload, s[i].nonce, s[i].commit)
    BY <1>3 DEF AuditVerify
  <1>5. \A i \in DOMAIN s :
           WithStep(s[i]) /\ StepOf(s[i]) \in DOMAIN live => live[StepOf(s[i])] = s[i].commit
    BY <1>3 DEF RevealMismatches
  <1>. QED  BY <1>2, <1>4, <1>5

LEMMA PassedIsSealed == ASSUME SealInv, AuditPassed PROVE PassedIsPlayed
  <1>1. /\ \A i \in DOMAIN revealed :
             Verify(crypto.auditor, revealed[i].payload, revealed[i].nonce, revealed[i].commit)
        /\ \A i \in DOMAIN revealed :
             WithStep(revealed[i]) /\ StepOf(revealed[i]) \in DOMAIN live =>
                live[StepOf(revealed[i])] = revealed[i].commit
        /\ pubkey # NoKey /\ revealed # <<>> => VerifyStep0Signature(revealed[1].payload, pubkey)
    BY NothingFound DEF SealInv, VerdictInv, AuditPassed
  <1>2. /\ \A i \in DOMAIN revealed : IsRecord(revealed[i])
        /\ revealed # <<>> => 1 \in DOMAIN revealed
    BY RecordsAt DEF SealInv
  <1>3. ASSUME NEW i \in DOMAIN revealed,
               WithStep(revealed[i]), StepOf(revealed[i]) \in DOMAIN live
        PROVE  revealed[i] = chain[StepOf(revealed[i]) + 1]
    <2>1. PICK k, r : k = StepOf(revealed[i]) + 1 /\ r = revealed[i]
      OBVIOUS
    <2>2. k \in DOMAIN chain /\ r.commit = chain[k].commit
      BY <1>1, <1>3, <2>1 DEF SealInv, ChainInv
    <2>3. PICK p : /\ IsPayload(p) /\ "nonce" \notin DOMAIN p
                   /\ chain[k].commit = Commit(crypto.sealer, p, k - 1)
                   /\ chain[k] = [payload |-> p, nonce |-> k - 1, commit |-> chain[k].commit]
      BY <2>2, SealedAt DEF SealInv
    <2>4. /\ IsPayload(r.payload) /\ r = [payload |-> r.payload, nonce |-> r.nonce, commit |-> r.commit]
      BY <1>2, <2>1 DEF IsRecord
    <2>5. ~Reserved(crypto.auditor, r.payload)
          /\ r.commit = Commit(crypto.auditor, r.payload, r.nonce)
      BY <1>1, <2>1 DEF Verify
    <2>6. ~Reserved(crypto.sealer, p) /\ crypto.sealer \in Dialects /\ crypto.auditor \in Dialects
      BY <2>3 DEF Reserved, SealInv, ChainInv
    <2>7. r.payload = p /\ r.nonce = k - 1
      BY <2>2, <2>3, <2>4, <2>5, <2>6, CommitBinds
    <2>. QED  BY <2>1, <2>2, <2>3, <2>4, <2>7
  <1>4. ASSUME pubkey = OwnKey, revealed # <<>>
        PROVE  \E body \in Bodies, n \in 0 .. LogSteps + 1, d \in Dialects :
                  revealed[1] = SealStep(d, Declaration(body), n)
    <2>1. PICK r : r = revealed[1]
      OBVIOUS
    <2>2. IsRecord(r) /\ VerifyStep0Signature(r.payload, OwnKey)
      BY <1>1, <1>2, <1>4, <2>1 DEF OwnKey, NoKey
    <2>3. PICK body \in Bodies : r.payload = Declaration(body)
      BY <2>2, SignatureBinds DEF IsRecord
    <2>4. r.commit = Commit(crypto.auditor, r.payload, r.nonce) /\ crypto.auditor \in Dialects
      BY <1>1, <1>2, <1>4, <2>1 DEF Verify, SealInv, ChainInv
    <2>5. r = SealStep(crypto.auditor, Declaration(body), r.nonce) /\ r.nonce \in 0 .. LogSteps + 1
      BY <2>2, <2>3, <2>4 DEF SealStep, IsRecord
    <2>. QED  BY <2>1, <2>4, <2>5
  <1>. QED  BY <1>3, <1>4 DEF PassedIsPlayed

\* An unchanged log replays under the dialect that sealed it.
LEMMA UnchangedReplays ==
    ASSUME ChainInv, chain # <<>>
    PROVE  ReplayAudit(chain) = [passed |-> TRUE, dialect |-> crypto.sealer]
  <1>1. /\ \A i \in DOMAIN chain : \A d \in Dialects :
              Verify(d, chain[i].payload, chain[i].nonce, chain[i].commit) <=> d = crypto.sealer
        /\ DOMAIN chain # {}
    BY OwnDialect, RecordsAt DEF ChainInv
  <1>2. PICK ref, book : ref = Resealed(chain, "reference") /\ book = Resealed(chain, "book")
    OBVIOUS
  <1>3. CASE crypto.sealer = "reference"
    <2>1. ref = DOMAIN chain /\ book = {}
      BY <1>1, <1>2, <1>3 DEF Resealed, Dialects
    <2>2. ref \ book # {} /\ ~(book \ ref # {}) /\ ref \cup book = DOMAIN chain
      BY <1>1, <2>1
    <2>. QED  BY <1>2, <1>3, <2>2 DEF ReplayAudit
  <1>4. CASE crypto.sealer = "book"
    <2>1. book = DOMAIN chain /\ ref = {}
      BY <1>1, <1>2, <1>4 DEF Resealed, Dialects
    <2>2. book \ ref # {} /\ ~(ref \ book # {}) /\ ref \cup book = DOMAIN chain
      BY <1>1, <2>1
    <2>. QED  BY <1>2, <1>4, <2>2 DEF ReplayAudit
  <1>. QED  BY <1>3, <1>4 DEF ChainInv, Dialects

\* The positions of a sealed log are a walk on the board.
LEMMA NothingTrailed == ASSUME ChainInv PROVE TrajectoryMismatches(chain) = {}
  <1>1. PICK trail : trail = {i \in DOMAIN chain : OnTrail(chain[i])}
    OBVIOUS
  <1>2. ASSUME NEW i \in DOMAIN chain
        PROVE  i \in Nat /\ (i \in trail <=> i > 1)
    <2>1. /\ i \in Nat /\ i >= 1
          /\ Sealed(i)
      BY RecordsAt DEF ChainInv
    <2>2. PICK b \in Bodies :
            chain[i].payload = IF i = 1 THEN Declaration(b) ELSE Step(i - 1, b)
      BY <2>1 DEF Sealed, SealStep
    <2>3. CASE i = 1
      <3>1. WithStep(chain[i]) /\ StepOf(chain[i]) = 0
        BY <2>2, <2>3, OwnPayloads DEF WithStep, StepOf
      <3>. QED  BY <1>1, <2>3, <3>1 DEF OnTrail
    <2>4. CASE i > 1
      <3>1. DOMAIN Step(i - 1, b) = {"step", "body"} /\ Step(i - 1, b)["step"] = i - 1
        BY DEF Step
      <3>2. OnTrail(chain[i])
        BY <2>1, <2>2, <2>4, <3>1 DEF OnTrail, WithStep, StepOf
      <3>. QED  BY <1>1, <2>1, <2>4, <3>2
    <2>. QED  BY <2>1, <2>3, <2>4
  <1>3. ASSUME NEW k \in trail PROVE BodyOf(chain[k]) \notin OffBoard
    BY <1>1, <1>2, <1>3 DEF ChainInv, Walked
  <1>4. ASSUME NEW i \in trail, NEW k \in trail,
               i < k, \A j \in trail : j <= i \/ k <= j
        PROVE  <<BodyOf(chain[i]), BodyOf(chain[k])>> \notin Far
    <2>1. /\ i \in DOMAIN chain /\ k \in DOMAIN chain /\ i \in Nat /\ k \in Nat /\ i > 1
          /\ DOMAIN chain = 1 .. Len(chain) /\ Len(chain) \in Nat
      BY <1>1, <1>2, RecordsAt DEF ChainInv
    <2>2. i + 1 \in DOMAIN chain /\ i + 1 > 1
      BY <1>4, <2>1
    <2>3. i + 1 \in trail
      BY <1>2, <2>2
    <2>4. k = i + 1 /\ k - 1 = i /\ k > 2
      BY <1>4, <2>1, <2>3
    <2>. QED  BY <2>1, <2>4 DEF ChainInv, Walked
  <1>. QED  BY <1>1, <1>3, <1>4 DEF TrajectoryMismatches

\* Its live audit passes exactly when both peers seal alike.
LEMMA UnchangedFails ==
    ASSUME ChainInv, chain # <<>>
    PROVE  FailedSteps(chain) = IF crypto.auditor = crypto.sealer THEN {}
                                ELSE {n - 1 : n \in DOMAIN chain}
  <1>1. /\ \A i \in DOMAIN chain :
              Verify(crypto.auditor, chain[i].payload, chain[i].nonce, chain[i].commit)
                <=> crypto.auditor = crypto.sealer
        /\ 1 \in DOMAIN chain
        /\ \A i \in DOMAIN chain : i \in Nat
    BY OwnDialect, RecordsAt DEF ChainInv
  <1>2. \A i \in DOMAIN chain : WithStep(chain[i]) /\ StepOf(chain[i]) = i - 1
    <2>1. ASSUME NEW i \in DOMAIN chain PROVE WithStep(chain[i]) /\ StepOf(chain[i]) = i - 1
      <3>1. PICK p : "step" \in DOMAIN p /\ p["step"] = i - 1 /\ chain[i].payload = p
        BY SealedAt
      <3>. QED  BY <3>1 DEF WithStep, StepOf
    <2>. QED  BY <2>1
  <1>3. RevealMismatches(chain) = {}
    <2>1. ASSUME NEW i \in DOMAIN chain, StepOf(chain[i]) \in DOMAIN live
          PROVE  live[StepOf(chain[i])] = chain[i].commit
      <3>1. StepOf(chain[i]) + 1 = i
        BY <1>1, <1>2
      <3>. QED  BY <2>1, <3>1 DEF ChainInv
    <2>. QED  BY <2>1 DEF RevealMismatches
  <1>3a. TrajectoryMismatches(chain) = {}
    BY NothingTrailed
  <1>4. VerifyStep0Signature(chain[1].payload, pubkey) \/ pubkey = NoKey
    <2>1. PICK b \in Bodies : chain[1].payload = Declaration(b)
      BY <1>1, SealedAt
    <2>. QED  BY <2>1, OwnPayloads DEF VerifyStep0Signature, ChainInv
  <1>5. CASE crypto.auditor = crypto.sealer
    <2>1. AuditVerify(chain, crypto.auditor) = {}
      BY <1>1, <1>5 DEF AuditVerify
    <2>. QED  BY <1>3, <1>3a, <1>4, <1>5, <2>1 DEF FailedSteps
  <1>6. CASE crypto.auditor # crypto.sealer
    <2>1. AuditVerify(chain, crypto.auditor) = {Numbered(chain, n) : n \in DOMAIN chain}
      BY <1>1, <1>6 DEF AuditVerify
    <2>2. \A n \in DOMAIN chain : Numbered(chain, n) = n - 1
      BY <1>2 DEF Numbered
    <2>3. AuditVerify(chain, crypto.auditor) = {n - 1 : n \in DOMAIN chain}
      BY <2>1, <2>2
    <2>4. AuditVerify(chain, crypto.auditor) \cup RevealMismatches(chain)
            \cup TrajectoryMismatches(chain) = {n - 1 : n \in DOMAIN chain}
          /\ {n - 1 : n \in DOMAIN chain} # {}
      BY <1>1, <1>3, <1>3a, <2>3
    <2>. QED  BY <1>6, <2>4 DEF FailedSteps
  <1>. QED  BY <1>5, <1>6

LEMMA BothAuditors == ASSUME SealInv PROVE AuditorsAgree
  <1>1. SUFFICES ASSUME verdict.received PROVE
          /\ AuditPassed /\ revealed # <<>> => ReplayAudit(revealed).passed
          /\ edits = 0 =>
                /\ ReplayAudit(revealed) = [passed |-> TRUE, dialect |-> crypto.sealer]
                /\ verdict.failed = IF crypto.auditor = crypto.sealer THEN {}
                                    ELSE {n - 1 : n \in DOMAIN chain}
    BY DEF AuditorsAgree
  <1>2. verdict.failed = FailedSteps(revealed) /\ chain # <<>> /\ (edits = 0 => revealed = chain)
    BY <1>1 DEF SealInv, VerdictInv
  <1>3. ASSUME AuditPassed, revealed # <<>> PROVE ReplayAudit(revealed).passed
    <2>1. \A i \in DOMAIN revealed :
             Verify(crypto.auditor, revealed[i].payload, revealed[i].nonce, revealed[i].commit)
      BY <1>2, <1>3, NothingFound DEF AuditPassed
    <2>2. Resealed(revealed, crypto.auditor) = DOMAIN revealed
      BY <2>1 DEF Resealed
    <2>3. Resealed(revealed, "reference") \cup Resealed(revealed, "book") = DOMAIN revealed
      BY <2>2 DEF Resealed, SealInv, ChainInv, Dialects
    <2>. QED  BY <1>3, <2>3 DEF ReplayAudit
  <1>4. ASSUME edits = 0
        PROVE  /\ ReplayAudit(revealed) = [passed |-> TRUE, dialect |-> crypto.sealer]
               /\ verdict.failed = IF crypto.auditor = crypto.sealer THEN {}
                                   ELSE {n - 1 : n \in DOMAIN chain}
    BY <1>2, <1>4, UnchangedReplays, UnchangedFails DEF SealInv
  <1>. QED  BY <1>3, <1>4

\* Whatever a log holds, however long it is and however often what is revealed
\* of it was changed and made consistent again: every record a passed audit saw
\* under the number of a step whose commit arrived with its turn is the sealed
\* record of that step, and, with the key known, the reveal begins with a
\* declaration of that key (audit.py, audit_verify, _reveal_mismatches and
\* exchange_audits).  It says nothing of a step that is left out, which the audit
\* does not look for.
THEOREM PassedWasPlayed == SealSpec => []PassedIsPlayed
  <1>1. SealInit => SealInv
    BY SealInitInv
  <1>2. SealInv /\ [SealNext]_sealVars => SealInv'
    BY SealStepKeeps
  <1>3. SealInv => PassedIsPlayed
    BY PassedIsSealed DEF PassedIsPlayed
  <1>. QED  BY <1>1, <1>2, <1>3, PTL DEF SealSpec

\* The opponent's audit and the replay auditor agree on every log: what passed
\* replays, and an unchanged log replays under the dialect that sealed it, while
\* its live audit passes exactly when both peers seal alike and otherwise fails
\* at every step (audit.py, audit_verify; replay_verify.py, audit_records).
THEOREM AuditorsAlwaysAgree == SealSpec => []AuditorsAgree
  <1>1. SealInit => SealInv
    BY SealInitInv
  <1>2. SealInv /\ [SealNext]_sealVars => SealInv'
    BY SealStepKeeps
  <1>3. SealInv => AuditorsAgree
    BY BothAuditors
  <1>. QED  BY <1>1, <1>2, <1>3, PTL DEF SealSpec

-----------------------------------------------------------------------------
(* Sums over the cells a claim points to.                                  *)

\* The element a fold takes out next.
Pick(T) == CHOOSE x \in T : TRUE

IsSum(g, f, S) ==
    g = [T \in SUBSET S |-> IF T = {} THEN 0 ELSE f[Pick(T)] + g[T \ {Pick(T)}]]

\* What holds of the empty set and comes with the element that is taken out
\* holds of every finite set.
LEMMA ByElements ==
    ASSUME NEW S, IsFiniteSet(S), NEW G, {} \in G,
           \A T \in SUBSET S : T # {} /\ T \ {Pick(T)} \in G => T \in G
    PROVE  \A T \in SUBSET S : T \in G
  <1>1. PICK sizes : sizes = {n \in Nat : \E T \in SUBSET S : T \notin G /\ Cardinality(T) = n}
    OBVIOUS
  <1>2. \A T \in SUBSET S : IsFiniteSet(T) /\ Cardinality(T) \in Nat
    BY FS_Subset, FS_CardinalityType
  <1>3. SUFFICES ASSUME sizes # {} PROVE FALSE
    BY <1>1, <1>2
  <1>4. PICK n \in sizes : \A k \in sizes : n <= k
    BY <1>1, <1>3, LeastOf
  <1>5. PICK T \in SUBSET S : T \notin G /\ Cardinality(T) = n
    BY <1>1, <1>4
  <1>6. T # {} /\ Pick(T) \in T
    <2>1. T # {}
      BY <1>5
    <2>. QED  BY <2>1 DEF Pick
  <1>7. T \ {Pick(T)} \in SUBSET S /\ Cardinality(T \ {Pick(T)}) = n - 1
    BY <1>2, <1>5, <1>6, FS_RemoveElement
  <1>8. n - 1 \in sizes => FALSE
    BY <1>1, <1>4
  <1>9. n - 1 \in Nat
    BY <1>2, <1>7
  <1>. QED  BY <1>1, <1>5, <1>6, <1>7, <1>8, <1>9

\* The same over the subsets of up to n elements.
IsSumTo(g, f, S, n) ==
    g = [T \in {U \in SUBSET S : Cardinality(U) <= n} |->
            IF T = {} THEN 0 ELSE f[Pick(T)] + g[T \ {Pick(T)}]]

\* The recursion of the fold exists.
LEMMA SumsTo ==
    ASSUME NEW S, IsFiniteSet(S), NEW f, NEW n \in Nat
    PROVE  \E g : IsSumTo(g, f, S, n)
  <1> DEFINE Grows(m) == \E g : IsSumTo(g, f, S, m)
             Stuck == {m \in Nat : ~Grows(m)}
  <1>1. SUFFICES ASSUME Stuck # {} PROVE FALSE
    BY <1>1
  <1>2. PICK m \in Stuck : \A j \in Stuck : m <= j
    BY <1>1, LeastOf
  <1>3. \A T \in SUBSET S : IsFiniteSet(T) /\ Cardinality(T) \in Nat
    BY FS_Subset, FS_CardinalityType
  <1>4. CASE m = 0
    <2>1. PICK g : g = [T \in {U \in SUBSET S : Cardinality(U) <= 0} |-> 0]
      OBVIOUS
    <2>2. \A T \in {U \in SUBSET S : Cardinality(U) <= 0} : T = {}
      BY <1>3, FS_EmptySet
    <2>3. IsSumTo(g, f, S, 0)
      BY <2>1, <2>2 DEF IsSumTo
    <2>. QED  BY <1>2, <1>4, <2>3
  <1>5. CASE m > 0
    <2>1. m - 1 \in Nat /\ Grows(m - 1)
      BY <1>2, <1>5
    <2>2. PICK g : IsSumTo(g, f, S, m - 1)
      BY <2>1
    <2>3. PICK D : D = {U \in SUBSET S : Cardinality(U) <= m - 1}
      OBVIOUS
    <2>4. PICK E : E = {U \in SUBSET S : Cardinality(U) <= m}
      OBVIOUS
    <2>5. PICK h : h = [T \in E |->
                          IF T \in D THEN g[T] ELSE f[Pick(T)] + g[T \ {Pick(T)}]]
      OBVIOUS
    <2>6. g = [T \in D |-> IF T = {} THEN 0 ELSE f[Pick(T)] + g[T \ {Pick(T)}]]
      BY <2>2, <2>3 DEF IsSumTo
    <2>7. \A T \in E : T # {} => T \ {Pick(T)} \in D
      <3>1. ASSUME NEW T \in E, T # {} PROVE T \ {Pick(T)} \in D
        <4>1. Pick(T) \in T
          BY <3>1 DEF Pick
        <4>2. T \in SUBSET S /\ IsFiniteSet(T) /\ Cardinality(T) \in Nat /\ Cardinality(T) <= m
          BY <1>3, <2>4
        <4>3. Cardinality(T \ {Pick(T)}) = Cardinality(T) - 1
          BY <4>1, <4>2, FS_RemoveElement
        <4>. QED  BY <2>1, <2>3, <4>2, <4>3
      <3>. QED  BY <3>1
    <2>8. \A T \in D : T \in E
      BY <1>3, <2>1, <2>3, <2>4
    <2>9. {} \in D
      BY <2>1, <2>3, FS_EmptySet
    <2>10. \A T \in E : h[T] = IF T = {} THEN 0 ELSE f[Pick(T)] + h[T \ {Pick(T)}]
      BY <2>5, <2>6, <2>7, <2>8, <2>9
    <2>11. h = [T \in E |-> IF T = {} THEN 0 ELSE f[Pick(T)] + h[T \ {Pick(T)}]]
      BY <2>5, <2>10
    <2>12. IsSumTo(h, f, S, m)
      BY <2>4, <2>11 DEF IsSumTo
    <2>. QED  BY <1>2, <2>12
  <1>. QED  BY <1>2, <1>4, <1>5

\* A fold, element by element.
Adds(g, f, S) ==
    /\ Inside(f, S) = g[S]
    /\ \A T \in SUBSET S : g[T] = IF T = {} THEN 0 ELSE f[Pick(T)] + g[T \ {Pick(T)}]

LEMMA InsideIs == ASSUME NEW S, IsFiniteSet(S), NEW f PROVE \E g : Adds(g, f, S)
  <1>1. Cardinality(S) \in Nat
    BY FS_CardinalityType
  <1>2. PICK g : IsSumTo(g, f, S, Cardinality(S))
    BY <1>1, SumsTo
  <1>3. {U \in SUBSET S : Cardinality(U) <= Cardinality(S)} = SUBSET S
    BY FS_Subset
  <1>4. \E h : IsSum(h, f, S)
    BY <1>2, <1>3 DEF IsSum, IsSumTo
  <1>5. PICK h : h = CHOOSE k : IsSum(k, f, S)
    OBVIOUS
  <1>6. IsSum(h, f, S)
    BY <1>4, <1>5
  <1>7. Inside(f, S) = h[S]
    <2>1. Inside(f, S) = (CHOOSE k : IsSum(k, f, S))[S]
      BY Zenon DEF Inside, IsSum, Pick, MapThenSumSet, MapThenFoldSet
    <2>. QED  BY <1>5, <2>1
  <1>8. \A T \in SUBSET S : h[T] = IF T = {} THEN 0 ELSE f[Pick(T)] + h[T \ {Pick(T)}]
    BY <1>6 DEF IsSum
  <1>. QED  BY <1>7, <1>8 DEF Adds
\* Cells weighed alike: the sum is weighed so too.
LEMMA InsideScales ==
    ASSUME NEW S, IsFiniteSet(S), NEW f, NEW h, NEW k \in Nat,
           \A c \in S : f[c] \in Nat /\ h[c] = f[c] * k
    PROVE  Inside(f, S) \in Nat /\ Inside(h, S) = Inside(f, S) * k
  <1>1. PICK g : Adds(g, f, S)
    BY InsideIs
  <1>2. PICK e : Adds(e, h, S)
    BY InsideIs
  <1>3. PICK G : G = {T \in SUBSET S : g[T] \in Nat /\ e[T] = g[T] * k}
    OBVIOUS
  <1>4. {} \in G
    <2>1. g[{}] = 0 /\ e[{}] = 0
      BY <1>1, <1>2 DEF Adds
    <2>. QED  BY <1>3, <2>1
  <1>5. ASSUME NEW T \in SUBSET S, T # {}, T \ {Pick(T)} \in G PROVE T \in G
    <2>1. PICK x : x = Pick(T)
      OBVIOUS
    <2>2. x \in T
      BY <1>5, <2>1 DEF Pick
    <2>3. f[x] \in Nat /\ h[x] = f[x] * k
      BY <2>2
    <2>4. PICK a : a = g[T \ {x}]
      OBVIOUS
    <2>5. a \in Nat /\ e[T \ {x}] = a * k
      BY <1>3, <1>5, <2>1, <2>4
    <2>6. g[T] = f[x] + a /\ e[T] = h[x] + a * k
      BY <1>1, <1>2, <1>5, <2>1, <2>4, <2>5 DEF Adds
    <2>7. (f[x] + a) * k = f[x] * k + a * k /\ f[x] + a \in Nat
      BY <2>3, <2>5
    <2>. QED  BY <1>3, <2>3, <2>6, <2>7
  <1>6. \A T \in SUBSET S : T \in G
    BY <1>4, <1>5, ByElements
  <1>. QED  BY <1>1, <1>2, <1>3, <1>6 DEF Adds

\* The posteriors a hint meets put no more than Mass on any claim.
LEMMA InsideBounded ==
    ASSUME NEW S \in SUBSET Squares, IsFiniteSet(S), NEW walls, NEW f \in Posteriors(walls)
    PROVE  /\ \A c \in Squares : f[c] \in Nat
           /\ Inside(f, S) \in 0 .. Mass
  <1>1. PICK one \in Squares, two \in Squares, m \in 0 .. Mass :
           f = [c \in Squares |-> (IF c = one THEN m ELSE 0)
                                    + (IF c = two THEN Mass - m ELSE 0)]
    BY DEF Posteriors
  <1>2. Mass \in Nat /\ m \in Nat /\ Mass - m \in Nat
    BY TrustAssumption
  <1>3. \A c \in Squares : f[c] = (IF c = one THEN m ELSE 0) + (IF c = two THEN Mass - m ELSE 0)
    BY <1>1
  <1>4. \A c \in Squares : f[c] \in Nat
    BY <1>2, <1>3
  <1>5. PICK g : Adds(g, f, S)
    BY InsideIs
  <1>6. PICK G : G = {T \in SUBSET S : g[T] = (IF one \in T THEN m ELSE 0)
                                              + (IF two \in T THEN Mass - m ELSE 0)}
    OBVIOUS
  <1>7. {} \in G
    <2>1. g[{}] = 0
      BY <1>5 DEF Adds
    <2>. QED  BY <1>6, <2>1
  <1>8. ASSUME NEW T \in SUBSET S, T # {}, T \ {Pick(T)} \in G PROVE T \in G
    <2>1. PICK x : x = Pick(T)
      OBVIOUS
    <2>2. x \in T
      BY <1>8, <2>1 DEF Pick
    <2>3. PICK U : U = T \ {x}
      OBVIOUS
    <2>4. g[U] = (IF one \in U THEN m ELSE 0) + (IF two \in U THEN Mass - m ELSE 0)
      BY <1>6, <1>8, <2>1, <2>3
    <2>5. g[T] = f[x] + g[U]
      BY <1>5, <1>8, <2>1, <2>3 DEF Adds
    <2>6. f[x] = (IF x = one THEN m ELSE 0) + (IF x = two THEN Mass - m ELSE 0)
      BY <1>3, <2>2
    <2>7. /\ one \in U <=> one \in T /\ one # x
          /\ two \in U <=> two \in T /\ two # x
      BY <2>3
    <2>8. g[T] = (IF one \in T THEN m ELSE 0) + (IF two \in T THEN Mass - m ELSE 0)
      BY <1>2, <2>2, <2>4, <2>5, <2>6, <2>7
    <2>. QED  BY <1>6, <2>8
  <1>9. \A T \in SUBSET S : T \in G
    BY <1>7, <1>8, ByElements
  <1>10. g[S] = (IF one \in S THEN m ELSE 0) + (IF two \in S THEN Mass - m ELSE 0)
    BY <1>6, <1>9
  <1>. QED  BY <1>2, <1>4, <1>5, <1>10 DEF Adds

\* The board.
LEMMA BoardIs ==
    /\ IsFiniteSet(Squares)
    /\ Edge * Edge \in Nat
    /\ Cardinality(Squares) = Edge * Edge
    /\ \A S \in SUBSET Squares :
          IsFiniteSet(S) /\ Cardinality(S) \in 0 .. Edge * Edge /\ (Cardinality(S) = 0 <=> S = {})
  <1>1. Edge \in Nat \ {0}
    BY TrustAssumption
  <1>2. IsFiniteSet(0 .. Edge - 1) /\ Cardinality(0 .. Edge - 1) = Edge
    BY <1>1, FS_Interval
  <1>3. IsFiniteSet(Squares) /\ Cardinality(Squares) = Edge * Edge
    BY <1>2, FS_Product DEF Squares
  <1>4. Edge * Edge \in Nat
    BY <1>1
  <1>5. ASSUME NEW S \in SUBSET Squares
        PROVE  IsFiniteSet(S) /\ Cardinality(S) \in 0 .. Edge * Edge
                 /\ (Cardinality(S) = 0 <=> S = {})
    <2>1. IsFiniteSet(S) /\ Cardinality(S) <= Edge * Edge
      BY <1>3, FS_Subset
    <2>2. Cardinality(S) \in Nat
      BY <2>1, FS_CardinalityType
    <2>3. Cardinality(S) = 0 <=> S = {}
      BY <2>1, FS_EmptySet
    <2>. QED  BY <1>4, <2>1, <2>2, <2>3
  <1>. QED  BY <1>3, <1>4, <1>5

-----------------------------------------------------------------------------
(* The ledger.                                                             *)

PowersTo(g, n) == g = [i \in 0 .. n |-> IF i = 0 THEN 1 ELSE OutOf * g[i - 1]]

LEMMA SomePowers == ASSUME NEW n \in Nat PROVE \E g : PowersTo(g, n)
  <1> DEFINE Grows(m) == \E g : PowersTo(g, m)
             Stuck == {m \in Nat : ~Grows(m)}
  <1>1. SUFFICES ASSUME Stuck # {} PROVE FALSE
    BY <1>1
  <1>2. PICK m \in Stuck : \A j \in Stuck : m <= j
    BY <1>1, LeastOf
  <1>3. CASE m = 0
    <2>1. PICK g : g = [i \in 0 .. 0 |-> 1]
      OBVIOUS
    <2>2. PowersTo(g, 0)
      BY <2>1 DEF PowersTo
    <2>. QED  BY <1>2, <1>3, <2>2
  <1>4. CASE m > 0
    <2>1. m - 1 \in Nat /\ Grows(m - 1)
      BY <1>2, <1>4
    <2>2. PICK g : PowersTo(g, m - 1)
      BY <2>1
    <2>3. PICK h : h = [i \in 0 .. m |-> IF i = m THEN OutOf * g[m - 1] ELSE g[i]]
      OBVIOUS
    <2>4. \A i \in 0 .. m : h[i] = IF i = 0 THEN 1 ELSE OutOf * h[i - 1]
      BY <1>4, <2>1, <2>2, <2>3 DEF PowersTo
    <2>5. PowersTo(h, m)
      BY <2>3, <2>4 DEF PowersTo
    <2>. QED  BY <1>2, <2>5
  <1>. QED  BY <1>2, <1>3, <1>4

LEMMA SamePowers ==
    ASSUME NEW n \in Nat, NEW m \in Nat, m >= n, NEW g, PowersTo(g, n), NEW h, PowersTo(h, m)
    PROVE  \A i \in 0 .. n : g[i] = h[i]
  <1>1. PICK T : T = {i \in 0 .. n : g[i] # h[i]}
    OBVIOUS
  <1>2. SUFFICES ASSUME T # {} PROVE FALSE
    BY <1>1
  <1>3. PICK i \in T : \A j \in T : i <= j
    BY <1>1, <1>2, LeastOf
  <1>4. i \in 0 .. n /\ i \in 0 .. m /\ g[i] # h[i]
    BY <1>1
  <1>5. g[i] = IF i = 0 THEN 1 ELSE OutOf * g[i - 1]
    BY <1>4 DEF PowersTo
  <1>6. h[i] = IF i = 0 THEN 1 ELSE OutOf * h[i - 1]
    BY <1>4 DEF PowersTo
  <1>7. i # 0 => g[i - 1] = h[i - 1]
    BY <1>1, <1>3, <1>4
  <1>. QED  BY <1>4, <1>5, <1>6, <1>7

LEMMA PowerIs ==
    \A n \in Nat : Power[n] \in Nat \ {0} /\ (n > 0 => Power[n] = OutOf * Power[n - 1])
  <1>1. PICK f : f = [n \in Nat |-> (CHOOSE g : PowersTo(g, n))[n]]
    OBVIOUS
  <1>2. \A n \in Nat : \E g : PowersTo(g, n) /\ f[n] = g[n]
    BY <1>1, SomePowers
  <1>3. ASSUME NEW n \in Nat PROVE f[n] = IF n = 0 THEN 1 ELSE OutOf * f[n - 1]
    <2>1. PICK g : PowersTo(g, n) /\ f[n] = g[n]
      BY <1>2
    <2>2. g[n] = IF n = 0 THEN 1 ELSE OutOf * g[n - 1]
      BY <2>1 DEF PowersTo
    <2>3. CASE n > 0
      <3>1. n - 1 \in Nat
        BY <2>3
      <3>2. PICK h : PowersTo(h, n - 1) /\ f[n - 1] = h[n - 1]
        BY <1>2, <3>1
      <3>3. h[n - 1] = g[n - 1]
        BY <2>1, <3>1, <3>2, SamePowers
      <3>. QED  BY <2>1, <2>2, <2>3, <3>2, <3>3
    <2>. QED  BY <2>1, <2>2, <2>3
  <1>4. f = [n \in Nat |-> IF n = 0 THEN 1 ELSE OutOf * f[n - 1]]
    BY <1>1, <1>3
  <1>5. Power = [n \in Nat |-> IF n = 0 THEN 1 ELSE OutOf * Power[n - 1]]
    BY <1>4, Zenon DEF Power
  <1>6. PICK p : p = Power
    OBVIOUS
  <1>7. \A n \in Nat : p[n] = IF n = 0 THEN 1 ELSE OutOf * p[n - 1]
    BY <1>5, <1>6
  <1>8. OutOf \in Nat \ {0}
    BY TrustAssumption DEF LedgerTerms
  <1>9. PICK T : T = {n \in Nat : p[n] \notin Nat \ {0}}
    OBVIOUS
  <1>10. T = {}
    <2>1. SUFFICES ASSUME T # {} PROVE FALSE
      OBVIOUS
    <2>2. PICK n \in T : \A j \in T : n <= j
      BY <1>9, <2>1, LeastOf
    <2>3. n \in Nat /\ p[n] \notin Nat \ {0}
      BY <1>9
    <2>4. n # 0
      BY <1>7, <2>3
    <2>5. n - 1 \in Nat /\ p[n - 1] \in Nat \ {0}
      BY <1>9, <2>2, <2>3, <2>4
    <2>6. p[n] = OutOf * p[n - 1]
      BY <1>7, <2>3, <2>4
    <2>. QED  BY <1>8, <2>3, <2>5, <2>6
  <1>. QED  BY <1>6, <1>7, <1>9, <1>10

\* What an update leaves of a count of at least OutOf * p.
LEMMA CountsKeep ==
    ASSUME NEW count \in Nat, NEW p \in Nat, count >= OutOf * p, NEW evidence \in Nat
    PROVE  Counts(count, evidence) \in Nat /\ Counts(count, evidence) >= p
  <1>1. OutOf \in Nat \ {0} /\ Kept \in Nat \ {0}
    BY TrustAssumption DEF LedgerTerms
  <1>2. PICK x : x = Kept * count
    OBVIOUS
  <1>3. x \in Nat /\ x >= count
    <2>1. PICK k \in Nat : Kept = k + 1
      BY <1>1
    <2>2. (k + 1) * count = k * count + count /\ k * count \in Nat
      OBVIOUS
    <2>. QED  BY <1>2, <2>1, <2>2
  <1>4. x >= OutOf * p
    <2>1. OutOf * p \in Nat
      BY <1>1
    <2>. QED  BY <1>3, <2>1
  <1>5. x \div OutOf \in Nat /\ x \div OutOf >= p
    <2>1. PICK q, r : q = x \div OutOf /\ r = x % OutOf
      OBVIOUS
    <2>2. q \in Nat /\ r \in 0 .. OutOf - 1 /\ x = OutOf * q + r
      BY <1>1, <1>3, <2>1
    <2>3. ASSUME q < p PROVE FALSE
      <3>1. PICK d \in Nat : p = q + 1 + d
        BY <2>2, <2>3
      <3>2. OutOf * (q + 1 + d) = OutOf * q + OutOf + OutOf * d /\ OutOf * d \in Nat
              /\ OutOf * q \in Nat
        BY <1>1, <2>2
      <3>. QED  BY <1>1, <1>4, <2>2, <3>1, <3>2
    <2>. QED  BY <2>1, <2>2, <2>3
  <1>. QED  BY <1>2, <1>5 DEF Counts

LEMMA KeepsFunction == ASSUME NEW f PROVE Stored(f) = f
  BY DEF Stored

\* What a hint meets.
LEMMA ReadingsAre ==
    ASSUME NEW walls \in Maskings, NEW reading \in Readings[walls]
    PROVE  reading.belief \in Posteriors(walls) /\ reading.cells \in SUBSET Squares
  <1>1. Readings[walls] = ReadingsOf(walls)
    BY KeepsFunction DEF Readings
  <1>2. PICK belief \in Posteriors(walls), trail \in Trails, claim \in Claims :
           reading = [belief |-> Stored(belief), cells |-> Footprint(claim, trail, belief) \ walls]
    BY <1>1 DEF ReadingsOf
  <1>3. reading.belief = belief
    BY <1>2, KeepsFunction
  <1>4. Footprint(claim, trail, belief) \in SUBSET Squares
    BY DEF Footprint
  <1>. QED  BY <1>2, <1>3, <1>4

\* As many hints as are still to come may each take a count down by the
\* forgetting factor, and it stays positive.
TrustInv ==
    /\ masked \in Maskings
    /\ hints \in 0 .. MaxHints
    /\ alpha \in Nat /\ alpha >= Power[MaxHints - hints]
    /\ beta \in Nat /\ beta >= Power[MaxHints - hints]

LEMMA MaskingsAre ==
    \A S : S \in Maskings <=> S \in SUBSET Squares /\ Cardinality(S) \in 0 .. MaxMasked
  BY DEF Maskings, kSubset

\* The ledger of a sub-game that starts.
LEMMA FreshIs ==
    /\ FreshLedger.a \in Nat /\ FreshLedger.a >= Power[MaxHints]
    /\ FreshLedger.b \in Nat /\ FreshLedger.b >= Power[MaxHints]
    /\ {} \in Maskings /\ 0 \in 0 .. MaxHints /\ MaxHints - 0 = MaxHints
  <1>1. /\ HintAlpha \in Nat \ {0} /\ HintBeta \in Nat \ {0} /\ Mass \in Nat \ {0}
        /\ MaxHints \in Nat /\ MaxMasked \in Nat
    BY TrustAssumption DEF LedgerTerms
  <1>2. PICK p : p = Power[MaxHints]
    OBVIOUS
  <1>3. p \in Nat \ {0}
    BY <1>1, <1>2, PowerIs
  <1>4. \A k \in Nat \ {0}, n \in Nat : k * n \in Nat /\ k * n >= n
    <2>1. ASSUME NEW k \in Nat \ {0}, NEW n \in Nat PROVE k * n \in Nat /\ k * n >= n
      <3>1. PICK j \in Nat : k = j + 1
        OBVIOUS
      <3>2. (j + 1) * n = j * n + n /\ j * n \in Nat
        OBVIOUS
      <3>. QED  BY <3>1, <3>2
    <2>. QED  BY <2>1
  <1>5. PICK u : u = Mass * p
    OBVIOUS
  <1>6. u \in Nat /\ u >= p
    BY <1>1, <1>3, <1>4, <1>5
  <1>7. HintAlpha * u \in Nat /\ HintAlpha * u >= u /\ HintBeta * u \in Nat /\ HintBeta * u >= u
    BY <1>1, <1>4, <1>6
  <1>8. Unit = u
    BY <1>2, <1>5 DEF Unit
  <1>9. FreshLedger.a = HintAlpha * u /\ FreshLedger.b = HintBeta * u
    BY <1>8 DEF FreshLedger
  <1>10. {} \in Maskings
    BY <1>1, MaskingsAre, FS_EmptySet
  <1>. QED  BY <1>1, <1>2, <1>3, <1>6, <1>7, <1>9, <1>10

LEMMA MaskTrust == ASSUME TrustInv, NEW cell \in Squares, Masks(cell) PROVE TrustInv'
  <1>1. masked \in SUBSET Squares /\ Cardinality(masked) \in 0 .. MaxMasked
    BY MaskingsAre DEF TrustInv
  <1>2. MaxMasked \in Nat
    BY TrustAssumption
  <1>3. IsFiniteSet(masked)
    BY <1>1, BoardIs
  <1>4. Cardinality(masked \cup {cell}) = Cardinality(masked) + 1
    BY <1>3, FS_AddElement DEF Masks
  <1>5. Cardinality(masked) < MaxMasked
    BY DEF Masks
  <1>6. masked \cup {cell} \in SUBSET Squares /\ Cardinality(masked \cup {cell}) \in 0 .. MaxMasked
    BY <1>1, <1>2, <1>4, <1>5
  <1>7. masked \cup {cell} \in Maskings
    BY <1>6, MaskingsAre
  <1>. QED  BY <1>7 DEF TrustInv, Masks

LEMMA HintTrust == ASSUME TrustInv, HearsHint PROVE TrustInv'
  <1>1. /\ MaxHints \in Nat /\ hints \in Nat /\ hints < MaxHints
        /\ masked' = masked /\ hints' = hints + 1
    BY TrustAssumption DEF TrustInv, HearsHint
  <1>2. PICK n \in Nat : MaxHints - hints = n + 1
    BY <1>1
  <1>3. MaxHints - hints' = n /\ hints' \in 0 .. MaxHints
    BY <1>1, <1>2
  <1>4. PICK p : p = Power[n]
    OBVIOUS
  <1>5. p \in Nat \ {0} /\ Power[n + 1] = OutOf * p
    <2>1. n + 1 \in Nat /\ n + 1 > 0 /\ n + 1 - 1 = n
      OBVIOUS
    <2>2. Power[n + 1] = OutOf * Power[n + 1 - 1]
      BY <2>1, PowerIs
    <2>. QED  BY <1>4, <2>1, <2>2, PowerIs
  <1>6. /\ alpha \in Nat /\ alpha >= OutOf * p
        /\ beta \in Nat /\ beta >= OutOf * p
    BY <1>2, <1>5 DEF TrustInv
  <1>7. PICK reading \in Readings[masked] : Fuses(reading)
    BY DEF HearsHint
  <1>8. reading.belief \in Posteriors(masked) /\ reading.cells \in SUBSET Squares
    BY <1>7, ReadingsAre DEF TrustInv
  <1>9. CASE UNCHANGED <<alpha, beta>>
    <2>1. OutOf * p >= p
      <3>1. PICK j \in Nat : OutOf = j + 1
        BY TrustAssumption DEF LedgerTerms
      <3>2. (j + 1) * p = j * p + p /\ j * p \in Nat
        BY <1>5
      <3>. QED  BY <1>5, <3>1, <3>2
    <2>2. OutOf * p \in Nat
      BY <1>5, TrustAssumption DEF LedgerTerms
    <2>3. alpha >= p /\ beta >= p
      BY <1>5, <1>6, <2>1, <2>2
    <2>. QED  BY <1>1, <1>3, <1>4, <1>6, <1>9, <2>3 DEF TrustInv
  <1>10. CASE ~UNCHANGED <<alpha, beta>>
    <2>1. PICK consistency : consistency = Inside(reading.belief, reading.cells) * Power[MaxHints]
      OBVIOUS
    <2>2. alpha' = Counts(alpha, consistency) /\ beta' = Counts(beta, Unit - consistency)
      BY <1>7, <1>10, <2>1 DEF Fuses
    <2>3. PICK i : i = Inside(reading.belief, reading.cells)
      OBVIOUS
    <2>4. i \in 0 .. Mass /\ Mass \in Nat
      BY <1>8, <2>3, BoardIs, InsideBounded, TrustAssumption
    <2>5. PICK q : q = Power[MaxHints]
      OBVIOUS
    <2>6. q \in Nat
      BY <1>1, <2>5, PowerIs
    <2>7. consistency \in Nat /\ Unit - consistency \in Nat
      <3>1. PICK d \in Nat : Mass = i + d
        BY <2>4
      <3>2. (i + d) * q = i * q + d * q /\ i * q \in Nat /\ d * q \in Nat
        BY <2>4, <2>6
      <3>3. Unit = Mass * q /\ consistency = i * q
        BY <2>1, <2>3, <2>5 DEF Unit
      <3>. QED  BY <3>1, <3>2, <3>3
    <2>8. alpha' \in Nat /\ alpha' >= p /\ beta' \in Nat /\ beta' >= p
      BY <1>5, <1>6, <2>2, <2>7, CountsKeep
    <2>. QED  BY <1>1, <1>3, <1>4, <2>8 DEF TrustInv
  <1>. QED  BY <1>9, <1>10

LEMMA TrustStep == TrustInv /\ [TrustNext]_trustVars => TrustInv'
  <1> SUFFICES ASSUME TrustInv, [TrustNext]_trustVars PROVE TrustInv'
    OBVIOUS
  <1>1. CASE Profiles
    BY <1>1, FreshIs DEF Profiles, TrustInv
  <1>2. CASE UNCHANGED trustVars
    BY <1>2 DEF trustVars, TrustInv
  <1>. QED  BY <1>1, <1>2, MaskTrust, HintTrust DEF TrustNext

-----------------------------------------------------------------------------
(* What a hint does to a posterior.                                        *)

LEMMA NatTimes == \A x, y \in Nat : x * y \in Nat /\ (x > 0 /\ y > 0 => x * y > 0)
  OBVIOUS

LEMMA MoreTimes == ASSUME NEW x \in Nat, NEW y \in Nat, x <= y, NEW z \in Nat PROVE x * z <= y * z
  <1>1. PICK d \in Nat : y = x + d
    OBVIOUS
  <1>2. (x + d) * z = x * z + d * z /\ x * z \in Nat /\ d * z \in Nat
    OBVIOUS
  <1>. QED  BY <1>1, <1>2

\* Both weights of a claim are positive, and which of them is the greater.
LEMMA WeightsAre ==
    ASSUME NEW cells \in SUBSET Squares, cells # {},
           NEW a \in Nat \ {0}, NEW b \in Nat \ {0}
    PROVE  /\ Weight(TRUE, cells, a, b) \in Nat \ {0}
           /\ Weight(FALSE, cells, a, b) \in Nat \ {0}
           /\ ~Inverts(cells, a, b) => Weight(TRUE, cells, a, b) >= Weight(FALSE, cells, a, b)
           /\ Inverts(cells, a, b) /\ Cardinality(cells) * Of >= Below * Edge * Edge =>
                 Weight(FALSE, cells, a, b) >= Weight(TRUE, cells, a, b)
  <1>1. PICK n, area : n = Cardinality(cells) /\ area = Edge * Edge
    OBVIOUS
  <1>2. area \in Nat /\ n \in Nat \ {0} /\ n <= area
    BY <1>1, BoardIs
  <1>3. a * n \in Nat \ {0} /\ b * n \in Nat \ {0} /\ a * area \in Nat \ {0}
    BY <1>2, NatTimes
  <1>4. CASE ~Inverts(cells, a, b)
    <2>1. a * Edge * Edge = a * area
      BY <1>1, TrustAssumption
    <2>2. Weight(TRUE, cells, a, b) = a * area + b * n
      BY <1>1, <1>4, <2>1 DEF Weight
    <2>3. Weight(FALSE, cells, a, b) = b * n
      BY <1>1, <1>4 DEF Weight
    <2>4. PICK u \in Nat \ {0}, v \in Nat \ {0} : u = a * area /\ v = b * n
      BY <1>3
    <2>5. Weight(TRUE, cells, a, b) = u + v /\ Weight(FALSE, cells, a, b) = v
      BY <2>2, <2>3, <2>4
    <2>6. /\ Weight(TRUE, cells, a, b) \in Nat \ {0} /\ Weight(FALSE, cells, a, b) \in Nat \ {0}
          /\ Weight(TRUE, cells, a, b) >= Weight(FALSE, cells, a, b)
      <3>1. u + v \in Nat \ {0} /\ u + v >= v
        OBVIOUS
      <3>. QED  BY <2>5, <3>1, Zenon
    <2>. QED  BY <1>4, <2>6, Zenon
  <1>5. CASE Inverts(cells, a, b)
    <2>1. Weight(TRUE, cells, a, b) = a * (area - n)
      BY <1>1, <1>5 DEF Weight
    <2>2. Weight(FALSE, cells, a, b) = b * n
      BY <1>1, <1>5 DEF Weight
    <2>3. n < area /\ a * Of < Below * (a + b)
      BY <1>1, <1>5 DEF Inverts
    <2>4. PICK d \in Nat \ {0} : area = n + d
      BY <1>2, <2>3
    <2>5. a * d \in Nat \ {0} /\ area - n = d /\ a * (n + d) = a * n + a * d
      BY <1>2, <2>4, NatTimes
    <2>6. ASSUME n * Of >= Below * Edge * Edge PROVE b * n >= a * d
      <3>1. Below \in Nat /\ Of \in Nat \ {0} /\ Edge \in Nat
        BY TrustAssumption
      <3>2. Below * Edge * Edge = Below * area
        BY <1>1, <3>1
      <3>3. PICK s \in Nat : s = a + b
        OBVIOUS
      <3>4. (Below * area) * s <= (n * Of) * s
        BY <1>2, <2>6, <3>1, <3>2, MoreTimes, NatTimes
      <3>5. (a * Of) * area <= (Below * s) * area
        <4>1. a * Of \in Nat /\ Below * s \in Nat /\ a * Of <= Below * s
          BY <2>3, <3>1, <3>3
        <4>. QED  BY <1>2, <4>1, MoreTimes
      <3>6. (Below * area) * s = (Below * s) * area
        BY <1>2, <3>1
      <3>7. (a * Of) * area = (a * area) * Of /\ (n * Of) * s = (s * n) * Of
        BY <1>2, <3>1
      <3>8. (a * area) * Of <= (s * n) * Of
        <4>1. (a * Of) * area \in Nat /\ (Below * s) * area \in Nat /\ (n * Of) * s \in Nat
          BY <1>2, <3>1, NatTimes
        <4>. QED  BY <3>4, <3>5, <3>6, <3>7, <4>1
      <3>9. a * area <= s * n
        <4>1. PICK u \in Nat, v \in Nat : u = a * area /\ v = s * n
          BY <1>2, NatTimes
        <4>2. ASSUME v < u PROVE FALSE
          <5>1. PICK e \in Nat \ {0} : u = v + e
            BY <4>2
          <5>2. (v + e) * Of = v * Of + e * Of /\ v * Of \in Nat /\ e * Of \in Nat \ {0}
            BY <3>1, NatTimes
          <5>. QED  BY <3>8, <4>1, <5>1, <5>2
        <4>. QED  BY <4>1, <4>2
      <3>10. s * n = a * n + b * n
        BY <1>2, <3>3
      <3>. QED  BY <1>3, <2>4, <2>5, <3>9, <3>10
    <2>7. PICK u \in Nat \ {0}, v \in Nat \ {0} : u = a * d /\ v = b * n
      BY <1>3, <2>5
    <2>8. Weight(TRUE, cells, a, b) = u /\ Weight(FALSE, cells, a, b) = v
      BY <2>1, <2>2, <2>5, <2>7
    <2>9. Cardinality(cells) * Of >= Below * Edge * Edge => v >= u
      BY <1>1, <2>6, <2>7
    <2>10. Weight(TRUE, cells, a, b) \in Nat \ {0} /\ Weight(FALSE, cells, a, b) \in Nat \ {0}
      BY <2>7, <2>8
    <2>11. Cardinality(cells) * Of >= Below * Edge * Edge =>
              Weight(FALSE, cells, a, b) >= Weight(TRUE, cells, a, b)
      BY <2>8, <2>9, Zenon
    <2>. QED  BY <1>5, <2>10, <2>11, Zenon
  <1>. QED  BY <1>4, <1>5

\* HintsBounded, of engine.py and reliability.py: whatever was said and
\* believed before, on every board, with every prior, forgetting factor and
\* threshold, words rule out no cell and bring none back, a trusted claim loses
\* nothing and a caught liar's gains nothing.
THEOREM WordsOnlyTilt == TrustSpec => []HintsBounded
  <1>1. TrustInit => TrustInv
    BY FreshIs DEF TrustInit, TrustInv
  <1>2. TrustInv => HintsBounded
    <2> SUFFICES ASSUME TrustInv, NEW reading \in Readings[masked],
                        NEW cells, cells = reading.cells, cells # {},
                        NEW belief, belief = reading.belief,
                        NEW fused, fused = Fused(belief, cells, alpha, beta)
                 PROVE  /\ \A c \in Squares : fused[c] > 0 <=> belief[c] > 0
                        /\ ~Inverts(cells, alpha, beta) =>
                              Inside(fused, cells) * Inside(belief, Squares \ cells)
                                >= Inside(fused, Squares \ cells) * Inside(belief, cells)
                        /\ Inverts(cells, alpha, beta)
                              /\ Cardinality(cells) * Of >= Below * Edge * Edge =>
                              Inside(fused, Squares \ cells) * Inside(belief, cells)
                                >= Inside(fused, cells) * Inside(belief, Squares \ cells)
      BY DEF HintsBounded
    <2>1. belief \in Posteriors(masked) /\ cells \in SUBSET Squares /\ Squares \ cells \in SUBSET Squares
      BY ReadingsAre DEF TrustInv
    <2>2. IsFiniteSet(cells) /\ IsFiniteSet(Squares \ cells)
      BY <2>1, BoardIs
    <2>3. \A c \in Squares : belief[c] \in Nat
      BY <2>1, <2>2, InsideBounded
    <2>4. alpha \in Nat \ {0} /\ beta \in Nat \ {0}
      <3>1. MaxHints \in Nat
        BY TrustAssumption
      <3>2. MaxHints - hints \in Nat
        BY <3>1 DEF TrustInv
      <3>3. Power[MaxHints - hints] \in Nat \ {0}
        BY <3>2, PowerIs
      <3>. QED  BY <3>3 DEF TrustInv
    <2>5. PICK i, o : i = Weight(TRUE, cells, alpha, beta) /\ o = Weight(FALSE, cells, alpha, beta)
      OBVIOUS
    <2>6. /\ i \in Nat \ {0} /\ o \in Nat \ {0}
          /\ ~Inverts(cells, alpha, beta) => i >= o
          /\ Inverts(cells, alpha, beta) /\ Cardinality(cells) * Of >= Below * Edge * Edge => o >= i
      BY <2>1, <2>4, <2>5, WeightsAre
    <2>7. \A c \in Squares : fused[c] = belief[c] * (IF c \in cells THEN i ELSE o)
      <3>1. fused = Stored([c \in Squares |-> belief[c] * (IF c \in cells THEN i ELSE o)])
        BY <2>5 DEF Fused
      <3>. QED  BY <3>1, KeepsFunction
    <2>8. \A c \in Squares : fused[c] > 0 <=> belief[c] > 0
      <3>1. ASSUME NEW x \in Nat, NEW k \in Nat \ {0} PROVE x * k > 0 <=> x > 0
        OBVIOUS
      <3>. QED  BY <2>3, <2>6, <2>7, <3>1
    <2>9. PICK x, y : x = Inside(belief, cells) /\ y = Inside(belief, Squares \ cells)
      OBVIOUS
    <2>10. x \in Nat /\ Inside(fused, cells) = x * i
      <3>1. \A c \in cells : belief[c] \in Nat /\ fused[c] = belief[c] * i
        BY <2>1, <2>3, <2>7
      <3>. QED  BY <2>2, <2>6, <2>9, <3>1, InsideScales
    <2>11. y \in Nat /\ Inside(fused, Squares \ cells) = y * o
      <3>1. \A c \in Squares \ cells : belief[c] \in Nat /\ fused[c] = belief[c] * o
        BY <2>3, <2>7
      <3>2. PICK others : others = Squares \ cells
        OBVIOUS
      <3>. QED  BY <2>2, <2>6, <2>9, <3>1, <3>2, InsideScales
    <2>12. PICK z \in Nat : z = x * y
      BY <2>10, <2>11, NatTimes
    <2>13. (x * i) * y = i * z /\ (y * o) * x = o * z
      BY <2>6, <2>10, <2>11, <2>12
    <2>14. (i >= o => i * z >= o * z) /\ (o >= i => o * z >= i * z)
      <3>1. i * z \in Nat /\ o * z \in Nat
        BY <2>6, NatTimes
      <3>2. i >= o => o * z <= i * z
        BY <2>6, MoreTimes
      <3>3. o >= i => i * z <= o * z
        BY <2>6, MoreTimes
      <3>. QED  BY <3>1, <3>2, <3>3
    <2>. QED  BY <2>6, <2>8, <2>9, <2>10, <2>11, <2>13, <2>14
  <1>. QED  BY <1>1, <1>2, TrustStep, PTL DEF TrustSpec

=============================================================================
