------------------------------- MODULE Sealing ------------------------------
(***************************************************************************)
(* The sealed log of one peer (peer/sealing.py) and the two programs that  *)
(* judge it: the audit the opponent runs at the end of the sub-game        *)
(* (peer/audit.py) and the replay auditor that reads the log afterwards    *)
(* (interface/replay_verify.py).                                           *)
(*                                                                         *)
(* Hashing and signing are terms: equal digests come from equal preimages  *)
(* and only the holder of a key signs with it.  What a step says is a body *)
(* of which only its position is told: on the board or not, and how far    *)
(* from another one.                                                       *)
(***************************************************************************)
EXTENDS Integers, Sequences, FiniteSets

CONSTANTS
    Bodies,    \* what a step may say
    OffBoard,  \* those whose position is no cell of the board
    Far,       \* pairs of them whose positions are more than one step apart
    LogSteps,  \* bound: steps after the declaration
    MaxEdits   \* bound: differences between the chain and what is revealed

Dialects == {"reference", "book"}
OwnKey == "own key"
NoKey == "no key"

ASSUME SealingAssumption ==
    /\ Bodies # {} /\ IsFiniteSet(Bodies)
    /\ OffBoard \subseteq Bodies /\ Far \subseteq Bodies \X Bodies
    /\ LogSteps \in Nat /\ MaxEdits \in Nat

VARIABLES
    crypto,    \* the dialects of the sealing and of the judging peer
    pubkey,    \* what the handshake told of the sealer's public key
    chain,     \* SealedLog._records
    live,      \* the commits that arrived with the turns, by step
    revealed,  \* the records of the AuditPayload
    edits,     \* how many of them differ from the chain
    verdict    \* the audit's outcome

sealVars == <<crypto, pubkey, chain, live, revealed, edits, verdict>>

-----------------------------------------------------------------------------
(* Digests and signatures.                                                 *)

\* make_hash_dialect: a missing block or key means the core form.
Blocks == UNION {[keys -> Dialects] : keys \in SUBSET {"dialect"}}
MakeHashDialect(block) ==
    IF "dialect" \in DOMAIN block THEN block["dialect"] ELSE "reference"

\* payload[key] = value
WithKey(payload, key, value) ==
    [k \in DOMAIN payload \cup {key} |-> IF k = key THEN value ELSE payload[k]]

\* The book form puts the nonce among the payload's own keys.
Reserved(d, payload) == d = "book" /\ "nonce" \in DOMAIN payload

Commit(d, payload, nonce) ==
    IF d = "book" THEN [json |-> WithKey(payload, "nonce", nonce)]
                  ELSE [json |-> payload, appended |-> nonce]

\* HashDialect.verify
Verify(d, payload, nonce, commit) ==
    ~Reserved(d, payload) /\ commit = Commit(d, payload, nonce)

Sign(key, payload) == [by |-> key, over |-> payload]

Unsigned(payload) == [k \in DOMAIN payload \ {"signature"} |-> payload[k]]

VerifyStep0Signature(payload, key) ==
    /\ "signature" \in DOMAIN payload
    /\ payload["signature"] = Sign(key, Unsigned(payload))

-----------------------------------------------------------------------------
(* The sealed log.                                                         *)

\* seal_step, with the n-th nonce.
SealStep(d, payload, n) == [payload |-> payload, nonce |-> n, commit |-> Commit(d, payload, n)]

Step(n, body) == [step |-> n, body |-> body]

\* step0_record: what is signed, and what is sealed.
Declared(body) == WithKey(Step(0, body), "public_key", OwnKey)
Declaration(body) == WithKey(Declared(body), "signature", Sign(OwnKey, Declared(body)))

Pending == [phase |-> "playing", received |-> FALSE, failed |-> {}]

\* A sub-game starts: each side makes its dialect from its own signed block.
Openings ==
    {[crypto |-> [sealer |-> MakeHashDialect(mine), auditor |-> MakeHashDialect(theirs)],
      chain |-> <<SealStep(MakeHashDialect(mine), Declaration(body), 0)>>] :
         mine \in Blocks, theirs \in Blocks, body \in Bodies}

\* Before the first sub-game.
SealInit ==
    /\ crypto = [sealer |-> MakeHashDialect(<<>>), auditor |-> MakeHashDialect(<<>>)]
    /\ pubkey = NoKey /\ chain = <<>> /\ live = <<>> /\ revealed = <<>> /\ edits = 0
    /\ verdict = [Pending EXCEPT !.phase = "judged"]

\* A record's number; a declaration has one, but no position.
WithStep(record) == "step" \in DOMAIN record.payload
StepOf(record) == record.payload["step"]
BodyOf(record) == record.payload["body"]
OnTrail(record) ==
    WithStep(record) /\ StepOf(record) >= 1 /\ "public_key" \notin DOMAIN record.payload

\* A turn moves by one step at most, from wherever the peer starts; its commit
\* travels and arrives, or its message is lost.
SealTurn(body) ==
    LET n == Len(chain)
        record == SealStep(crypto.sealer, Step(n, body), n)
    IN  /\ verdict.phase = "playing" /\ n <= LogSteps
        /\ body \notin OffBoard
        /\ n > 1 => <<BodyOf(chain[n]), body>> \notin Far
        /\ chain' = Append(chain, record)
        /\ live' \in {live, WithKey(live, n, record.commit)}
        /\ UNCHANGED <<crypto, pubkey, revealed, edits, verdict>>

\* audit_reveal: the chain with its nonces.
AuditReveal ==
    /\ verdict.phase = "playing"
    /\ revealed' = chain
    /\ verdict' = [verdict EXCEPT !.phase = "revealed"]
    /\ UNCHANGED <<crypto, pubkey, chain, live, edits>>

-----------------------------------------------------------------------------
(* What is revealed may differ from what was sealed: a record lost, moved, *)
(* numbered anew, changed, or sealed once more.                            *)

\* The payloads a revealed record may carry instead of its own.
Reworded(payload) ==
    {WithKey(payload, "body", b) : b \in Bodies}
    \cup {WithKey(payload, "step", n) : n \in 0 .. LogSteps}
    \cup {[k \in DOMAIN payload \ {"step"} |-> payload[k]], WithKey(payload, "nonce", 0)}
    \cup {Declaration(b) : b \in Bodies}

\* With the old nonce and commit, or with a new commit that fits.
Edited(record) ==
    {[record EXCEPT !.payload = p] : p \in Reworded(record.payload)}
    \cup {SealStep(d, p, n) : d \in Dialects, p \in Reworded(record.payload),
                             n \in {record.nonce, LogSteps + 1}}

Differs ==
    /\ verdict.phase = "revealed" /\ edits < MaxEdits
    /\ edits' = edits + 1
    /\ \E i \in DOMAIN revealed :
         revealed' \in {[revealed EXCEPT ![i] = r] : r \in Edited(revealed[i])}
                     \cup {SubSeq(revealed, 1, i - 1) \o SubSeq(revealed, i + 1, Len(revealed)),
                           [revealed EXCEPT ![i] = revealed[1], ![1] = revealed[i]]}
    /\ UNCHANGED <<crypto, pubkey, chain, live, verdict>>

-----------------------------------------------------------------------------
(* The audit of the opponent: exchange_audits.                             *)

\* A record's number, its place when it does not say.
Numbered(records, i) == IF WithStep(records[i]) THEN StepOf(records[i]) ELSE i - 1

\* audit_verify
AuditVerify(records, d) ==
    {Numbered(records, i) :
        i \in {j \in DOMAIN records :
                 ~Verify(d, records[j].payload, records[j].nonce, records[j].commit)}}

\* Mutant: the chain only has to agree with itself.
RevealUnbound(records) == {}

\* _reveal_mismatches: bound to the commits that arrived live.
RevealMismatches(records) ==
    {StepOf(records[i]) :
        i \in {j \in DOMAIN records :
                 /\ WithStep(records[j]) /\ StepOf(records[j]) \in DOMAIN live
                 /\ live[StepOf(records[j])] # records[j].commit}}

\* trajectory_mismatches: each position on the board and within a step of the
\* one before it in the list, whatever their numbers.
TrajectoryMismatches(records) ==
    LET trail == {i \in DOMAIN records : OnTrail(records[i])}
        follows(i, j) == i < j /\ \A k \in trail : k <= i \/ j <= k
    IN  {StepOf(records[j]) :
            j \in {k \in trail :
                     \/ BodyOf(records[k]) \in OffBoard
                     \/ \E i \in trail : /\ follows(i, k)
                                         /\ <<BodyOf(records[i]), BodyOf(records[k])>> \in Far}}

\* The declaration is looked at only when nothing else failed.
FailedSteps(records) ==
    LET failed == AuditVerify(records, crypto.auditor) \cup RevealMismatches(records)
                  \cup TrajectoryMismatches(records)
        unsigned == /\ failed = {} /\ pubkey # NoKey /\ records # <<>>
                    /\ ~VerifyStep0Signature(records[1].payload, pubkey)
    IN  IF unsigned THEN {0} ELSE failed

Judges ==
    /\ verdict.phase = "revealed"
    /\ verdict' = [phase |-> "judged", received |-> TRUE, failed |-> FailedSteps(revealed)]
    /\ UNCHANGED <<crypto, pubkey, chain, live, revealed, edits>>

\* No payload within the window, or one that is no AuditPayload.
HearsNothing ==
    /\ verdict.phase = "revealed"
    /\ verdict' = [verdict EXCEPT !.phase = "judged"]
    /\ UNCHANGED <<crypto, pubkey, chain, live, revealed, edits>>

\* A sub-game starts with new logs.
NextLog ==
    /\ verdict.phase = "judged"
    /\ \E o \in Openings : crypto' = o.crypto /\ chain' = o.chain
    /\ pubkey' \in {OwnKey, NoKey}
    /\ live' = <<>> /\ revealed' = <<>> /\ edits' = 0 /\ verdict' = Pending

SealNext == \/ \E body \in Bodies : SealTurn(body)
            \/ AuditReveal \/ Differs \/ Judges \/ HearsNothing \/ NextLog

SealSpec == SealInit /\ [][SealNext]_sealVars

AuditPassed == verdict.received /\ verdict.failed = {}

-----------------------------------------------------------------------------
(* The replay auditor: audit_records.                                      *)

Resealed(records, d) ==
    {i \in DOMAIN records : Verify(d, records[i].payload, records[i].nonce, records[i].commit)}

\* Mutant: only the core form is tried.
ReplayAuditCore(records) ==
    [passed |-> records # <<>> /\ Resealed(records, "reference") = DOMAIN records,
     dialect |-> "reference"]

ReplayAudit(records) ==
    LET ref == Resealed(records, "reference")
        book == Resealed(records, "book")
        needsRef == ref \ book # {}
        needsBook == book \ ref # {}
    IN  [passed |-> records # <<>> /\ ref \cup book = DOMAIN records,
         dialect |->
            CASE needsRef /\ needsBook -> "mixed"
              [] needsBook /\ ~needsRef -> "book"
              [] needsRef /\ ~needsBook -> "reference"
              [] OTHER -> IF Cardinality(ref) >= Cardinality(book) THEN "reference" ELSE "book"]

-----------------------------------------------------------------------------
(* Properties.                                                             *)

\* What a peer was heard to commit to cannot be told otherwise: every record
\* that a passed audit saw under the number of a step whose commit arrived with
\* its turn is the sealed record of that step, no matter how the reveal was
\* changed and made consistent again (audit.py, "swap the move it played after
\* seeing ours"); and with the key known the reveal begins with a declaration
\* of that key.  Of a step that is left out it says nothing: _reveal_mismatches
\* goes through what is revealed, not through what arrived live (NoStepSkipped).
PassedIsPlayed ==
    AuditPassed =>
        /\ \A i \in DOMAIN revealed :
              WithStep(revealed[i]) /\ StepOf(revealed[i]) \in DOMAIN live =>
                  revealed[i] = chain[StepOf(revealed[i]) + 1]
        /\ pubkey = OwnKey /\ revealed # <<>> =>
              \E body \in Bodies, n \in 0 .. LogSteps + 1, d \in Dialects :
                  revealed[1] = SealStep(d, Declaration(body), n)

\* A passed audit saw no log with a gap: of two steps that are shown, every step
\* in between that was heard of is shown too (replay_audit.py, "a skipped step
\* is provable forgery").  The code does not do that: no function compares the
\* numbers, and a step that is left out passes where the positions of its
\* neighbours are at most one step apart.
NoStepSkipped ==
    LET shown == {StepOf(revealed[i]) : i \in {j \in DOMAIN revealed : WithStep(revealed[j])}}
    IN  AuditPassed =>
          \A m, n \in shown, k \in DOMAIN live : m < k /\ k < n => k \in shown

\* The two auditors agree: whatever passed at the end of the sub-game passes
\* when the log is replayed, in any dialect; and an unchanged log always
\* replays, under the dialect that sealed it, while its live audit passes
\* exactly when both peers seal alike and otherwise fails at every step
\* (dialects.py, "an unnegotiated dialect mismatch fails every step").
AuditorsAgree ==
    verdict.received =>
        /\ AuditPassed /\ revealed # <<>> => ReplayAudit(revealed).passed
        /\ edits = 0 =>
              /\ ReplayAudit(revealed) = [passed |-> TRUE, dialect |-> crypto.sealer]
              /\ verdict.failed = IF crypto.auditor = crypto.sealer THEN {}
                                  ELSE {n - 1 : n \in DOMAIN chain}
=============================================================================
