----------------------------- MODULE Agreement -----------------------------
(***************************************************************************)
(* What two peers sign before they play: the terms of                      *)
(* domain/negotiation.py, the optional locks and the message of            *)
(* peer/agreement.py, the checks of peer/handshake.py and the ids of       *)
(* domain/game_ids.py, from the configurations shared/config.py loads.     *)
(* Which window an offer is for and how offers are repeated is the subject *)
(* of Series; here each peer's offer gets through.                         *)
(*                                                                         *)
(* A game.json is told by the values of its fourteen wire terms, the rest  *)
(* of the file, whether every required term is in it, its scent dialect    *)
(* (None if it names none), the wire_dialect_terms flag and the rule       *)
(* deltas it proposes.  A signature or a hash is the value it is of.       *)
(***************************************************************************)
CONSTANTS
    Configs,    \* configurations a peer may be started with
    None        \* an absent field

Roles == {"police", "thief"}
Opp(r) == IF r = "police" THEN "thief" ELSE "police"
Laws == {"reference", "book", "multiplicative_book_v1"}
Deltas == {"none", "raise", "lower"}
Entries == {"terms", "rest", "complete", "dialect", "wired", "deltas"}

ASSUME AgreementAssumption ==
    /\ None \notin Laws
    /\ \A c \in Configs :
        /\ c.tree # None /\ DOMAIN c.tree = Entries
        /\ c.tree.dialect \in Laws \cup {None} /\ c.override \in Laws \cup {None}
        /\ c.tree.wired \in BOOLEAN /\ c.tree.complete \in BOOLEAN
        /\ c.tree.deltas \in Deltas

VARIABLES
    config,  \* what each peer loaded: its game.json, --scent-dialect, group id
    phase    \* where its handshake is

-----------------------------------------------------------------------------
(* The configuration.                                                      *)

\* _runtime_game_terms: loading fills in what a partner's file may leave out.
RuntimeTerms(tree) == [tree EXCEPT !.dialect = IF @ = None THEN "reference" ELSE @]

\* override_game, the --scent-dialect of the command line.
OverrideGame(game, dialect) == [game EXCEPT !.dialect = IF dialect = None THEN @ ELSE dialect]

\* ConfigManager: what the peer runs, beside the file as it was read.
Loaded(c) == [source |-> c.tree, game |-> OverrideGame(RuntimeTerms(c.tree), c.override)]

\* validate_agreement: no required term is missing.
ValidateAgreement(c) == Loaded(c).game.complete

\* config_sha256: the loaded file, all of it.
ConfigSha(c) == Loaded(c).source

\* scent_params: the law the peer emits and reads by.
Law(c) == Loaded(c).game.dialect

-----------------------------------------------------------------------------
(* The offer.                                                              *)

\* A delta that does not raise its parameter stops the peer that proposes it.
Buildable(c) == c.tree.deltas # "lower"

\* The fourteen terms of every peer.
WireTerms(game) == game.terms

\* The dialects are signed only under the shared flag.
DialectTerms(game) == IF game.wired THEN game.dialect ELSE None

BuildTerms(c) ==
    LET game == Loaded(c).game
    IN  [terms |-> WireTerms(game), dialect |-> DialectTerms(game),
         deltas |-> IF game.deltas = "none" THEN None ELSE game.deltas]

AgreementSignature(terms) == [over |-> terms]

\* SCENT_MODEL_SHA256 has no entry for "book".
Registered == {"reference", "multiplicative_book_v1"}

LockFields == {"config_sha256", "scent_model_sha256", "wire_shape_sha256", "info_mode_sha256",
               "smell_binding_sha256", "schema_version", "commit_order"}

\* build_lock_declarations: two fields depend on the configuration alone, one
\* is never declared and the rest are the same in every peer.
Locks(c) ==
    [f \in LockFields |->
        CASE f = "config_sha256" -> ConfigSha(c)
          [] f = "scent_model_sha256" -> (IF Law(c) \in Registered THEN Law(c) ELSE None)
          [] f = "smell_binding_sha256" -> None
          [] OTHER -> "fixed"]

\* build_identity: unsigned; only the group id is read.
BuildIdentity(c) == [group_id |-> c.group]

Message(c) ==
    [terms |-> BuildTerms(c), signature |-> AgreementSignature(BuildTerms(c)),
     locks |-> Locks(c), identity |-> BuildIdentity(c)]

-----------------------------------------------------------------------------
(* The handshake.                                                          *)

VerifySignature(theirs) == theirs.signature = AgreementSignature(theirs.terms)

\* Mutant: only the terms are compared.
LocksClashNever(mine, theirs) == FALSE

\* _assert_optional_locks: both sides declare the field and they differ.
LocksClash(mine, theirs) ==
    \E f \in LockFields :
        /\ mine.locks[f] # None /\ theirs.locks[f] # None
        /\ mine.locks[f] # theirs.locks[f]

\* _candidate_handshake.
Acceptable(mine, theirs) ==
    mine.terms = theirs.terms /\ VerifySignature(theirs) /\ ~LocksClash(mine, theirs)

\* derive_game_ids, from the terms the opponent signed.
GameUid(mine, theirs) ==
    [terms |-> theirs.terms, pair |-> {mine.identity.group_id, theirs.identity.group_id}]

\* run_peer up to the series: the configuration is checked before any socket,
\* then the server needs its port, which a stale peer may still hold.
Launch(r) ==
    /\ phase[r] = "start"
    /\ \E free \in BOOLEAN :
         phase' = [phase EXCEPT ![r] =
                     IF ValidateAgreement(config[r]) /\ free THEN "ready" ELSE "failed"]
    /\ UNCHANGED config

\* It builds its offer and sends it, or refuses to.
Offer(r) ==
    /\ phase[r] = "ready"
    /\ phase' = [phase EXCEPT ![r] = IF Buildable(config[r]) THEN "offered" ELSE "failed"]
    /\ UNCHANGED config

\* The opponent's offer is read and accepted.
Agree(r) ==
    /\ phase[r] = "offered"
    /\ phase[Opp(r)] \in {"offered", "agreed", "expired"}
    /\ Acceptable(Message(config[r]), Message(config[Opp(r)]))
    /\ phase' = [phase EXCEPT ![r] = "agreed"]
    /\ UNCHANGED config

\* Whatever was read was refused; the deadline passes.
Expire(r) ==
    /\ phase[r] = "offered"
    /\ phase' = [phase EXCEPT ![r] = "expired"]
    /\ UNCHANGED config

AgreementInit ==
    /\ config \in [Roles -> Configs]
    /\ phase = [r \in Roles |-> "start"]

AgreementNext == \E r \in Roles : Launch(r) \/ Offer(r) \/ Agree(r) \/ Expire(r)

Agreed == \A r \in Roles : phase[r] = "agreed"

\* Peers that both agreed signed one contract: the same terms and so the same
\* game_uid, from the same file, and the same scent law wherever either the
\* terms or both locks name it (verify_terms, _assert_optional_locks).  What
\* one accepts the other would: nobody is left to play alone but by a timeout.
SameContract ==
    /\ LET m == [r \in Roles |-> Message(config[r])]
       IN  Acceptable(m["police"], m["thief"]) <=> Acceptable(m["thief"], m["police"])
    /\ Agreed =>
        LET p == config["police"]
            t == config["thief"]
        IN  /\ GameUid(Message(p), Message(t)) = GameUid(Message(t), Message(p))
            /\ p.tree = t.tree
            /\ p.tree.wired \/ {Law(p), Law(t)} \subseteq Registered => Law(p) = Law(t)

=============================================================================
