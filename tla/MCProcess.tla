----------------------------- MODULE MCProcess ------------------------------
(***************************************************************************)
(* What a peer process keeps beside the turn protocol: the turn deadlines  *)
(* with the watchdog, the gates of its e-mail, the sealed log with its     *)
(* auditors, the trust in the opponent's words, and the report it makes    *)
(* with its sibling.  They share no state: a behaviour exercises one.      *)
(***************************************************************************)
EXTENDS TurnClock, Gatekeeper, Sealing, Trust, MCSeriesReport

VARIABLE part

\* b1, b2 and b3 stand in a row; b4 is off the board, beyond b3.
Beyond == {"b4"}
Apart == {<<"b1", "b3">>, <<"b3", "b1">>, <<"b1", "b4">>, <<"b4", "b1">>,
          <<"b2", "b4">>, <<"b4", "b2">>}

MCInit == /\ part \in {"turns", "mail", "seal", "trust", "report"}
          /\ ClockInit /\ GateInit /\ SealInit /\ TrustInit /\ Init

\* The group's processes have ended.
Ended == \A p \in Sides : at[p] \in {"done", "failed", "gone"}

MCNext ==
    /\ UNCHANGED part
    /\ \/ part = "turns" /\ ClockNext /\ UNCHANGED <<gateVars, sealVars, trustVars, vars>>
       \/ part = "mail" /\ GateNext /\ UNCHANGED <<clockVars, sealVars, trustVars, vars>>
       \/ part = "seal" /\ SealNext /\ UNCHANGED <<clockVars, gateVars, trustVars, vars>>
       \/ part = "trust" /\ TrustNext /\ UNCHANGED <<clockVars, gateVars, sealVars, vars>>
       \/ part = "report" /\ Next /\ UNCHANGED <<clockVars, gateVars, sealVars, trustVars>>
       \/ part = "report" /\ Ended /\ UNCHANGED <<clockVars, gateVars, sealVars, trustVars, vars>>

MCSpec == MCInit /\ [][MCNext]_<<part, clockVars, gateVars, sealVars, trustVars, vars>>
=============================================================================
