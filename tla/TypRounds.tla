----------------------------- MODULE TypRounds ------------------------------
(***************************************************************************)
(* What a match of "Take Your Position" promises, without cards, clocks or *)
(* scores: rounds of three phases, in each of which everybody who is       *)
(* called acts once and nobody else does, and a card spent per seat and    *)
(* round.  TypGame implements it.                                          *)
(***************************************************************************)
EXTENDS Integers, FiniteSets

CONSTANTS
  N,       \* number of seats
  Rounds   \* rounds of a match

Seats == 0..(N - 1)
Before(seat) == (seat + N - 1) % N  \* the leader of the next round

Acting == {"prior_prediction", "play", "posterior_prediction"}
Phases == Acting \cup {"waiting_all", "ended"}

VARIABLES
  stage,   \* the phase of the match
  round,   \* rounds scored
  leader,  \* the seat that leads the round
  acted,   \* the seats that acted in this phase
  spent    \* cards each seat has played

roundsVars == <<stage, round, leader, acted, spent>>

Called == IF stage = "posterior_prediction" THEN {leader} ELSE Seats

NewMatch == round' = 0 /\ leader' = 0 /\ acted' = {} /\ spent' = [s \in Seats |-> 0]

RoundsInit ==
  /\ stage = "waiting_all" /\ round = 0 /\ leader = 0
  /\ acted = {} /\ spent = [s \in Seats |-> 0]

\* Everybody is there.
Begin ==
  /\ stage = "waiting_all" /\ stage' = "prior_prediction"
  /\ UNCHANGED <<round, leader, acted, spent>>

\* The next phase; the last one of a round leads to the next round or the end.
Turn ==
  /\ acted' = {}
  /\ \/ /\ stage = "prior_prediction" /\ stage' = "play"
        /\ UNCHANGED <<round, leader>>
     \/ /\ stage = "play" /\ stage' = "posterior_prediction"
        /\ UNCHANGED <<round, leader>>
     \/ /\ stage = "posterior_prediction"
        /\ round' = round + 1
        /\ IF round' >= Rounds THEN stage' = "ended" /\ UNCHANGED leader
           ELSE stage' = "prior_prediction" /\ leader' = Before(leader)

\* The seats of S act, together when time runs out for several of them.
Act(S) ==
  /\ stage \in Acting
  /\ S # {} /\ S \subseteq Called \ acted
  /\ spent' = [s \in Seats |-> IF stage = "play" /\ s \in S THEN spent[s] + 1 ELSE spent[s]]
  /\ IF acted \cup S = Called THEN Turn
     ELSE acted' = acted \cup S /\ UNCHANGED <<stage, round, leader>>

Again == stage = "ended" /\ stage' = "prior_prediction" /\ NewMatch

RoundsNext == Begin \/ Again \/ \E S \in SUBSET Seats : Act(S)

RoundsSpec == RoundsInit /\ [][RoundsNext]_roundsVars

(* A seat has played one card per scored round, and one more once it has   *)
(* acted in the play phase or the round waits for the posterior            *)
(* prediction: no hand runs empty before the match is over.                *)
SpentInStep ==
  \A s \in Seats :
    spent[s] = round + (IF stage = "posterior_prediction" \/ (stage = "play" /\ s \in acted)
                          THEN 1 ELSE 0)
=============================================================================
