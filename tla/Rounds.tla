------------------------------- MODULE Rounds --------------------------------
(***************************************************************************)
(* What synchronous execution in rounds promises, whoever coordinates it:  *)
(* the supersteps of BarrierBean and the reasoning cycles of               *)
(* ExecutionControlBean.  A round starts with all members for its team.    *)
(* Whoever joins during a round waits for the next one, and the next one   *)
(* starts with the step in which the last of the team leaves or is let go. *)
(* Nobody is let go who has not worked in the round, unless the worker is  *)
(* excused: it died, was started again, or its answers cannot be told      *)
(* apart.  Messages, timeouts and restarts are not visible here.           *)
(***************************************************************************)
EXTENDS Naturals

CONSTANT Workers   \* the agents that are coordinated

VARIABLES
  round,     \* the number of the current round
  members,   \* the workers that take part in the next round
  team,      \* the workers that the current round waits for
  worked,    \* those of the team that have worked in the current round
  excused    \* the workers of whom no work is demanded any more

vars == <<round, members, team, worked, excused>>

Init ==
  /\ round = 0
  /\ members = {}
  /\ team = {}
  /\ worked = {}
  /\ excused = {}

\* The team is t from now on; if it is empty, m start the next round.
Proceed(m, t) ==
  /\ members' = m
  /\ \/ /\ t = {} /\ m # {}
        /\ round' = round + 1
        /\ team' = m
        /\ worked' = {}
     \/ /\ t # {} \/ m = {}
        /\ round' = round
        /\ team' = t
        /\ worked' = worked \intersect t

Join(w) == Proceed(members \union {w}, team)

Leave(w) == Proceed(members \ {w}, team \ {w})

Work(w) ==
  /\ w \in team
  /\ worked' = worked \union {w}
  /\ UNCHANGED <<round, members, team>>

\* The workers in ws are not waited for any longer.
LetGo(ws) ==
  /\ ws \subseteq team
  /\ ws \subseteq worked \union excused
  /\ Proceed(members, team \ ws)

\* The work of ws is lost with the worker.
Fail(ws) ==
  /\ ws \subseteq excused'
  /\ worked' = worked \ ws
  /\ UNCHANGED <<round, members, team>>

Next ==
  /\ excused \subseteq excused' /\ excused' \subseteq Workers
  /\ \/ \E w \in Workers : Join(w) \/ Leave(w) \/ Work(w)
     \/ \E ws \in SUBSET Workers : LetGo(ws) \/ Fail(ws)

Spec == Init /\ [][Next]_vars
=============================================================================
