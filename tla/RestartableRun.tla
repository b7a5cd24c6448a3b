-------------------------- MODULE RestartableRun --------------------------
(***************************************************************************)
(* What a workflow promises of a run that can be broken off: it goes       *)
(* through the states of one fixed trajectory, a step at a time, up to its *)
(* last; what it saves is a point of that trajectory and stays saved; and  *)
(* a run that broke off goes on from a point it saved or from the start.   *)
(* Neither a half-made step nor an observation can be seen in it.          *)
(***************************************************************************)
EXTENDS Naturals

CONSTANTS
    Plans,     \* how a run may be configured: [policy, interval]
    LastStep,
    Fields,    \* Fields[p][n]: the state after n steps under plan p
    Saved,     \* Saved[p][n]: what a checkpoint of it holds besides
    Nowhere    \* the state of a run that has broken off

VARIABLES plan, step, phase, state, saves

runVars == <<plan, step, phase, state, saves>>

At(p, n) == plan' = p /\ step' = n /\ state' = Fields[p][n]

Init == /\ plan \in Plans /\ step = 0 /\ state = Fields[plan][0]
        /\ phase = "up" /\ saves = {}

Advance ==
    /\ phase = "up" /\ step < LastStep
    /\ At(plan, step + 1)
    /\ UNCHANGED <<phase, saves>>

\* A checkpoint of the present state, never of the initial one.
Save ==
    /\ phase = "up" /\ step > 0
    /\ saves' = saves \cup {[plan |-> plan, step |-> step, state |-> state,
                             rest |-> Saved[plan][step]]}
    /\ UNCHANGED <<plan, step, phase, state>>

\* A failure or the end of the process; what is saved stays.
Break ==
    /\ phase = "up" /\ phase' = "down" /\ state' = Nowhere
    /\ UNCHANGED <<plan, step, saves>>

Afresh ==
    /\ phase = "down" /\ phase' = "up"
    /\ \E p \in Plans : p.policy = plan.policy /\ At(p, 0)
    /\ UNCHANGED saves

Resume ==
    /\ phase = "down" /\ phase' = "up"
    /\ \E c \in saves : /\ c.step < LastStep /\ state' = c.state
                        /\ At(c.plan, c.step)
    /\ UNCHANGED saves

Finish ==
    /\ phase = "up" /\ step = LastStep /\ phase' = "finished"
    /\ UNCHANGED <<plan, step, state, saves>>

Next == Advance \/ Save \/ Break \/ Afresh \/ Resume \/ Finish

Spec == Init /\ [][Next]_runVars
==========================================================================
