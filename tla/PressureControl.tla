------------------------- MODULE PressureControl --------------------------
(***************************************************************************)
(* The control of the Channel pressure solve: a preconditioned conjugate   *)
(* gradient that starts from the last pressure, keeps the best state at    *)
(* the precision floor, rolls back to it, rechecks what it would return    *)
(* and leaves a warm start, with an operator action, to the next solve.    *)
(* The transpose and adjoint solves share this control and start cold.     *)
(*                                                                         *)
(* The algebra is a choice: an iterate has a level, the relative size of   *)
(* the residual of the pressure it represents, and the recurrence reports  *)
(* another, as rounding lets the two part.  Levels are small integers with *)
(* zero for an exact solution and one value for what is not finite.        *)
(***************************************************************************)
EXTENDS Naturals

CONSTANTS
    Floor,          \* the precision floor of the number type
    Tolerance,      \* pressure_rel_tol
    Top,            \* the residual of a zero pressure: the right-hand side
    Limit,          \* pressure_iteration_limit
    MaxSolves,      \* bound on the solves and changes of the warm start
    NoPressure      \* where there is no tensor, state or outcome yet

ASSUME PressureAssumption ==
    /\ Floor \in Nat \ {0} /\ Tolerance \in Nat /\ Floor <= Tolerance
    /\ Top \in Nat /\ Tolerance < Top /\ 2 * Floor < Top
    /\ Limit \in Nat \ {0} /\ MaxSolves \in Nat

VARIABLES
    fixedWork,      \* fixed work, or a tolerance
    phase,          \* where the solve is
    guess,          \* pressure_guess: a tensor and its version
    cache,          \* the tensor and version the stored operator action is of
    value,          \* pressure_work: its iterate and the level of its residual
    relative,       \* relative_residual
    iterations,
    action,         \* the operator action in hand: of its own value, or stale
    floor,          \* the floor state of ChannelPCGControl
    completed,      \* completed_pressure and its residual
    reason, acceptable, failure, \* failure: saturation_failure_reason
    outcome,        \* the last outcome recorded, with the pressure returned
    warm,           \* the warm start the present or last solve began with
    made            \* tensors made, and solves begun

iterateVars  == <<value, relative, iterations, action>>
decisionVars == <<floor, completed, reason, acceptable, failure>>
warmVars     == <<guess, cache>>
pressureVars == <<fixedWork, phase, warmVars, iterateVars, decisionVars,
                  outcome, warm, made>>

NotFinite == Top + 1
Levels == 0..NotFinite
AtFloor(level) == level <= Floor
WithinMargin(level) == level <= 2 * Floor

Tensors == [tensor : 1..MaxSolves, version : 0..MaxSolves]
Iterates == [iterate : 0..Limit, level : Levels]
Floors == [value : Iterates, recurrence : Levels]
ZeroPressure == [iterate |-> 0, level |-> Top]

Successes == {"zero_rhs", "exact_zero_residual", "relative_tolerance_met",
              "fixed_work_completed", "fixed_work_roundoff_saturation"}
Failures == {"nonfinite_input", "nonfinite_intermediate",
             "preconditioned_residual_breakdown", "operator_breakdown",
             "iteration_limit"}
Reasons == Successes \cup Failures
Outcomes == [solve : 0..MaxSolves, ok : BOOLEAN, reason : Reasons,
             iterations : 0..Limit, relative : Levels, returned : Iterates,
             floor : BOOLEAN]

ASSUME NoPressureAssumption ==
    NoPressure \notin Tensors \cup Iterates \cup Floors \cup Outcomes

PressureInit ==
    /\ fixedWork \in BOOLEAN /\ phase = "idle"
    /\ guess = NoPressure /\ cache = NoPressure
    /\ value = ZeroPressure /\ relative = Top /\ iterations = 0
    /\ action = "none" /\ floor = NoPressure /\ completed = NoPressure
    /\ reason = "iteration_limit" /\ acceptable = FALSE
    /\ failure = "iteration_limit"
    /\ outcome = NoPressure /\ warm = NoPressure /\ made = 0

----------------------------------------------------------------------------
\* The warm start and the outcome.

\* _store_pressure_guess: a new tensor, and its operator action if known.
StoreGuess(operatorAction) ==
    /\ guess' = [tensor |-> made, version |-> 0]
    /\ cache' = IF operatorAction = "none" THEN NoPressure ELSE guess'

\* Mutant: the version of the tensor is not compared.
CachedActionByTensor ==
    IF cache # NoPressure /\ guess # NoPressure /\ cache.tensor = guess.tensor
    THEN cache ELSE NoPressure

\* _cached_pressure_operator_action: of this very tensor at this version.
CachedAction ==
    IF cache # NoPressure /\ guess # NoPressure
       /\ cache.tensor = guess.tensor /\ cache.version = guess.version
    THEN cache ELSE NoPressure

Record(ok, why, level) ==
    outcome' = [solve |-> made, ok |-> ok, reason |-> why,
                iterations |-> iterations, relative |-> level,
                returned |-> value, floor |-> floor # NoPressure]

\* The locals of a solve are gone after it.
Leave ==
    /\ phase' = "idle"
    /\ value' = ZeroPressure /\ relative' = Top /\ iterations' = 0
    /\ action' = "none" /\ floor' = NoPressure /\ completed' = NoPressure
    /\ reason' = "iteration_limit" /\ acceptable' = FALSE
    /\ failure' = "iteration_limit"

\* Mutant: the guess is stored before the solve is accepted.
RaiseFailureStored(why, level) ==
    /\ Record(FALSE, why, level) /\ Leave
    /\ guess' = [tensor |-> made, version |-> 0]

\* _raise_pressure_failure: the warm start stays.
RaiseFailure(why, level) ==
    /\ Record(FALSE, why, level) /\ Leave
    /\ UNCHANGED guess

Return(operatorAction, why, level) ==
    /\ StoreGuess(operatorAction) /\ Record(TRUE, why, level) /\ Leave

----------------------------------------------------------------------------
\* Starting.

\* A solve begins.  Its right-hand side is not finite, zero, or gives the
\* warm start, where there is one of its shape, some residual.
BeginSolve ==
    /\ phase = "idle" /\ made < MaxSolves
    /\ made' = made + 1 /\ warm' = guess
    /\ phase' \in {"refuse", "zero", "start"}
    /\ UNCHANGED <<fixedWork, warmVars, iterateVars, decisionVars, outcome>>

RefuseInput ==
    /\ phase = "refuse"
    /\ RaiseFailure("nonfinite_input", NotFinite)
    /\ UNCHANGED <<fixedWork, cache, warm, made>>

ReturnZero ==
    /\ phase = "zero"
    /\ StoreGuess("none") /\ Record(TRUE, "zero_rhs", 0) /\ Leave
    /\ UNCHANGED <<fixedWork, warm, made>>

\* From zero, dropping the stored action, or from the warm start with the
\* stored action where it is valid.  An action of another pressure gives
\* any residual.
StartFromGuess ==
    /\ phase = "start" /\ phase' = "initial"
    /\ \/ /\ value' = ZeroPressure /\ relative' = Top
          /\ action' = "own" /\ cache' = NoPressure
       \/ /\ guess # NoPressure
          /\ action' = IF CachedAction \in {NoPressure, guess}
                       THEN "own" ELSE "stale"
          /\ \E level, other \in Levels :
                /\ value' = [iterate |-> 0, level |-> level]
                /\ relative' = IF action' = "own" THEN level ELSE other
          /\ cache' = CachedAction
    /\ UNCHANGED <<fixedWork, guess, iterations, decisionVars, outcome, warm,
                   made>>

\* The preconditioned pair is well, or raises, after the checks that need
\* only the residual.
ObserveInitial ==
    /\ phase = "initial"
    /\ CASE relative = NotFinite ->
              RaiseFailure("nonfinite_intermediate", Top) /\ UNCHANGED cache
         [] relative = 0 -> Return(action, "exact_zero_residual", 0)
         [] ~fixedWork /\ 0 < relative /\ relative <= Tolerance ->
              Return(action, "relative_tolerance_met", relative)
         [] OTHER ->
              \/ /\ \E why \in {"nonfinite_intermediate",
                                "preconditioned_residual_breakdown"} :
                       RaiseFailure(why, relative)
                 /\ UNCHANGED cache
              \/ /\ phase' = "loop" /\ action' = "none"
                 /\ floor' = IF fixedWork /\ AtFloor(relative)
                             THEN [value |-> value, recurrence |-> relative]
                             ELSE NoPressure
                 /\ UNCHANGED <<warmVars, value, relative, iterations,
                                completed, reason, acceptable, failure,
                                outcome>>
    /\ UNCHANGED <<fixedWork, warm, made>>

----------------------------------------------------------------------------
\* The loop.

\* Mutant: a rollback keeps the count of the iterations made.
StopForFailureKeepingCount(why) ==
    IF fixedWork /\ floor # NoPressure
    THEN /\ value' = floor.value
         /\ failure' = why /\ reason' = "fixed_work_roundoff_saturation"
         /\ acceptable' = TRUE /\ UNCHANGED iterations
    ELSE /\ reason' = why /\ acceptable' = FALSE
         /\ UNCHANGED <<value, iterations, failure>>

\* stop_for_failure: back to the floor state, in fixed work that has one.
StopForFailure(why) ==
    IF fixedWork /\ floor # NoPressure
    THEN /\ value' = floor.value /\ iterations' = floor.value.iterate
         /\ failure' = why /\ reason' = "fixed_work_roundoff_saturation"
         /\ acceptable' = TRUE
    ELSE /\ reason' = why /\ acceptable' = FALSE
         /\ UNCHANGED <<value, iterations, failure>>

Stop(why) == phase' = "stopped" /\ StopForFailure(why)
             /\ UNCHANGED <<relative, action, floor, completed>>

Settle(why, ok) == /\ phase' = "stopped" /\ reason' = why /\ acceptable' = ok
                   /\ UNCHANGED <<value, iterations, failure, completed>>

\* One product with the operator, and the update of pressure and residual.
UpdatePressure ==
    /\ phase = "loop" /\ iterations < Limit
    /\ \/ \E why \in {"nonfinite_intermediate", "operator_breakdown"} :
             Stop(why)
       \/ /\ iterations' = iterations + 1
          /\ \E level \in Levels :
                value' = [iterate |-> iterations + 1, level |-> level]
          /\ phase' = "observe" /\ action' = "none"
          /\ UNCHANGED <<relative, decisionVars>>
    /\ UNCHANGED <<fixedWork, warmVars, outcome, warm, made>>

\* The loop condition fails after a restart of the recurrence.
LeaveLoop ==
    /\ phase = "loop" /\ iterations = Limit
    /\ phase' = "stopped"
    /\ UNCHANGED <<fixedWork, warmVars, iterateVars, decisionVars, outcome,
                   warm, made>>

\* Mutant: the recurrence is taken at its word.
ObserveRecurrenceOnly(level) ==
    /\ relative' = level /\ UNCHANGED action
    /\ IF ~fixedWork /\ level <= Tolerance
       THEN Settle("relative_tolerance_met", TRUE) /\ UNCHANGED floor
       ELSE phase' = "next" /\ UNCHANGED <<value, iterations, decisionVars>>

\* What the recurrence reports, and what is done about it: stop at an exact
\* zero, in fixed work keep the best state at the floor and go back to it
\* once above, with a tolerance check the pressure itself.
Consider(level) ==
    /\ relative' = level /\ UNCHANGED action
    /\ \/ /\ level = 0
          /\ Settle("exact_zero_residual", TRUE) /\ UNCHANGED floor
       \/ /\ level > 0 /\ fixedWork /\ AtFloor(level)
          /\ phase' = "next"
          /\ floor' = IF floor = NoPressure \/ level < floor.recurrence
                      THEN [value |-> value, recurrence |-> level] ELSE floor
          /\ UNCHANGED <<value, iterations, completed, reason, acceptable,
                         failure>>
       \/ /\ fixedWork /\ ~AtFloor(level) /\ floor # NoPressure
          /\ phase' = "stopped" /\ StopForFailure("iteration_limit")
          /\ UNCHANGED <<floor, completed>>
       \/ /\ ~fixedWork /\ level > 0 /\ level <= Tolerance
          /\ phase' = "recheck" /\ UNCHANGED <<value, iterations, decisionVars>>
       \/ /\ IF fixedWork THEN ~AtFloor(level) /\ floor = NoPressure
                          ELSE level > Tolerance
          /\ phase' = "next" /\ UNCHANGED <<value, iterations, decisionVars>>

ObserveResidual ==
    /\ phase = "observe"
    /\ \/ Stop("nonfinite_intermediate")
       \/ \E level \in 0..Top : Consider(level)
    /\ UNCHANGED <<fixedWork, warmVars, outcome, warm, made>>

\* Mutant: a restart of the recurrence counts its iterations anew.
RecheckFromZero ==
    /\ phase = "recheck"
    /\ relative' = value.level
    /\ CASE value.level = NotFinite ->
              Settle("nonfinite_intermediate", FALSE) /\ action' = "own"
         [] value.level <= Tolerance ->
              Settle("relative_tolerance_met", TRUE) /\ action' = "own"
         [] OTHER ->
              /\ phase' = "loop" /\ action' = "none" /\ iterations' = 0
              /\ UNCHANGED <<value, completed, reason, acceptable, failure>>
    /\ UNCHANGED <<fixedWork, warmVars, floor, outcome, warm, made>>

\* The residual of the represented pressure decides; if it is not enough
\* yet the recurrence starts again from it.
RecheckTolerance ==
    /\ phase = "recheck"
    /\ relative' = value.level
    /\ CASE value.level = NotFinite ->
              Settle("nonfinite_intermediate", FALSE) /\ action' = "own"
         [] value.level = 0 ->
              Settle("exact_zero_residual", TRUE) /\ action' = "own"
         [] 0 < value.level /\ value.level <= Tolerance ->
              \/ Settle("relative_tolerance_met", TRUE) /\ action' = "own"
              \/ Settle("nonfinite_intermediate", FALSE) /\ action' = "own"
         [] OTHER ->
              \/ /\ \E why \in {"nonfinite_intermediate",
                                "preconditioned_residual_breakdown"} :
                       Settle(why, FALSE)
                 /\ action' = "own"
              \/ /\ phase' = "loop" /\ action' = "none"
                 /\ UNCHANGED <<value, iterations, completed, reason,
                                acceptable, failure>>
    /\ UNCHANGED <<fixedWork, warmVars, floor, outcome, warm, made>>

\* The limit, then the preconditioned pair.
NextDirection ==
    /\ phase = "next"
    /\ \/ /\ iterations = Limit
          /\ IF fixedWork THEN Settle("fixed_work_completed", TRUE)
                          ELSE Settle("iteration_limit", FALSE)
          /\ UNCHANGED <<relative, action, floor>>
       \/ iterations < Limit /\ Stop("nonfinite_intermediate")
       \/ iterations < Limit /\ Stop("preconditioned_residual_breakdown")
       \/ /\ iterations < Limit /\ phase' = "loop"
          /\ UNCHANGED <<iterateVars, decisionVars>>
    /\ UNCHANGED <<fixedWork, warmVars, outcome, warm, made>>

----------------------------------------------------------------------------
\* The postcondition of fixed work.

NeedsPostcondition ==
    /\ acceptable /\ floor # NoPressure
    /\ reason \in {"fixed_work_completed", "fixed_work_roundoff_saturation"}

\* The represented residual is computed; a completed state that misses the
\* floor gives way to the floor state, which is checked in its turn.
CheckRepresented ==
    /\ phase = "stopped" /\ NeedsPostcondition
    /\ IF value.level = NotFinite
       THEN /\ acceptable' = FALSE /\ reason' = "nonfinite_intermediate"
            /\ phase' = "decided"
            /\ UNCHANGED <<value, relative, iterations, completed>>
       ELSE /\ relative' = value.level
            /\ IF reason = "fixed_work_completed"
               THEN /\ completed' = value
                    /\ IF ~AtFloor(value.level) /\ value # floor.value
                       THEN /\ value' = floor.value
                            /\ iterations' = floor.value.iterate
                            /\ phase' = "retry"
                       ELSE phase' = "margin" /\ UNCHANGED <<value, iterations>>
               ELSE /\ phase' = "margin"
                    /\ UNCHANGED <<value, iterations, completed>>
            /\ UNCHANGED <<reason, acceptable>>
    /\ UNCHANGED <<fixedWork, warmVars, action, floor, failure, outcome, warm,
                   made>>

\* The floor state is checked.  If that raises, the solve has failed, and
\* the residual in hand is still the completed state's.
RetryFloor ==
    /\ phase = "retry" /\ phase' = "margin"
    /\ IF value.level = NotFinite
       THEN /\ acceptable' = FALSE /\ reason' = "nonfinite_intermediate"
            /\ UNCHANGED relative
       ELSE /\ relative' = value.level /\ UNCHANGED acceptable
            /\ reason' = IF AtFloor(value.level)
                         THEN "fixed_work_roundoff_saturation" ELSE reason
    /\ UNCHANGED <<fixedWork, warmVars, value, iterations, action, floor,
                   completed, failure, outcome, warm, made>>

\* represented_at_floor, before the margin is granted.
RepresentedAtFloor == AtFloor(relative)

\* finish_fixed_work_postcondition.
FinishPostcondition(kept) ==
    IF kept \/ RepresentedAtFloor
    THEN /\ reason' = IF kept THEN "fixed_work_completed" ELSE reason
         /\ UNCHANGED acceptable
    ELSE acceptable' = FALSE /\ reason' = failure

\* A completed state within twice the floor is kept after all, where no
\* floor state stands in for it.
GrantMargin ==
    /\ phase = "margin" /\ phase' = "decided"
    /\ LET kept == /\ ~RepresentedAtFloor /\ completed # NoPressure
                   /\ WithinMargin(completed.level)
       IN /\ IF kept
             THEN /\ value' = completed /\ iterations' = Limit
                  /\ relative' = completed.level
             ELSE UNCHANGED <<value, iterations, relative>>
          /\ FinishPostcondition(kept)
    /\ UNCHANGED <<fixedWork, warmVars, action, floor, completed, failure,
                   outcome, warm, made>>

\* A failure raises; so does a pressure that overflows in its own scale.
DeliverPressure ==
    /\ phase = "decided" \/ (phase = "stopped" /\ ~NeedsPostcondition)
    /\ \/ acceptable /\ Return(action, reason, relative)
       \/ /\ RaiseFailure(IF acceptable THEN "nonfinite_intermediate"
                          ELSE reason, relative)
          /\ UNCHANGED cache
    /\ UNCHANGED <<fixedWork, warm, made>>

----------------------------------------------------------------------------
\* What else happens to the warm start, and to a solve.

\* A restored guess is a new tensor; a functional runtime takes it away.
RestoreGuess ==
    /\ phase = "idle" /\ made < MaxSolves /\ made' = made + 1
    /\ guess' = [tensor |-> made', version |-> 0]
    /\ UNCHANGED <<fixedWork, phase, cache, iterateVars, decisionVars, outcome,
                   warm>>

DropGuess ==
    /\ phase = "idle" /\ guess # NoPressure /\ guess' = NoPressure
    /\ UNCHANGED <<fixedWork, phase, cache, iterateVars, decisionVars, outcome,
                   warm, made>>

\* The returned tensor shares its storage and version with the guess: a
\* caller that writes into it changes both.
OverwriteGuess ==
    /\ phase = "idle" /\ guess # NoPressure /\ guess.version < MaxSolves
    /\ guess' = [guess EXCEPT !.version = @ + 1]
    /\ UNCHANGED <<fixedWork, phase, cache, iterateVars, decisionVars, outcome,
                   warm, made>>

\* An operator call raises something else: memory, an interrupt.
BreakOff ==
    /\ phase # "idle" /\ Leave
    /\ UNCHANGED <<fixedWork, warmVars, outcome, warm, made>>

PressureStep ==
    \/ RefuseInput \/ ReturnZero \/ StartFromGuess \/ ObserveInitial
    \/ UpdatePressure \/ LeaveLoop \/ ObserveResidual \/ RecheckTolerance
    \/ NextDirection \/ CheckRepresented \/ RetryFloor \/ GrantMargin
    \/ DeliverPressure

PressureNext == \/ BeginSolve \/ PressureStep \/ BreakOff
                \/ RestoreGuess \/ DropGuess \/ OverwriteGuess

PressureSpec == PressureInit /\ [][PressureNext]_pressureVars
----------------------------------------------------------------------------
\* Properties.

PressureTypeOK ==
    /\ fixedWork \in BOOLEAN
    /\ phase \in {"idle", "refuse", "zero", "start", "initial", "loop",
                  "observe", "recheck", "next", "stopped", "retry", "margin",
                  "decided"}
    /\ {guess, cache, warm} \subseteq Tensors \cup {NoPressure}
    /\ value \in Iterates /\ relative \in Levels /\ iterations \in 0..Limit
    /\ action \in {"none", "own"}
    /\ floor \in Floors \cup {NoPressure}
    /\ completed \in Iterates \cup {NoPressure}
    /\ reason \in Reasons /\ acceptable \in BOOLEAN /\ failure \in Failures
    /\ outcome \in Outcomes \cup {NoPressure}
    /\ made \in 0..MaxSolves

\* What a solve accepts is true of the pressure it returns, not of the
\* recurrence: the tolerance is met, a state said to be at the floor is,
\* and fixed work that once reached the floor returns a state within twice
\* of it, through restarts, rollbacks and the retry of the floor state.  (An
\* exact zero that the recurrence reports is believed, and fixed work that
\* never saw the floor promises nothing.)
AcceptedMeetsContract ==
    (outcome # NoPressure /\ outcome.ok) =>
        LET level == outcome.returned.level
        IN /\ outcome.reason = "relative_tolerance_met" => level <= Tolerance
           /\ outcome.reason = "fixed_work_roundoff_saturation" =>
                 AtFloor(level)
           /\ outcome.reason = "fixed_work_completed" /\ outcome.floor =>
                 WithinMargin(level)
           /\ outcome.reason = "exact_zero_residual"
              /\ outcome.iterations = 0 => level = 0

\* The diagnostics of an accepted solve are those of the pressure returned:
\* after a rollback the floor state's iterations and residual, after the
\* margin is granted the completed state's again.
OutcomeBelongsToResult ==
    (outcome # NoPressure /\ outcome.ok) =>
        /\ outcome.iterations = outcome.returned.iterate
        /\ \/ outcome.reason \in {"relative_tolerance_met",
                                  "fixed_work_roundoff_saturation"}
           \/ outcome.reason = "fixed_work_completed" /\ outcome.floor
           => outcome.relative = outcome.returned.level

\* A solve never starts from an operator action of another pressure, though
\* the guess may have been restored, dropped or written into since.
StartsFromItsGuess == action # "stale"

\* A solve that fails, or is broken off, leaves the warm start it found.
FailureKeepsWarmStart ==
    [][phase # "idle" /\ phase' = "idle"
       /\ (outcome' = outcome \/ ~outcome'.ok) => guess' = warm]_pressureVars

\* A solve ends: every step it makes, whatever the data and however often
\* the recurrence restarts, leaves it fewer to make, since a restart does
\* not give back iterations and a rollback comes after the loop only.
PhaseRank == [idle  |-> 0, refuse |-> 1, zero    |-> 1, decided |-> 1,
              margin |-> 2, retry |-> 3, stopped |-> 4, loop |-> 5,
              next  |-> 6, recheck |-> 6, initial |-> 6, observe |-> 7,
              start |-> 7]
StepsLeft ==
    PhaseRank[phase]
      + (IF PhaseRank[phase] < PhaseRank.loop THEN 0
                                              ELSE 3 * (Limit - iterations))

SolveDescends == [][phase # "idle" => StepsLeft' < StepsLeft]_pressureVars
==========================================================================
