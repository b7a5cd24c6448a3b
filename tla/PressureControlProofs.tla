---------------------- MODULE PressureControlProofs -----------------------
(***************************************************************************)
(* The contract of the Channel pressure solve, for any floor, tolerance,   *)
(* iteration limit and number of solves.  The inductive invariant has      *)
(*   PressureTypeOK  types;                                                *)
(*   CountInv   the iteration count in hand is that of the iterate in      *)
(*              hand, through rollbacks and the return of the completed    *)
(*              state;                                                     *)
(*   WarmInv    during a solve the warm start is the one it began with;    *)
(*   PhaseInv   what each phase knows about the iterate it may accept.     *)
(* That every solve ends follows from StepsLeft, which each step lowers.   *)
(***************************************************************************)
EXTENDS PressureControl, TLAPS

CountInv ==
    /\ iterations = value.iterate
    /\ completed # NoPressure => completed.iterate = Limit

WarmInv ==
    /\ phase # "idle" => guess = warm /\ made > 0
    /\ phase # "idle" /\ outcome # NoPressure => outcome.solve < made
    /\ outcome # NoPressure => outcome.solve <= made

\* What is known of an accepted iterate once the loop has stopped.
StoppedWell ==
    \/ /\ reason = "relative_tolerance_met"
       /\ relative = value.level /\ relative <= Tolerance
    \/ reason = "exact_zero_residual" /\ iterations > 0
    \/ reason = "fixed_work_completed" /\ iterations = Limit
    \/ reason = "fixed_work_roundoff_saturation" /\ floor # NoPressure

\* And once its postcondition has been examined.
DecidedWell ==
    /\ floor # NoPressure
    /\ relative = value.level
    /\ \/ reason = "fixed_work_roundoff_saturation" /\ AtFloor(relative)
       \/ reason = "fixed_work_completed" /\ WithinMargin(relative)

PhaseInv ==
    /\ acceptable => phase \in {"stopped", "retry", "margin", "decided"}
    /\ phase \in {"idle", "refuse", "zero", "start", "initial"} =>
          iterations = 0 /\ floor = NoPressure
    /\ phase = "initial" => relative = value.level
    /\ phase \in {"observe", "recheck", "next"} => iterations > 0
    /\ phase = "stopped" /\ acceptable => StoppedWell
    /\ phase \in {"retry", "margin"} =>
          reason \in {"fixed_work_completed", "fixed_work_roundoff_saturation",
                      "nonfinite_intermediate"}
    /\ phase = "retry" => reason = "fixed_work_completed" /\ floor # NoPressure
    /\ phase = "retry" => completed # NoPressure
    /\ phase = "margin" /\ acceptable =>
          /\ relative = value.level /\ floor # NoPressure
          /\ reason # "nonfinite_intermediate"
          /\ reason = "fixed_work_completed" => completed # NoPressure
    /\ phase = "decided" /\ acceptable => DecidedWell
    /\ phase \in {"idle", "loop", "observe", "recheck", "next", "initial",
                  "start", "zero", "refuse"} => completed = NoPressure

PressureInv == /\ PressureTypeOK /\ CountInv /\ WarmInv /\ PhaseInv
               /\ AcceptedMeetsContract /\ OutcomeBelongsToResult

----------------------------------------------------------------------------
\* Types.

USE DEF AtFloor, WithinMargin

LEMMA ConstantsTyped ==
    /\ 0 \in Levels /\ Top \in Levels /\ NotFinite \in Levels
    /\ ZeroPressure \in Iterates
    /\ \A level \in Levels : level \in Nat
    /\ 0 \in 0..Limit /\ Limit \in 0..Limit
    /\ Successes \subseteq Reasons /\ Failures \subseteq Reasons
BY PressureAssumption
DEF Levels, NotFinite, ZeroPressure, Iterates, Reasons

\* The parts of the type invariant that a solve that ends resets.
LocalsOK ==
    /\ phase \in {"idle", "refuse", "zero", "start", "initial", "loop",
                  "observe", "recheck", "next", "stopped", "retry", "margin",
                  "decided"}
    /\ value \in Iterates /\ relative \in Levels /\ iterations \in 0..Limit
    /\ action \in {"none", "own"} /\ floor \in Floors \cup {NoPressure}
    /\ completed \in Iterates \cup {NoPressure}
    /\ reason \in Reasons /\ acceptable \in BOOLEAN /\ failure \in Failures

WarmOK == /\ guess \in Tensors \cup {NoPressure}
          /\ cache \in Tensors \cup {NoPressure}
          /\ warm \in Tensors \cup {NoPressure}

LEMMA TypesInParts ==
    /\ PressureTypeOK <=> /\ LocalsOK /\ WarmOK /\ fixedWork \in BOOLEAN
                          /\ outcome \in Outcomes \cup {NoPressure}
                          /\ made \in 0..MaxSolves
    /\ PressureTypeOK' <=> /\ LocalsOK' /\ WarmOK' /\ fixedWork' \in BOOLEAN
                           /\ outcome' \in Outcomes \cup {NoPressure}
                           /\ made' \in 0..MaxSolves
BY DEF PressureTypeOK, LocalsOK, WarmOK

LEMMA LeaveTyped == Leave => LocalsOK'
BY ConstantsTyped DEF Leave, LocalsOK, Reasons, Failures

LEMMA RecordTyped ==
    ASSUME PressureTypeOK, NEW ok \in BOOLEAN, NEW why \in Reasons,
           NEW level \in Levels, Record(ok, why, level)
    PROVE  /\ outcome' \in Outcomes
           /\ outcome' # NoPressure
           /\ outcome'.ok = ok /\ outcome'.reason = why
           /\ outcome'.iterations = iterations /\ outcome'.relative = level
           /\ outcome'.returned = value /\ outcome'.solve = made
           /\ outcome'.floor = (floor # NoPressure)
<1> DEFINE f == (floor # NoPressure)
           o == [solve |-> made, ok |-> ok, reason |-> why,
                 iterations |-> iterations, relative |-> level,
                 returned |-> value, floor |-> f]
<1>1. outcome' = o
  BY DEF Record
<1>2. /\ made \in 0..MaxSolves /\ iterations \in 0..Limit
      /\ value \in Iterates /\ f \in BOOLEAN
  BY DEF PressureTypeOK
<1> HIDE DEF f
<1>3. o \in Outcomes
  BY <1>2 DEF Outcomes
<1>4. o # NoPressure
  BY <1>3, NoPressureAssumption
<1>5. /\ o.ok = ok /\ o.reason = why /\ o.iterations = iterations
      /\ o.relative = level /\ o.returned = value /\ o.solve = made
      /\ o.floor = f
  OBVIOUS
<1> HIDE DEF o
<1> QED BY <1>1, <1>3, <1>4, <1>5 DEF f

LEMMA StoreTyped ==
    ASSUME PressureTypeOK, made > 0, NEW operatorAction,
           StoreGuess(operatorAction), UNCHANGED warm
    PROVE  WarmOK'
<1>1. made \in 1..MaxSolves
  BY PressureAssumption DEF PressureTypeOK
<1>2. [tensor |-> made, version |-> 0] \in Tensors
  BY <1>1, PressureAssumption DEF Tensors
<1> QED BY <1>2, TypesInParts DEF StoreGuess, WarmOK

\* A solve that ends, well or not.
LEMMA RaiseTyped ==
    ASSUME PressureTypeOK, NEW why \in Reasons, NEW level \in Levels,
           RaiseFailure(why, level), UNCHANGED <<fixedWork, cache, warm, made>>
    PROVE  PressureTypeOK'
BY RecordTyped, LeaveTyped, TypesInParts DEF RaiseFailure, WarmOK

LEMMA ReturnTyped ==
    ASSUME PressureTypeOK, made > 0, NEW why \in Reasons,
           NEW level \in Levels, NEW operatorAction,
           Return(operatorAction, why, level), UNCHANGED <<fixedWork, warm, made>>
    PROVE  PressureTypeOK'
<1>1. WarmOK'
  BY StoreTyped DEF Return
<1> QED BY <1>1, RecordTyped, LeaveTyped, TypesInParts DEF Return

LEMMA PressureInitInv == PressureInit => PressureInv
<1> SUFFICES ASSUME PressureInit PROVE PressureInv
  OBVIOUS
<1>1. LocalsOK
  BY ConstantsTyped DEF PressureInit, LocalsOK, Reasons, Failures
<1>2. PressureTypeOK
  BY <1>1, TypesInParts, PressureAssumption DEF PressureInit, WarmOK
<1>3. CountInv /\ WarmInv /\ PhaseInv
  BY DEF PressureInit, CountInv, WarmInv, PhaseInv, ZeroPressure
<1> QED
  BY <1>2, <1>3
  DEF PressureInit, PressureInv, AcceptedMeetsContract, OutcomeBelongsToResult

\* The starting point: the guess itself, or nothing.
LEMMA CachedActionIsOfTheGuess ==
    ASSUME WarmOK, guess # NoPressure
    PROVE  CachedAction \in {NoPressure, guess}
BY NoPressureAssumption DEF CachedAction, WarmOK, Tensors

LEMMA StopTyped ==
    ASSUME PressureTypeOK, NEW why \in Failures, StopForFailure(why)
    PROVE  /\ value' \in Iterates /\ iterations' \in 0..Limit
           /\ reason' \in Reasons /\ acceptable' \in BOOLEAN
           /\ failure' \in Failures
BY NoPressureAssumption, ConstantsTyped
DEF StopForFailure, PressureTypeOK, Floors, Iterates, Reasons, Successes

LEMMA PressureTypes == PressureInv /\ PressureNext => PressureTypeOK'
<1> SUFFICES ASSUME PressureInv, PressureNext PROVE PressureTypeOK'
  OBVIOUS
<1> USE ConstantsTyped, PressureAssumption, NoPressureAssumption
<1>0. /\ PressureTypeOK /\ LocalsOK /\ WarmOK /\ fixedWork \in BOOLEAN
      /\ outcome \in Outcomes \cup {NoPressure} /\ made \in 0..MaxSolves
      /\ phase # "idle" => made > 0
  BY TypesInParts DEF PressureInv, WarmInv
<1>1. CASE BeginSolve
  BY <1>0, <1>1, TypesInParts
  DEF BeginSolve, LocalsOK, WarmOK, iterateVars, decisionVars, warmVars
<1>2. CASE RefuseInput
  BY <1>0, <1>2, RaiseTyped DEF RefuseInput, Reasons, Failures
<1>3. CASE ReturnZero
  <2>1. Return("none", "zero_rhs", 0)
    BY <1>3 DEF ReturnZero, Return
  <2> QED BY <1>0, <1>3, <2>1, ReturnTyped DEF ReturnZero, Reasons, Successes
<1>4. CASE StartFromGuess
  <2>1. guess # NoPressure => CachedAction \in {NoPressure, guess}
    BY <1>0, CachedActionIsOfTheGuess
  <2>2. value' \in Iterates /\ relative' \in Levels /\ action' = "own"
        /\ cache' \in Tensors \cup {NoPressure}
    BY <1>0, <1>4, <2>1 DEF StartFromGuess, Iterates, WarmOK
  <2> QED
    BY <1>0, <1>4, <2>2, TypesInParts
    DEF StartFromGuess, LocalsOK, WarmOK, decisionVars
<1>5. CASE ObserveInitial
  <2>1. CASE \E why \in Reasons, level \in Levels :
               RaiseFailure(why, level) /\ UNCHANGED cache
    BY <1>0, <1>5, <2>1, RaiseTyped DEF ObserveInitial
  <2>2. CASE \E why \in Reasons, level \in Levels : Return(action, why, level)
    BY <1>0, <1>5, <2>2, ReturnTyped DEF ObserveInitial
  <2>3. CASE /\ phase' = "loop" /\ action' = "none"
             /\ floor' = IF fixedWork /\ AtFloor(relative)
                         THEN [value |-> value, recurrence |-> relative]
                         ELSE NoPressure
             /\ UNCHANGED <<warmVars, value, relative, iterations, completed,
                            reason, acceptable, failure, outcome>>
    <3>1. floor' \in Floors \cup {NoPressure}
      BY <1>0, <2>3 DEF Floors, LocalsOK
    <3> QED
      BY <1>0, <1>5, <2>3, <3>1, TypesInParts
      DEF ObserveInitial, LocalsOK, WarmOK, warmVars
  <2> QED
    BY <1>0, <1>5, <2>1, <2>2, <2>3
    DEF ObserveInitial, LocalsOK, Reasons, Successes, Failures
<1>6. CASE UpdatePressure
  <2>1. CASE \E why \in Failures : Stop(why)
    BY <1>0, <1>6, <2>1, StopTyped, TypesInParts
    DEF UpdatePressure, Stop, LocalsOK, WarmOK, warmVars
  <2>2. CASE /\ iterations' = iterations + 1
             /\ \E level \in Levels :
                   value' = [iterate |-> iterations + 1, level |-> level]
             /\ phase' = "observe" /\ action' = "none"
             /\ UNCHANGED <<relative, decisionVars>>
    <3>1. iterations' \in 0..Limit
      BY <1>0, <1>6, <2>2 DEF UpdatePressure, LocalsOK
    <3>2. value' \in Iterates
      BY <2>2, <3>1 DEF Iterates
    <3> QED
      BY <1>0, <1>6, <2>2, <3>1, <3>2, TypesInParts
      DEF UpdatePressure, LocalsOK, WarmOK, warmVars, decisionVars
  <2> QED BY <1>6, <2>1, <2>2 DEF UpdatePressure, Failures
<1>7. CASE LeaveLoop
  BY <1>0, <1>7, TypesInParts
  DEF LeaveLoop, LocalsOK, WarmOK, warmVars, iterateVars, decisionVars
<1>8. CASE ObserveResidual
  <2>1. CASE Stop("nonfinite_intermediate")
    BY <1>0, <1>8, <2>1, StopTyped, TypesInParts
    DEF ObserveResidual, Stop, LocalsOK, WarmOK, warmVars, Failures
  <2>2. ASSUME NEW level \in 0..Top, Consider(level) PROVE PressureTypeOK'
    <3>0. level \in Levels /\ relative' = level /\ UNCHANGED action
      BY <2>2 DEF Consider, Levels, NotFinite
    <3>1. CASE Settle("exact_zero_residual", TRUE) /\ UNCHANGED floor
      BY <1>0, <1>8, <3>0, <3>1, TypesInParts
      DEF ObserveResidual, Settle, LocalsOK, WarmOK, warmVars, Reasons,
          Successes
    <3>2. CASE /\ phase' = "next"
               /\ floor' \in {[value |-> value, recurrence |-> level], floor}
               /\ UNCHANGED <<value, iterations, completed, reason, acceptable,
                              failure>>
      <4>1. floor' \in Floors \cup {NoPressure}
        BY <1>0, <3>0, <3>2 DEF Floors, LocalsOK
      <4> QED
        BY <1>0, <1>8, <3>0, <3>2, <4>1, TypesInParts
        DEF ObserveResidual, LocalsOK, WarmOK, warmVars
    <3>3. CASE StopForFailure("iteration_limit") /\ phase' = "stopped"
               /\ UNCHANGED <<floor, completed>>
      BY <1>0, <1>8, <3>0, <3>3, StopTyped, TypesInParts
      DEF ObserveResidual, LocalsOK, WarmOK, warmVars, Failures
    <3>4. CASE /\ phase' \in {"recheck", "next"}
               /\ UNCHANGED <<value, iterations, decisionVars>>
      BY <1>0, <1>8, <3>0, <3>4, TypesInParts
      DEF ObserveResidual, LocalsOK, WarmOK, warmVars, decisionVars
    <3> QED BY <2>2, <3>1, <3>2, <3>3, <3>4 DEF Consider
  <2> QED BY <1>8, <2>1, <2>2 DEF ObserveResidual
<1>9. CASE RecheckTolerance
  <2>1. relative' \in Levels
    BY <1>0, <1>9 DEF RecheckTolerance, LocalsOK, Iterates
  <2>2. CASE \E why \in Reasons, ok \in BOOLEAN :
               Settle(why, ok) /\ action' = "own"
    BY <1>0, <1>9, <2>1, <2>2, TypesInParts
    DEF RecheckTolerance, Settle, LocalsOK, WarmOK, warmVars
  <2>3. CASE /\ phase' = "loop" /\ action' = "none"
             /\ UNCHANGED <<value, iterations, completed, reason, acceptable,
                            failure>>
    BY <1>0, <1>9, <2>1, <2>3, TypesInParts
    DEF RecheckTolerance, LocalsOK, WarmOK, warmVars
  <2> QED
    BY <1>0, <1>9, <2>2, <2>3
    DEF RecheckTolerance, Reasons, Successes, Failures
<1>10. CASE NextDirection
  <2>1. CASE \E why \in Reasons, ok \in BOOLEAN :
               Settle(why, ok) /\ UNCHANGED <<relative, action, floor>>
    BY <1>0, <1>10, <2>1, TypesInParts
    DEF NextDirection, Settle, LocalsOK, WarmOK, warmVars
  <2>2. CASE \E why \in Failures : Stop(why)
    BY <1>0, <1>10, <2>2, StopTyped, TypesInParts
    DEF NextDirection, Stop, LocalsOK, WarmOK, warmVars
  <2>3. CASE phase' = "loop" /\ UNCHANGED <<iterateVars, decisionVars>>
    BY <1>0, <1>10, <2>3, TypesInParts
    DEF NextDirection, LocalsOK, WarmOK, warmVars, iterateVars, decisionVars
  <2> QED
    BY <1>10, <2>1, <2>2, <2>3
    DEF NextDirection, Reasons, Successes, Failures
<1>11. CASE CheckRepresented
  <2>1. /\ floor \in Floors /\ value.level \in Levels
        /\ floor.value \in Iterates /\ floor.value.iterate \in 0..Limit
    BY <1>0, <1>11
    DEF CheckRepresented, NeedsPostcondition, LocalsOK, Floors, Iterates
  <2>2. /\ value' \in Iterates /\ iterations' \in 0..Limit
        /\ relative' \in Levels /\ completed' \in Iterates \cup {NoPressure}
        /\ reason' \in Reasons /\ acceptable' \in BOOLEAN
    BY <1>0, <1>11, <2>1
    DEF CheckRepresented, LocalsOK, Reasons, Failures
  <2>3. phase' \in {"decided", "retry", "margin"}
    BY <1>11 DEF CheckRepresented
  <2> QED
    BY <1>0, <1>11, <2>2, <2>3, TypesInParts
    DEF CheckRepresented, LocalsOK, WarmOK, warmVars
<1>12. CASE RetryFloor
  <2>1. /\ relative' \in Levels /\ reason' \in Reasons
        /\ acceptable' \in BOOLEAN
    BY <1>0, <1>12
    DEF RetryFloor, LocalsOK, Iterates, Reasons, Successes, Failures
  <2> QED
    BY <1>0, <1>12, <2>1, TypesInParts
    DEF RetryFloor, LocalsOK, WarmOK, warmVars
<1>13. CASE GrantMargin
  <2>1. /\ value' \in Iterates /\ iterations' \in 0..Limit
        /\ relative' \in Levels
    BY <1>0, <1>13 DEF GrantMargin, LocalsOK, Iterates
  <2>2. reason' \in Reasons /\ acceptable' \in BOOLEAN
    BY <1>0, <1>13
    DEF GrantMargin, FinishPostcondition, LocalsOK, Reasons, Successes
  <2> QED
    BY <1>0, <1>13, <2>1, <2>2, TypesInParts
    DEF GrantMargin, LocalsOK, WarmOK, warmVars
<1>14. CASE DeliverPressure
  <2>1. phase # "idle" /\ relative \in Levels /\ reason \in Reasons
        /\ "nonfinite_intermediate" \in Reasons
    BY <1>0, <1>14 DEF DeliverPressure, LocalsOK, Reasons, Failures
  <2> QED
    BY <1>0, <1>14, <2>1, RaiseTyped, ReturnTyped DEF DeliverPressure
<1>15. CASE BreakOff
  BY <1>0, <1>15, LeaveTyped, TypesInParts DEF BreakOff, WarmOK, warmVars
<1>16. CASE RestoreGuess
  <2>1. made' \in 1..MaxSolves
    BY <1>0, <1>16 DEF RestoreGuess
  <2>2. guess' \in Tensors
    BY <1>16, <2>1 DEF RestoreGuess, Tensors
  <2> QED
    BY <1>0, <1>16, <2>1, <2>2, TypesInParts
    DEF RestoreGuess, LocalsOK, WarmOK, iterateVars, decisionVars
<1>17. CASE DropGuess
  BY <1>0, <1>17, TypesInParts
  DEF DropGuess, LocalsOK, WarmOK, iterateVars, decisionVars
<1>18. CASE OverwriteGuess
  <2>1. guess' \in Tensors
    BY <1>0, <1>18 DEF OverwriteGuess, WarmOK, Tensors
  <2> QED
    BY <1>0, <1>18, <2>1, TypesInParts
    DEF OverwriteGuess, LocalsOK, WarmOK, iterateVars, decisionVars
<1> QED
  BY <1>1, <1>2, <1>3, <1>4, <1>5, <1>6, <1>7, <1>8, <1>9, <1>10, <1>11,
     <1>12, <1>13, <1>14, <1>15, <1>16, <1>17, <1>18
  DEF PressureNext, PressureStep

LEMMA PressureTypesStep ==
    PressureInv /\ [PressureNext]_pressureVars => PressureTypeOK'
BY PressureTypes
DEF PressureInv, PressureTypeOK, pressureVars, warmVars, iterateVars,
    decisionVars

----------------------------------------------------------------------------
\* The other parts.

\* What is true of a pressure when it is accepted.
Well(why, level) ==
    /\ why = "relative_tolerance_met" =>
          level = value.level /\ value.level <= Tolerance
    /\ why = "fixed_work_roundoff_saturation" =>
          level = value.level /\ AtFloor(value.level)
    /\ why = "fixed_work_completed" /\ floor # NoPressure =>
          level = value.level /\ WithinMargin(value.level)
    /\ why = "exact_zero_residual" /\ iterations = 0 => value.level = 0

OutcomeInv == AcceptedMeetsContract /\ OutcomeBelongsToResult

LEMMA LeaveRest == Leave => CountInv' /\ PhaseInv'
BY DEF Leave, CountInv, PhaseInv, ZeroPressure

\* A solve that raises says nothing of a pressure, and one that returns a
\* good pressure says so.
LEMMA RaiseRest ==
    ASSUME PressureInv, NEW why \in Reasons, NEW level \in Levels,
           RaiseFailure(why, level), UNCHANGED made
    PROVE  CountInv' /\ PhaseInv' /\ WarmInv' /\ OutcomeInv'
<1>0. PressureTypeOK /\ Record(FALSE, why, level) /\ Leave
  BY DEF PressureInv, RaiseFailure
<1>1. outcome' # NoPressure /\ outcome'.ok = FALSE /\ outcome'.solve = made
  BY <1>0, RecordTyped
<1>2. made \in Nat /\ phase' = "idle"
  BY <1>0, PressureAssumption DEF PressureTypeOK, Leave
<1>3. WarmInv'
  BY <1>1, <1>2 DEF WarmInv
<1>4. OutcomeInv'
  BY <1>1 DEF OutcomeInv, AcceptedMeetsContract, OutcomeBelongsToResult
<1> QED BY <1>0, <1>3, <1>4, LeaveRest

LEMMA ReturnRest ==
    ASSUME PressureInv, NEW why \in Reasons, NEW level \in Levels,
           Record(TRUE, why, level), Leave, Well(why, level), UNCHANGED made
    PROVE  CountInv' /\ PhaseInv' /\ WarmInv' /\ OutcomeInv'
<1>0. PressureTypeOK /\ iterations = value.iterate
  BY DEF PressureInv, CountInv
<1>1. /\ outcome' # NoPressure /\ outcome'.solve = made
      /\ outcome'.reason = why /\ outcome'.iterations = iterations
      /\ outcome'.relative = level /\ outcome'.returned = value
      /\ outcome'.floor = (floor # NoPressure)
  BY <1>0, RecordTyped
<1>2. made \in Nat /\ phase' = "idle"
  BY <1>0, PressureAssumption DEF PressureTypeOK, Leave
<1>3. WarmInv'
  BY <1>1, <1>2 DEF WarmInv
<1>4. AcceptedMeetsContract'
  BY <1>1 DEF AcceptedMeetsContract, Well
<1>5. OutcomeBelongsToResult'
  BY <1>0, <1>1 DEF OutcomeBelongsToResult, Well
<1> QED BY <1>3, <1>4, <1>5, LeaveRest DEF OutcomeInv

\* A step within a solve leaves the last outcome and the warm start.
LEMMA InnerRest ==
    ASSUME PressureInv, phase # "idle", UNCHANGED <<guess, outcome, warm, made>>
    PROVE  WarmInv' /\ OutcomeInv'
BY DEF PressureInv, WarmInv, OutcomeInv, AcceptedMeetsContract,
       OutcomeBelongsToResult

LEMMA StopRest ==
    ASSUME PressureInv, NEW why \in Failures, StopForFailure(why),
           phase' = "stopped", UNCHANGED <<floor, completed>>,
           phase \in {"loop", "observe", "next"}
    PROVE  CountInv' /\ PhaseInv'
<1> USE NoPressureAssumption
<1>0. /\ floor \in Floors \cup {NoPressure} /\ acceptable = FALSE
      /\ CountInv /\ completed = NoPressure
  BY DEF PressureInv, PressureTypeOK, PhaseInv
<1>1. CASE fixedWork /\ floor # NoPressure
  BY <1>0, <1>1 DEF StopForFailure, CountInv, PhaseInv, StoppedWell
<1>2. CASE ~(fixedWork /\ floor # NoPressure)
  BY <1>0, <1>2 DEF StopForFailure, CountInv, PhaseInv, StoppedWell
<1> QED BY <1>1, <1>2

LEMMA SettleRest ==
    ASSUME PressureInv, NEW why, NEW ok, Settle(why, ok),
           phase \in {"observe", "recheck", "next"},
           ok => \/ why = "exact_zero_residual"
                 \/ why = "fixed_work_completed" /\ iterations = Limit
                 \/ why = "relative_tolerance_met" /\ relative' = value.level
                    /\ value.level <= Tolerance
    PROVE  CountInv' /\ PhaseInv'
<1>0. /\ iterations > 0 /\ CountInv /\ completed = NoPressure
  BY DEF PressureInv, PhaseInv
<1>1. ok => StoppedWell'
  BY <1>0 DEF Settle, StoppedWell
<1> QED BY <1>0, <1>1 DEF Settle, CountInv, PhaseInv

LEMMA RestOfStep ==
    PressureInv /\ PressureNext =>
        CountInv' /\ PhaseInv' /\ WarmInv' /\ OutcomeInv'
<1> DEFINE Rest == CountInv' /\ PhaseInv' /\ WarmInv' /\ OutcomeInv'
<1> SUFFICES ASSUME PressureInv, PressureNext PROVE Rest
  OBVIOUS
<1> USE PressureAssumption, NoPressureAssumption
<1>0. /\ PressureTypeOK /\ CountInv /\ WarmInv /\ PhaseInv
      /\ AcceptedMeetsContract /\ OutcomeBelongsToResult
  BY DEF PressureInv
<1>a. /\ made \in Nat /\ Top \in Nat /\ relative \in Levels /\ 0 \in Levels
      /\ NotFinite \in Levels /\ Top \in Levels /\ action \in {"none", "own"}
      /\ value \in Iterates /\ value.level \in Nat /\ relative \in Nat
      /\ reason \in Reasons /\ "nonfinite_intermediate" \in Reasons
      /\ floor \in Floors \cup {NoPressure} /\ iterations \in Nat
      /\ completed \in Iterates \cup {NoPressure}
  BY <1>0, ConstantsTyped
  DEF PressureTypeOK, Iterates, Levels, Reasons, Failures
<1>1. CASE BeginSolve
  <2>1. CountInv' /\ PhaseInv'
    BY <1>0, <1>1
    DEF BeginSolve, CountInv, PhaseInv, iterateVars, decisionVars
  <2>2. OutcomeInv'
    BY <1>0, <1>1
    DEF BeginSolve, OutcomeInv, AcceptedMeetsContract, OutcomeBelongsToResult
  <2>3. outcome # NoPressure => outcome.solve \in Nat
    BY <1>0 DEF PressureTypeOK, Outcomes
  <2>4. WarmInv'
    BY <1>0, <1>a, <1>1, <2>3 DEF BeginSolve, WarmInv, warmVars
  <2> QED BY <2>1, <2>2, <2>4
<1>2. CASE RefuseInput
  BY <1>a, <1>2, RaiseRest DEF RefuseInput, Reasons, Failures
<1>3. CASE ReturnZero
  <2>1. Well("zero_rhs", 0) /\ "zero_rhs" \in Reasons
    BY DEF Well, Reasons, Successes
  <2> QED BY <1>a, <1>3, <2>1, ReturnRest DEF ReturnZero
<1>4. CASE StartFromGuess
  <2>1. CountInv'
    BY <1>0, <1>4
    DEF StartFromGuess, CountInv, PhaseInv, ZeroPressure, decisionVars
  <2>2. action' = "own"
    BY <1>0, <1>4, CachedActionIsOfTheGuess
    DEF StartFromGuess, PressureTypeOK, WarmOK
  <2>3. WarmInv' /\ OutcomeInv'
    BY <1>4, InnerRest DEF StartFromGuess
  <2>4. PhaseInv'
    BY <1>0, <1>4, <2>2 DEF StartFromGuess, PhaseInv, ZeroPressure, decisionVars
  <2> QED BY <2>1, <2>3, <2>4
<1>5. CASE ObserveInitial
  <2>0. phase = "initial" /\ relative = value.level /\ iterations = 0
        /\ floor = NoPressure /\ made' = made
    BY <1>0, <1>5 DEF ObserveInitial, PhaseInv
  <2>1. CASE \E why \in Reasons, level \in Levels : RaiseFailure(why, level)
    BY <2>0, <2>1, RaiseRest
  <2>2. CASE \E why \in {"exact_zero_residual", "relative_tolerance_met"} :
               /\ Return(action, why, relative)
               /\ why = "exact_zero_residual" => relative = 0
               /\ why = "relative_tolerance_met" => relative <= Tolerance
    <3>1. PICK why \in {"exact_zero_residual", "relative_tolerance_met"} :
             /\ Return(action, why, relative)
             /\ why = "exact_zero_residual" => relative = 0
             /\ why = "relative_tolerance_met" => relative <= Tolerance
      BY <2>2
    <3>2. Well(why, relative) /\ why \in Reasons
      BY <2>0, <3>1 DEF Well, Reasons, Successes
    <3> QED BY <1>a, <2>0, <3>1, <3>2, ReturnRest DEF Return
  <2>3. CASE /\ phase' = "loop" /\ action' = "none"
             /\ UNCHANGED <<warmVars, value, relative, iterations, completed,
                            reason, acceptable, failure, outcome>>
    <3>1. CountInv' /\ PhaseInv'
      BY <1>0, <2>0, <2>3 DEF CountInv, PhaseInv
    <3>2. WarmInv' /\ OutcomeInv'
      BY <1>5, <2>0, <2>3, InnerRest DEF ObserveInitial, warmVars
    <3> QED BY <3>1, <3>2
  <2> QED
    BY <1>a, <1>5, <2>1, <2>2, <2>3
    DEF ObserveInitial, Reasons, Successes, Failures
<1>6. CASE UpdatePressure
  <2>1. WarmInv' /\ OutcomeInv'
    BY <1>6, InnerRest DEF UpdatePressure, warmVars
  <2>2. CASE \E why \in Failures : Stop(why)
    BY <1>6, <2>1, <2>2, StopRest DEF UpdatePressure, Stop
  <2>3. CASE /\ iterations' = iterations + 1
             /\ \E level \in Levels :
                   value' = [iterate |-> iterations + 1, level |-> level]
             /\ phase' = "observe" /\ action' = "none"
             /\ UNCHANGED <<relative, decisionVars>>
    <3>1. iterations' > 0 /\ iterations' = value'.iterate
      BY <1>a, <2>3
    <3> QED
      BY <1>0, <1>6, <2>1, <2>3, <3>1
      DEF UpdatePressure, CountInv, PhaseInv, decisionVars
  <2> QED BY <1>6, <2>2, <2>3 DEF UpdatePressure, Failures
<1>7. CASE LeaveLoop
  <2>1. WarmInv' /\ OutcomeInv'
    BY <1>7, InnerRest DEF LeaveLoop, warmVars
  <2> QED
    BY <1>0, <1>7, <2>1
    DEF LeaveLoop, CountInv, PhaseInv, iterateVars, decisionVars
<1>8. CASE ObserveResidual
  <2>1. WarmInv' /\ OutcomeInv'
    BY <1>8, InnerRest DEF ObserveResidual, warmVars
  <2>2. CASE Stop("nonfinite_intermediate")
    BY <1>8, <2>1, <2>2, StopRest DEF ObserveResidual, Stop, Failures
  <2>3. CASE Settle("exact_zero_residual", TRUE)
    BY <1>8, <2>1, <2>3, SettleRest DEF ObserveResidual
  <2>4. CASE /\ phase' \in {"next", "recheck"}
             /\ UNCHANGED <<value, iterations, completed, reason, acceptable,
                            failure>>
    BY <1>0, <1>8, <2>1, <2>4 DEF ObserveResidual, CountInv, PhaseInv
  <2>5. CASE StopForFailure("iteration_limit") /\ phase' = "stopped"
             /\ UNCHANGED <<floor, completed>>
    BY <1>8, <2>1, <2>5, StopRest DEF ObserveResidual, Failures
  <2> QED
    BY <1>8, <2>2, <2>3, <2>4, <2>5 DEF ObserveResidual, Consider, decisionVars
<1>9. CASE RecheckTolerance
  <2>1. WarmInv' /\ OutcomeInv'
    BY <1>9, InnerRest DEF RecheckTolerance, warmVars
  <2>2. CASE \E why \in Reasons, ok \in BOOLEAN :
               /\ Settle(why, ok)
               /\ ok => \/ why = "exact_zero_residual"
                        \/ why = "relative_tolerance_met"
                           /\ value.level <= Tolerance
    BY <1>9, <2>1, <2>2, SettleRest DEF RecheckTolerance
  <2>3. CASE /\ phase' = "loop"
             /\ UNCHANGED <<value, iterations, completed, reason, acceptable,
                            failure>>
    BY <1>0, <1>9, <2>1, <2>3 DEF RecheckTolerance, CountInv, PhaseInv
  <2> QED
    BY <1>9, <2>2, <2>3
    DEF RecheckTolerance, Reasons, Successes, Failures
<1>10. CASE NextDirection
  <2>1. WarmInv' /\ OutcomeInv'
    BY <1>10, InnerRest DEF NextDirection, warmVars
  <2>2. CASE \E why \in Failures : Stop(why)
    BY <1>10, <2>1, <2>2, StopRest DEF NextDirection, Stop
  <2>3. CASE \E why \in Reasons, ok \in BOOLEAN :
               /\ Settle(why, ok)
               /\ ok => why = "fixed_work_completed" /\ iterations = Limit
    BY <1>10, <2>1, <2>3, SettleRest DEF NextDirection
  <2>4. CASE phase' = "loop" /\ UNCHANGED <<iterateVars, decisionVars>>
    BY <1>0, <1>10, <2>1, <2>4
    DEF NextDirection, CountInv, PhaseInv, iterateVars, decisionVars
  <2> QED BY <1>10, <2>2, <2>3, <2>4
     DEF NextDirection, Reasons, Successes, Failures
<1>11. CASE CheckRepresented
  <2>1. WarmInv' /\ OutcomeInv'
    BY <1>11, InnerRest DEF CheckRepresented, warmVars
  <2>2. /\ phase = "stopped" /\ acceptable /\ StoppedWell
        /\ floor # NoPressure /\ floor \in Floors
        /\ reason \in {"fixed_work_completed", "fixed_work_roundoff_saturation"}
    BY <1>0, <1>a, <1>11 DEF CheckRepresented, NeedsPostcondition, PhaseInv
  <2>3. CountInv'
    BY <1>0, <2>2, <1>11 DEF CheckRepresented, CountInv, StoppedWell
  <2>4. PhaseInv'
    BY <1>0, <1>a, <2>2, <1>11 DEF CheckRepresented, PhaseInv
  <2> QED BY <2>1, <2>3, <2>4
<1>12. CASE RetryFloor
  <2>1. WarmInv' /\ OutcomeInv'
    BY <1>12, InnerRest DEF RetryFloor, warmVars
  <2> QED
    BY <1>0, <1>12, <2>1 DEF RetryFloor, CountInv, PhaseInv
<1>13. CASE GrantMargin
  <2>1. WarmInv' /\ OutcomeInv'
    BY <1>13, InnerRest DEF GrantMargin, warmVars
  <2> DEFINE kept == /\ ~RepresentedAtFloor /\ completed # NoPressure
                     /\ WithinMargin(completed.level)
  <2>2. CASE kept
    <3>1. CountInv'
      BY <1>0, <1>13, <2>2 DEF GrantMargin, CountInv
    <3>2. PhaseInv'
      BY <1>0, <1>13, <2>2 DEF GrantMargin, FinishPostcondition, PhaseInv,
                                DecidedWell, RepresentedAtFloor
    <3> QED BY <2>1, <3>1, <3>2
  <2>3. CASE ~kept
    <3>1. CountInv'
      BY <1>0, <1>13, <2>3 DEF GrantMargin, CountInv
    <3>2. PhaseInv'
      BY <1>0, <1>13, <2>3, <1>a
      DEF GrantMargin, FinishPostcondition, PhaseInv, DecidedWell,
          RepresentedAtFloor
    <3> QED BY <2>1, <3>1, <3>2
  <2> QED BY <2>2, <2>3
<1>14. CASE DeliverPressure
  <2>1. CASE acceptable /\ Return(action, reason, relative)
    <3>1. Well(reason, relative)
      BY <1>0, <1>a, <1>14, <2>1
      DEF DeliverPressure, NeedsPostcondition, PhaseInv, StoppedWell,
          DecidedWell, Well
    <3> QED BY <1>a, <1>14, <2>1, <3>1, ReturnRest DEF DeliverPressure, Return
  <2>2. CASE \E why \in Reasons : RaiseFailure(why, relative)
    BY <1>a, <1>14, <2>2, RaiseRest DEF DeliverPressure
  <2> QED BY <1>a, <1>14, <2>1, <2>2 DEF DeliverPressure
<1>15. CASE BreakOff
  <2>1. OutcomeInv'
    BY <1>15, InnerRest DEF BreakOff, warmVars
  <2>2. WarmInv'
    BY <1>0, <1>15 DEF BreakOff, WarmInv, Leave
  <2> QED BY <1>15, <2>1, <2>2, LeaveRest DEF BreakOff
<1>16. CASE RestoreGuess
  <2>1. OutcomeInv' /\ CountInv' /\ PhaseInv'
    BY <1>0, <1>16
    DEF RestoreGuess, OutcomeInv, AcceptedMeetsContract,
        OutcomeBelongsToResult, CountInv, PhaseInv, iterateVars, decisionVars
  <2>2. outcome # NoPressure => outcome.solve \in Nat
    BY <1>0 DEF PressureTypeOK, Outcomes
  <2>3. WarmInv'
    BY <1>0, <1>a, <1>16, <2>2 DEF RestoreGuess, WarmInv
  <2> QED BY <2>1, <2>3
<1>17. CASE DropGuess \/ OverwriteGuess
  BY <1>0, <1>17
  DEF DropGuess, OverwriteGuess, OutcomeInv, AcceptedMeetsContract, WarmInv,
      OutcomeBelongsToResult, CountInv, PhaseInv, iterateVars, decisionVars
<1> QED
  BY <1>1, <1>2, <1>3, <1>4, <1>5, <1>6, <1>7, <1>8, <1>9, <1>10, <1>11,
     <1>12, <1>13, <1>14, <1>15, <1>16, <1>17
  DEF PressureNext, PressureStep
LEMMA PressureInvStep ==
    PressureInv /\ [PressureNext]_pressureVars => PressureInv'
<1>1. ASSUME PressureInv, PressureNext PROVE PressureInv'
  BY <1>1, PressureTypes, RestOfStep DEF PressureInv, OutcomeInv
<1>2. ASSUME PressureInv, UNCHANGED pressureVars PROVE PressureInv'
  <2>1. PressureTypeOK'
    BY <1>2, PressureTypesStep
  <2>2. CountInv' /\ WarmInv' /\ PhaseInv'
    BY <1>2
    DEF PressureInv, CountInv, WarmInv, PhaseInv, StoppedWell, DecidedWell,
        pressureVars, warmVars, iterateVars, decisionVars
  <2>3. AcceptedMeetsContract' /\ OutcomeBelongsToResult'
    BY <1>2
    DEF PressureInv, AcceptedMeetsContract, OutcomeBelongsToResult,
        pressureVars
  <2> QED BY <2>1, <2>2, <2>3 DEF PressureInv
<1> QED BY <1>1, <1>2

LEMMA PressureAlways == PressureSpec => []PressureInv
BY PressureInitInv, PressureInvStep, PTL DEF PressureSpec

----------------------------------------------------------------------------
\* The theorems.

\* The variables of the pressure control keep their types, in particular no
\* count of iterations passes the limit.
THEOREM PressureTypesHold == PressureSpec => []PressureTypeOK
<1>1. PressureInv => PressureTypeOK
  BY DEF PressureInv
<1> QED BY <1>1, PressureAlways, PTL

\* Whatever the floor, the tolerance and the limit, a pressure that the
\* solve accepts has the residual that the reason of its acceptance states:
\* restarts, rollbacks and the retry of the floor state included.
THEOREM AcceptedPressures == PressureSpec => []AcceptedMeetsContract
<1>1. PressureInv => AcceptedMeetsContract
  BY DEF PressureInv
<1> QED BY <1>1, PressureAlways, PTL

\* The recorded iterations and residual are those of the pressure returned,
\* after every path that replaces the iterate in hand.
THEOREM OutcomesBelong == PressureSpec => []OutcomeBelongsToResult
<1>1. PressureInv => OutcomeBelongsToResult
  BY DEF PressureInv
<1> QED BY <1>1, PressureAlways, PTL

\* A solve starts from zero, or from the guess with its own operator action.
THEOREM StartsWell == PressureSpec => []StartsFromItsGuess
<1>1. PressureInv => StartsFromItsGuess
  BY DEF PressureInv, PressureTypeOK, StartsFromItsGuess
<1> QED BY <1>1, PressureAlways, PTL

\* A step that ends a solve without accepting its pressure leaves the warm
\* start the solve began with, at any point of the solve.
LEMMA EndingStep ==
    ASSUME PressureInv, PressureNext, phase # "idle", phase' = "idle",
           outcome' = outcome \/ ~outcome'.ok
    PROVE  guess' = warm
<1> USE PressureAssumption, NoPressureAssumption
<1>0. /\ PressureTypeOK /\ guess = warm /\ made > 0
      /\ outcome # NoPressure => outcome.solve < made
      /\ made \in Nat /\ relative \in Levels /\ reason \in Reasons
      /\ 0 \in Levels
  BY ConstantsTyped DEF PressureInv, WarmInv, PressureTypeOK
<1>1. ASSUME NEW why \in Reasons, NEW level \in Levels,
             Record(TRUE, why, level)
      PROVE  FALSE
  <2>1. outcome' # NoPressure /\ outcome'.ok = TRUE /\ outcome'.solve = made
    BY <1>0, <1>1, RecordTyped
  <2>2. outcome' = outcome
    BY <2>1
  <2> QED BY <1>0, <2>1, <2>2
<1>2. \/ UNCHANGED guess
      \/ \E why \in Reasons, level \in Levels : Record(TRUE, why, level)
  <2> USE DEF RaiseFailure, Return, Leave
  <2>1. CASE RefuseInput \/ StartFromGuess \/ UpdatePressure \/ LeaveLoop
    BY <2>1 DEF RefuseInput, StartFromGuess, UpdatePressure, LeaveLoop,
                warmVars
  <2>2. CASE ObserveResidual \/ RecheckTolerance \/ NextDirection \/ BreakOff
             \/ CheckRepresented \/ RetryFloor \/ GrantMargin
    BY <2>2 DEF ObserveResidual, RecheckTolerance, NextDirection, BreakOff,
                CheckRepresented, RetryFloor, GrantMargin, warmVars
  <2>3. CASE ReturnZero
    BY <1>0, <2>3 DEF ReturnZero, Reasons, Successes
  <2>4. CASE ObserveInitial
    BY <1>0, <2>4 DEF ObserveInitial, Reasons, Successes, warmVars
  <2>5. CASE DeliverPressure
    BY <1>0, <2>5 DEF DeliverPressure
  <2>6. CASE BeginSolve \/ RestoreGuess \/ DropGuess \/ OverwriteGuess
    BY <2>6 DEF BeginSolve, RestoreGuess, DropGuess, OverwriteGuess
  <2> QED
    BY <2>1, <2>2, <2>3, <2>4, <2>5, <2>6 DEF PressureNext, PressureStep
<1> QED BY <1>0, <1>1, <1>2

\* A solve that fails, or is broken off, leaves the warm start it found.
THEOREM FailuresKeepWarmStart == PressureSpec => FailureKeepsWarmStart
<1>1. ASSUME PressureInv, [PressureNext]_pressureVars
      PROVE  [phase # "idle" /\ phase' = "idle"
              /\ (outcome' = outcome \/ ~outcome'.ok)
              => guess' = warm]_pressureVars
  BY <1>1, EndingStep
<1> QED
  BY <1>1, PressureAlways, PTL DEF PressureSpec, FailureKeepsWarmStart

----------------------------------------------------------------------------
\* Every solve ends.

\* The phases in and before the loop, and those after it.
Inner == {"start", "initial", "loop", "observe", "recheck", "next"}
Outer == {"idle", "refuse", "zero", "decided", "margin", "retry", "stopped"}

LEMMA RanksOfPhases ==
    PressureTypeOK =>
        /\ phase \in Inner => StepsLeft = PhaseRank[phase]
                                            + 3 * (Limit - iterations)
        /\ phase \in Outer => StepsLeft = PhaseRank[phase]
        /\ phase \in Inner \cup Outer
        /\ iterations \in Nat /\ Limit \in Nat /\ iterations <= Limit
BY PressureAssumption
DEF PressureTypeOK, StepsLeft, PhaseRank, Inner, Outer

\* A step descends if it goes on to a phase that comes later, or from the
\* loop to an observation with one iteration more.
LEMMA LaterPhaseDescends ==
    ASSUME PressureTypeOK, PressureTypeOK', phase # "idle",
           \/ phase' \in Outer /\ (phase \in Inner \/
                                   PhaseRank[phase'] < PhaseRank[phase])
           \/ /\ {phase, phase'} \subseteq Inner /\ iterations' = iterations
              /\ PhaseRank[phase'] < PhaseRank[phase]
           \/ /\ phase = "loop" /\ phase' = "observe"
              /\ iterations' = iterations + 1
    PROVE  StepsLeft' < StepsLeft
<1> USE DEF PhaseRank, Inner, Outer
<1>1. /\ phase \in Inner => StepsLeft = PhaseRank[phase]
                                          + 3 * (Limit - iterations)
      /\ phase \in Outer => StepsLeft = PhaseRank[phase]
      /\ iterations \in Nat /\ Limit \in Nat /\ iterations <= Limit
  BY RanksOfPhases
<1>2. /\ phase' \in Inner => StepsLeft' = PhaseRank[phase']
                                            + 3 * (Limit - iterations')
      /\ phase' \in Outer => StepsLeft' = PhaseRank[phase']
      /\ iterations' \in Nat /\ iterations' <= Limit
  <2>1. PressureTypeOK' => StepsLeft' = PhaseRank[phase']
          + (IF PhaseRank[phase'] < PhaseRank.loop THEN 0
             ELSE 3 * (Limit - iterations'))
    BY DEF StepsLeft
  <2> QED BY <2>1, PressureAssumption DEF PressureTypeOK
<1>3. phase \in Inner \cup Outer
  BY RanksOfPhases
<1>4. CASE phase' \in Outer /\ phase \in Inner
  BY <1>1, <1>2, <1>4
<1>5. CASE phase' \in Outer /\ phase \in Outer
             /\ PhaseRank[phase'] < PhaseRank[phase]
  BY <1>1, <1>2, <1>5
<1>6. CASE /\ {phase, phase'} \subseteq Inner /\ iterations' = iterations
           /\ PhaseRank[phase'] < PhaseRank[phase]
  BY <1>1, <1>2, <1>6
<1>7. CASE phase = "loop" /\ phase' = "observe"
             /\ iterations' = iterations + 1
  BY <1>1, <1>2, <1>7
<1> QED BY <1>3, <1>4, <1>5, <1>6, <1>7

LEMMA SolveStepDescends ==
    ASSUME PressureInv, PressureNext, phase # "idle"
    PROVE  StepsLeft' < StepsLeft
<1>1. PressureTypeOK /\ PressureTypeOK'
  BY PressureTypes DEF PressureInv
<1>2. \/ phase' \in Outer /\ (phase \in Inner \/
                              PhaseRank[phase'] < PhaseRank[phase])
      \/ /\ {phase, phase'} \subseteq Inner /\ iterations' = iterations
         /\ PhaseRank[phase'] < PhaseRank[phase]
      \/ /\ phase = "loop" /\ phase' = "observe"
         /\ iterations' = iterations + 1
  <2> USE DEF RaiseFailure, Return, Leave, Stop, Settle, iterateVars,
          decisionVars
  <2>a. ASSUME phase \in Outer, phase' = "idle" PROVE phase' \in Outer
               /\ PhaseRank[phase'] < PhaseRank[phase]
    BY <2>a DEF Outer, PhaseRank
  <2>1. CASE RefuseInput \/ ReturnZero
    <3>1. phase \in Outer /\ phase' = "idle"
      BY <2>1 DEF RefuseInput, ReturnZero, Outer
    <3> QED BY <2>a, <3>1
  <2>2. CASE StartFromGuess
    <3>1. phase = "start" /\ phase' = "initial" /\ iterations' = iterations
      BY <2>2 DEF StartFromGuess
    <3> QED BY <3>1 DEF Inner, PhaseRank
  <2>3. CASE ObserveInitial
    <3>1. /\ phase = "initial"
          /\ \/ phase' = "idle"
             \/ phase' = "loop" /\ iterations' = iterations
      BY <2>3 DEF ObserveInitial
    <3> QED BY <3>1 DEF Inner, Outer, PhaseRank
  <2>4. CASE UpdatePressure \/ LeaveLoop
    BY <2>4 DEF UpdatePressure, LeaveLoop, Inner, Outer, PhaseRank
  <2>5. CASE ObserveResidual
    BY <2>5 DEF ObserveResidual, Consider, Inner, Outer, PhaseRank
  <2>6. CASE RecheckTolerance
    BY <2>6 DEF RecheckTolerance, Inner, Outer, PhaseRank
  <2>7. CASE NextDirection
    BY <2>7 DEF NextDirection, Inner, Outer, PhaseRank
  <2>8. CASE CheckRepresented
    <3>1. phase = "stopped" /\ phase' \in {"decided", "margin", "retry"}
      BY <2>8 DEF CheckRepresented
    <3> QED BY <3>1 DEF Outer, PhaseRank
  <2>9. CASE RetryFloor \/ GrantMargin
    <3>1. \/ phase = "retry" /\ phase' = "margin"
          \/ phase = "margin" /\ phase' = "decided"
      BY <2>9 DEF RetryFloor, GrantMargin
    <3> QED BY <3>1 DEF Outer, PhaseRank
  <2>10. CASE DeliverPressure
    <3>1. phase \in Outer /\ phase' = "idle"
      BY <2>10 DEF DeliverPressure, Outer
    <3> QED BY <2>a, <3>1
  <2>11. CASE BreakOff
    <3>1. phase' = "idle" /\ phase \in Inner \cup Outer
      BY <1>1, <2>11, RanksOfPhases DEF BreakOff
    <3>2. phase' \in Outer
      BY <3>1 DEF Outer
    <3> QED BY <2>a, <3>1, <3>2
  <2> QED
    BY <2>1, <2>2, <2>3, <2>4, <2>5, <2>6, <2>7, <2>8, <2>9, <2>10, <2>11
    DEF PressureNext, PressureStep, BeginSolve, RestoreGuess, DropGuess,
        OverwriteGuess
<1> QED BY <1>1, <1>2, LaterPhaseDescends

LEMMA StepsBounded == PressureTypeOK => StepsLeft \in 0..(7 + 3 * Limit)
<1> SUFFICES ASSUME PressureTypeOK PROVE StepsLeft \in 0..(7 + 3 * Limit)
  OBVIOUS
<1>1. PhaseRank[phase] \in 0..7
  BY DEF PressureTypeOK, PhaseRank
<1>2. \/ StepsLeft = PhaseRank[phase]
      \/ StepsLeft = PhaseRank[phase] + 3 * (Limit - iterations)
  BY RanksOfPhases
<1> QED BY <1>1, <1>2, RanksOfPhases

\* For every limit a solve ends, after at most 7 + 3 * Limit steps: no
\* sequence of residuals makes the restarts of the recurrence go on.
THEOREM SolvesEnd ==
    PressureSpec => SolveDescends /\ [](StepsLeft \in 0..(7 + 3 * Limit))
<1>1. ASSUME PressureInv, [PressureNext]_pressureVars
      PROVE  [phase # "idle" => StepsLeft' < StepsLeft]_pressureVars
  BY <1>1, SolveStepDescends
<1>2. PressureInv => StepsLeft \in 0..(7 + 3 * Limit)
  BY StepsBounded DEF PressureInv
<1> QED
  BY <1>1, <1>2, PressureAlways, PTL DEF PressureSpec, SolveDescends
==========================================================================
