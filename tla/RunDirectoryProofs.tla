----------------------- MODULE RunDirectoryProofs ------------------------
(***************************************************************************)
(* What the output directory promises, for any runs, files, schedules and  *)
(* mishaps.  The inductive invariant is built up in layers: types, what a  *)
(* run knows of the file it is writing while no two runs are alive         *)
(* together, and then one layer for each property.                         *)
(***************************************************************************)
EXTENDS RunDirectory, TLAPS

MD   == <<"metadata", 0>>
Mark == <<"COMPLETE", 0>>
NPY  == <<"npy", 0>>
CSV  == <<"csv", 0>>

----------------------------------------------------------------------------
\* Types.

\* A run that was launched has room for its steps, and goes no further.
Paced ==
    \A r \in Runs :
        /\ stage[r] # "idle" =>
             start[r] <= at[r] /\ at[r] <= Goal(r) /\ Goal(r) <= LastStep
        /\ stage[r] = "update" => at[r] < Goal(r)

TypeInv == RunTypeOK /\ Paced

USE DEF Progress

LEMMA NamesAreNames ==
    /\ MD \in Names /\ Mark \in Names /\ NPY \in Names /\ CSV \in Names
    /\ <<"initial", 0>> \in Names
    /\ \A k \in 1..Len(Parts), s \in 0..LastStep :
          /\ Frame(k, s) \in Names
          /\ Frame(k, s) \notin {MD, Mark, NPY, CSV, <<"initial", 0>>}
    /\ \A k, j \in 1..Len(Parts), s, t \in 0..LastStep :
          Frame(k, s) = Frame(j, t) => k = j /\ s = t
    /\ 1 \in 1..Len(Parts) /\ Len(Parts) \in Nat
BY RunAssumption DEF Names, Frame, MD, Mark, NPY, CSV

LEMMA FileIsNamed ==
    ASSUME RunTypeOK, NEW r \in Runs
    PROVE  File(r) \in Names
BY NamesAreNames DEF RunTypeOK, File, MD, Mark, NPY, CSV

LEMMA MoveIsTyped ==
    ASSUME RunTypeOK, NEW r \in Runs, NEW s \in Stages, Move(r, s)
    PROVE  /\ stage' \in [Runs -> Stages]
           /\ io' \in [Runs -> Progress]
           /\ part' \in [Runs -> 1..Len(Parts)]
BY NamesAreNames DEF RunTypeOK, Move, Enter

LEMMA BeginIsTyped ==
    ASSUME RunTypeOK, NEW r \in Runs, NEW s \in Stages, Begin(r, s)
    PROVE  /\ stage' \in [Runs -> Stages]
           /\ io' \in [Runs -> Progress]
           /\ part' \in [Runs -> 1..Len(Parts)]
           /\ handle' \in [Runs -> Handles]
BY MoveIsTyped DEF RunTypeOK, Begin, Handles

LEMMA RaiseIsTyped ==
    ASSUME RunTypeOK, NEW r \in Runs, Raise(r)
    PROVE  /\ stage' \in [Runs -> Stages]
           /\ io' \in [Runs -> Progress]
           /\ part' \in [Runs -> 1..Len(Parts)]
           /\ handle' \in [Runs -> Handles]
BY BeginIsTyped DEF Raise, Stages

LEMMA OthersAreTyped ==
    ASSUME RunTypeOK, NEW r \in Runs, NEW fs
    PROVE  /\ \A b \in BOOLEAN :
                 Others(r, fs, Unlinked(b)) \in [Runs -> Handles]
           /\ Others(r, fs, Renamed) \in [Runs -> Handles]
BY DEF RunTypeOK, Others, Unlinked, Renamed, Handles

LEMMA ContentsAreTyped ==
    ASSUME RunTypeOK, NEW r \in Runs, NEW w \in {"absent", "part", "whole"}
    PROVE  /\ [by |-> r, what |-> w, status |-> "none"] \in Contents
           /\ [by |-> r, what |-> w, status |-> Status(r)] \in Contents
           /\ Absent \in Contents
BY DEF Contents, Status, Statuses, Absent

LEMMA PourIsTyped ==
    ASSUME RunTypeOK, NEW r \in Runs,
           Pour(r, {"whole"}) \/ Pour(r, {"part", "whole"})
    PROVE  final' \in [Names -> Contents] /\ temp' \in [Names -> Contents]
<1>1. PICK w \in {"part", "whole"} :
        LET text == [by |-> r, what |-> w, status |-> Status(r)]
        IN IF handle[r] = "temp"
           THEN temp' = [temp EXCEPT ![File(r)] = text] /\ UNCHANGED final
           ELSE final' = [final EXCEPT ![File(r)] = text] /\ UNCHANGED temp
  BY DEF Pour
<1>2. [by |-> r, what |-> w, status |-> Status(r)] \in Contents
  BY ContentsAreTyped
<1> QED BY <1>1, <1>2 DEF RunTypeOK

LEMMA AbandonIsTyped ==
    ASSUME RunTypeOK, NEW r \in Runs, AbandonFile(r)
    PROVE  /\ final' \in [Names -> Contents] /\ temp' \in [Names -> Contents]
           /\ stage' \in [Runs -> Stages]
           /\ io' \in [Runs -> Progress]
           /\ part' \in [Runs -> 1..Len(Parts)]
           /\ handle' \in [Runs -> Handles]
<1>1. CASE Abandon(r)
  <2>1. final' \in [Names -> Contents] /\ temp' \in [Names -> Contents]
    BY <1>1, ContentsAreTyped DEF RunTypeOK, Abandon
  <2>2. handle' \in [Runs -> Handles]
    BY <1>1, OthersAreTyped DEF Abandon, Handles
  <2>3. PICK s \in Stages : Move(r, s)
    BY <1>1 DEF Abandon, Stages
  <2> QED BY <2>1, <2>2, <2>3, MoveIsTyped
<1>2. CASE Raise(r) /\ UNCHANGED <<final, temp>>
  BY <1>2, RaiseIsTyped DEF RunTypeOK
<1> QED BY <1>1, <1>2 DEF AbandonFile

LEMMA FinishIsTyped ==
    ASSUME RunTypeOK, NEW r \in Runs, Finish(r)
    PROVE  /\ stage' \in [Runs -> Stages]
           /\ io' \in [Runs -> Progress]
           /\ part' \in [Runs -> 1..Len(Parts)]
           /\ saved' \in [Runs -> SUBSET (0..LastStep)]
<1>1. After(r) \in Stages
  BY DEF After, Stages
<1>2. CASE stage[r] = "frame" /\ part[r] + 1 \in PartsUsed
  <2>1. part[r] + 1 \in 1..Len(Parts)
    BY <1>2, NamesAreNames DEF PartsUsed
  <2>2. /\ UNCHANGED <<stage, saved>>
        /\ part' = [part EXCEPT ![r] = @ + 1]
        /\ io' = [io EXCEPT ![r] = IF Guarded THEN "probe" ELSE "open"]
    BY <1>2 DEF Finish
  <2> QED BY <2>1, <2>2 DEF RunTypeOK
<1>3. CASE ~(stage[r] = "frame" /\ part[r] + 1 \in PartsUsed)
  <2>1. Move(r, After(r)) /\ saved' = IF stage[r] = "frame"
                     THEN [saved EXCEPT ![r] = @ \cup {at[r]}] ELSE saved
    BY <1>3 DEF Finish
  <2> QED BY <1>1, <2>1, MoveIsTyped DEF RunTypeOK
<1> QED BY <1>2, <1>3
\* Only a launch, a step and an update move the clock of a run.
LEMMA StaysPaced ==
    ASSUME TypeInv, NEW r \in Runs, UNCHANGED <<start, at>>,
           stage' \in [Runs -> Stages],
           \A q \in Runs : q # r => stage'[q] = stage[q],
           stage[r] # "idle", stage'[r] = "update" => at[r] < Goal(r)
    PROVE  Paced'
<1>1. \A q \in Runs : Goal(q)' = Goal(q)
  BY DEF Goal
<1> QED BY <1>1 DEF TypeInv, Paced

LEMMA MoveIsLocal ==
    ASSUME RunTypeOK, NEW r \in Runs, NEW s
    PROVE  /\ Enter(r, s) => /\ stage'[r] = s
                             /\ \A q \in Runs : q # r => stage'[q] = stage[q]
           /\ Move(r, s) \/ Begin(r, s) =>
                /\ stage'[r] = s
                /\ \A q \in Runs : q # r => /\ stage'[q] = stage[q]
                                            /\ io'[q] = io[q]
                                            /\ part'[q] = part[q]
BY DEF RunTypeOK, Move, Begin, Enter

LEMMA RaiseIsLocal ==
    ASSUME RunTypeOK, NEW r \in Runs, Raise(r)
    PROVE  /\ stage'[r] \in {"record", "raised"}
           /\ \A q \in Runs : q # r => stage'[q] = stage[q] /\ io'[q] = io[q]
                                       /\ part'[q] = part[q]
BY MoveIsLocal DEF Raise

LEMMA AbandonIsLocal ==
    ASSUME RunTypeOK, NEW r \in Runs, AbandonFile(r)
    PROVE  /\ stage'[r] \in {"record", "raised"}
           /\ \A q \in Runs : q # r => stage'[q] = stage[q] /\ io'[q] = io[q]
                                       /\ part'[q] = part[q]
BY RaiseIsLocal, MoveIsLocal DEF AbandonFile, Abandon

LEMMA FinishIsPaced ==
    ASSUME TypeInv, NEW r \in Runs, Finish(r), stage[r] \in Writes
    PROVE  /\ stage'[r] = "update" => at[r] < Goal(r)
           /\ \A q \in Runs : q # r => stage'[q] = stage[q] /\ io'[q] = io[q]
                                       /\ part'[q] = part[q]
<1>1. stage[r] # "idle" /\ stage[r] # "update"
  BY DEF Writes
<1>2. at[r] \in Nat /\ Goal(r) \in Nat /\ at[r] <= Goal(r)
  BY <1>1, RunAssumption DEF TypeInv, RunTypeOK, Paced, Goal
<1>3. After(r) = "update" => at[r] # Goal(r)
  BY <1>1 DEF After
<1>4. CASE stage[r] = "frame" /\ part[r] + 1 \in PartsUsed
  BY <1>4 DEF Finish, TypeInv, RunTypeOK
<1>5. CASE ~(stage[r] = "frame" /\ part[r] + 1 \in PartsUsed)
  <2>1. Move(r, After(r))
    BY <1>5 DEF Finish
  <2> QED BY <1>2, <1>3, <2>1, MoveIsLocal DEF TypeInv
<1> QED BY <1>4, <1>5

LEMMA TypeStep ==
    ASSUME TypeInv, NEW r \in Runs,
           \/ RunStep(r) \/ StepFails(r) \/ FileFails(r) \/ PlaceRaises(r)
           \/ KillRun(r)
    PROVE  TypeInv'
<1> USE DEF TypeInv
<1> USE DEF files, writing, journal, ledgers
<1>1. CASE CheckDirectory(r)
  <2>1. PICK s \in {"rejected", "initial", "guard"} : Enter(r, s)
    BY <1>1 DEF CheckDirectory
  <2>2. stage' \in [Runs -> Stages]
    BY <2>1 DEF RunTypeOK, Enter, Stages
  <2>3. Paced'
    BY <1>1, <2>1, <2>2, MoveIsLocal, StaysPaced DEF CheckDirectory
  <2> QED BY <1>1, <2>2, <2>3 DEF CheckDirectory, RunTypeOK
<1>2. CASE GuardDirectory(r)
  <2>1. PICK s \in {"rejected", "restore"} : Enter(r, s)
    BY <1>2 DEF GuardDirectory
  <2>2. stage' \in [Runs -> Stages]
    BY <2>1 DEF RunTypeOK, Enter, Stages
  <2>3. Paced'
    BY <1>2, <2>1, <2>2, MoveIsLocal, StaysPaced DEF GuardDirectory
  <2> QED BY <1>2, <2>2, <2>3 DEF GuardDirectory, RunTypeOK
<1>3. CASE RestoreIfRequested(r)
  <2>1. PICK s \in {"step", "running", "rejected"} : Begin(r, s)
    BY <1>3 DEF RestoreIfRequested
  <2>2. s \in Stages BY DEF Stages
  <2>3. Paced'
    BY <1>3, <2>1, <2>2, BeginIsTyped, MoveIsLocal, StaysPaced
    DEF RestoreIfRequested
  <2> QED BY <1>3, <2>1, <2>2, <2>3, BeginIsTyped
          DEF RestoreIfRequested, RunTypeOK
<1>4. CASE CheckOutputs(r)
  <2>1. stage[r] # "idle" /\ stage[r] # "update"
    BY <1>4 DEF CheckOutputs, Writes
  <2>2. CASE Raise(r)
    <3>1. Paced'
      BY <1>4, <2>1, <2>2, RaiseIsTyped, RaiseIsLocal, StaysPaced
      DEF CheckOutputs
    <3> QED BY <1>4, <2>2, <3>1, RaiseIsTyped DEF CheckOutputs, RunTypeOK
  <2>3. CASE io' = [io EXCEPT ![r] = IF Guarded THEN "probe" ELSE "open"]
             /\ UNCHANGED <<stage, part, handle>>
    <3>1. Paced'
      BY <1>4, <2>1, <2>3, StaysPaced DEF CheckOutputs, RunTypeOK
    <3> QED BY <1>4, <2>3, <3>1 DEF CheckOutputs, RunTypeOK
  <2> QED BY <1>4, <2>2, <2>3 DEF CheckOutputs
<1>5. CASE ProbeTemporary(r)
  <2>1. stage[r] # "idle" /\ stage[r] # "update"
    BY <1>5 DEF ProbeTemporary, Writes
  <2>2. CASE Raise(r)
    <3>1. Paced'
      BY <1>5, <2>1, <2>2, RaiseIsTyped, RaiseIsLocal, StaysPaced
      DEF ProbeTemporary
    <3> QED BY <1>5, <2>2, <3>1, RaiseIsTyped DEF ProbeTemporary, RunTypeOK
  <2>3. CASE io' = [io EXCEPT ![r] = "open"]
             /\ UNCHANGED <<stage, part, handle>>
    <3>1. Paced'
      BY <1>5, <2>1, <2>3, StaysPaced DEF ProbeTemporary, RunTypeOK
    <3> QED BY <1>5, <2>3, <3>1 DEF ProbeTemporary, RunTypeOK
  <2> QED BY <1>5, <2>2, <2>3 DEF ProbeTemporary
<1>6. CASE OpenFile(r)
  <2>1. stage[r] # "idle" /\ stage[r] # "update"
    BY <1>6 DEF OpenFile, Writes
  <2>2. CASE AbandonFile(r)
    <3>1. Paced'
      BY <1>6, <2>1, <2>2, AbandonIsTyped, AbandonIsLocal, StaysPaced
      DEF OpenFile
    <3> QED BY <1>6, <2>2, <3>1, AbandonIsTyped DEF OpenFile, RunTypeOK
  <2>3. CASE ~AbandonFile(r)
    <3>1. /\ handle' = [handle EXCEPT ![r] = Where(r)]
          /\ io' = [io EXCEPT ![r] = "fill"]
          /\ UNCHANGED <<stage, part, published, start, at, saved, kept>>
      BY <1>6, <2>3 DEF OpenFile
    <3>2. Where(r) \in Handles
      BY DEF Where, Handles
    <3>3. final' \in [Names -> Contents] /\ temp' \in [Names -> Contents]
      <4>1. PICK x \in Contents :
              \/ temp' = [temp EXCEPT ![File(r)] = x] /\ UNCHANGED final
              \/ final' = [final EXCEPT ![File(r)] = x] /\ UNCHANGED temp
        BY <1>6, <2>3, ContentsAreTyped DEF OpenFile
      <4> QED BY <4>1 DEF RunTypeOK
    <3>4. Paced'
      BY <2>1, <3>1, StaysPaced DEF RunTypeOK
    <3> QED BY <1>6, <3>1, <3>2, <3>3, <3>4 DEF OpenFile, RunTypeOK
  <2> QED BY <2>2, <2>3
<1>7. CASE FillFile(r)
  <2>1. stage[r] # "idle" /\ stage[r] # "update"
    BY <1>7 DEF FillFile, Writes
  <2>2. final' \in [Names -> Contents] /\ temp' \in [Names -> Contents]
    BY <1>7, PourIsTyped DEF FillFile, RunTypeOK
  <2>3. handle' \in [Runs -> Handles]
    BY <1>7 DEF FillFile, RunTypeOK, Handles
  <2>4. CASE io' = [io EXCEPT ![r] = "place"] /\ UNCHANGED <<stage, part, saved>>
    <3>1. Paced'
      BY <1>7, <2>1, <2>4, StaysPaced DEF FillFile, RunTypeOK
    <3> QED BY <1>7, <2>2, <2>3, <2>4, <3>1 DEF FillFile, RunTypeOK
  <2>5. CASE Finish(r)
    <3>1. Paced'
      BY <1>7, <2>1, <2>5, FinishIsTyped, FinishIsPaced, StaysPaced
      DEF FillFile
    <3> QED BY <1>7, <2>2, <2>3, <2>5, <3>1, FinishIsTyped
            DEF FillFile, RunTypeOK
  <2> QED BY <1>7, <2>4, <2>5 DEF FillFile
<1>8. CASE PlaceFile(r)
  <2>1. stage[r] # "idle" /\ stage[r] # "update"
    BY <1>8 DEF PlaceFile, Replace, Writes
  <2>2. CASE AbandonFile(r) /\ UNCHANGED saved
    <3>1. Paced'
      BY <1>8, <2>1, <2>2, AbandonIsTyped, AbandonIsLocal, StaysPaced
      DEF PlaceFile, Replace
    <3> QED BY <1>8, <2>2, <3>1, AbandonIsTyped DEF PlaceFile, Replace, RunTypeOK
  <2>3. CASE ~(AbandonFile(r) /\ UNCHANGED saved)
    <3>1. /\ final' = [final EXCEPT ![File(r)] = temp[File(r)]]
          /\ temp' = [temp EXCEPT ![File(r)] = Absent]
          /\ handle' = Others(r, {File(r)}, Renamed)
          /\ Finish(r)
      BY <1>8, <2>3 DEF PlaceFile, Replace
    <3>2. final' \in [Names -> Contents] /\ temp' \in [Names -> Contents]
      BY <3>1, FileIsNamed, ContentsAreTyped DEF RunTypeOK
    <3>3. handle' \in [Runs -> Handles]
      BY <3>1, OthersAreTyped
    <3>4. Paced'
      BY <1>8, <2>1, <3>1, FinishIsTyped, FinishIsPaced, StaysPaced
      DEF PlaceFile, Replace
    <3> QED BY <1>8, <3>1, <3>2, <3>3, <3>4, FinishIsTyped
            DEF PlaceFile, Replace, RunTypeOK
  <2> QED BY <2>2, <2>3
<1>9. CASE NextStep(r)
  <2>1. PICK s \in {"marker", "update", "frame"} :
          Begin(r, s) /\ (s = "update" => at[r] # Goal(r))
    BY <1>9 DEF NextStep
  <2>2. s \in Stages BY DEF Stages
  <2>3. at[r] \in Nat /\ Goal(r) \in Nat /\ at[r] <= Goal(r)
    BY <1>9, RunAssumption DEF NextStep, RunTypeOK, Paced, Goal
  <2>4. Paced'
    BY <1>9, <2>1, <2>2, <2>3, BeginIsTyped, MoveIsLocal, StaysPaced
    DEF NextStep
  <2> QED BY <1>9, <2>1, <2>2, <2>4, BeginIsTyped DEF NextStep, RunTypeOK
<1>10. CASE UpdateState(r)
  <2>1. PICK s \in {"frame", "save"} : Begin(r, s)
    BY <1>10 DEF UpdateState
  <2>2. s \in Stages BY DEF Stages
  <2>3. /\ at[r] \in Nat /\ Goal(r) \in Nat /\ at[r] < Goal(r)
        /\ Goal(r) <= LastStep /\ LastStep \in Nat /\ start[r] \in Nat
        /\ start[r] <= at[r]
    BY <1>10, RunAssumption DEF UpdateState, RunTypeOK, Paced, Goal
  <2>4. at[r] + 1 \in 0..LastStep /\ at[r] + 1 <= Goal(r)
        /\ start[r] <= at[r] + 1
    BY <2>3
  <2>5. at' \in [Runs -> 0..LastStep] /\ at'[r] = at[r] + 1
        /\ \A q \in Runs : q # r => at'[q] = at[q]
    BY <1>10, <2>4 DEF UpdateState, RunTypeOK
  <2>6. \A q \in Runs : Goal(q)' = Goal(q) /\ start'[q] = start[q]
    BY <1>10 DEF UpdateState, Goal
  <2>7. Paced'
    BY <2>1, <2>3, <2>4, <2>5, <2>6, MoveIsLocal DEF Paced
  <2> QED BY <1>10, <2>1, <2>2, <2>5, <2>7, BeginIsTyped
          DEF UpdateState, RunTypeOK
<1>11. CASE SaveCheckpoint(r)
  <2>1. /\ published' \in [0..LastStep -> Runs \cup {NoRun}]
        /\ kept' \in [Runs -> SUBSET (0..LastStep)]
        /\ Begin(r, "step") \/ Raise(r)
    <3>1. CASE UNCHANGED <<published, kept>>
      BY <1>11, <3>1 DEF SaveCheckpoint, RunTypeOK
    <3>2. CASE ~UNCHANGED <<published, kept>>
      <4>1. /\ published' = [published EXCEPT ![at[r]] = r]
            /\ kept' = [kept EXCEPT ![r] = @ \cup {at[r]}]
            /\ Begin(r, "step")
        BY <1>11, <3>2 DEF SaveCheckpoint
      <4>2. at[r] \in 0..LastStep
        BY DEF RunTypeOK
      <4> QED BY <4>1, <4>2 DEF RunTypeOK
    <3> QED BY <3>1, <3>2
  <2>2. "step" \in Stages BY DEF Stages
  <2>3. Paced'
    <3>1. /\ stage[r] = "save" /\ UNCHANGED <<start, at>>
      BY <1>11 DEF SaveCheckpoint
    <3>2. stage' \in [Runs -> Stages]
      BY <2>1, <2>2, BeginIsTyped, RaiseIsTyped
    <3>3. /\ stage'[r] # "update"
          /\ \A q \in Runs : q # r => stage'[q] = stage[q]
      BY <2>1, MoveIsLocal, RaiseIsLocal
    <3> QED BY <3>1, <3>2, <3>3, StaysPaced
  <2> QED BY <1>11, <2>1, <2>2, <2>3, BeginIsTyped, RaiseIsTyped
          DEF SaveCheckpoint, RunTypeOK
<1>12. CASE StepFails(r)
  <2>1. mishaps' \in 0..MaxMishaps
    BY <1>12, RunAssumption DEF StepFails, Mishap, RunTypeOK
  <2>2. Paced'
    BY <1>12, RaiseIsTyped, RaiseIsLocal, StaysPaced DEF StepFails
  <2> QED BY <1>12, <2>1, <2>2, RaiseIsTyped
          DEF StepFails, Mishap, RunTypeOK
<1>13. CASE FileFails(r)
  <2>1. mishaps' \in 0..MaxMishaps /\ muted' \in [Runs -> BOOLEAN]
    BY <1>13, RunAssumption DEF FileFails, Mishap, RunTypeOK
  <2>2. stage[r] # "idle" /\ stage[r] # "update"
    BY <1>13 DEF FileFails, Writes
  <2>3. CASE AbandonFile(r) \/ Abandon(r)
    <3>1. AbandonFile(r)
      BY <2>3 DEF AbandonFile
    <3>2. Paced'
      BY <1>13, <2>2, <3>1, AbandonIsTyped, AbandonIsLocal, StaysPaced
      DEF FileFails
    <3> QED BY <1>13, <2>1, <3>1, <3>2, AbandonIsTyped
            DEF FileFails, Mishap, RunTypeOK
  <2>4. CASE Raise(r) /\ (\/ Pour(r, {"part", "whole"})
                          \/ UNCHANGED <<final, temp>>)
    <3>1. Paced'
      BY <1>13, <2>2, <2>4, RaiseIsTyped, RaiseIsLocal, StaysPaced
      DEF FileFails
    <3>2. final' \in [Names -> Contents] /\ temp' \in [Names -> Contents]
      BY <2>4, PourIsTyped DEF RunTypeOK
    <3> QED BY <1>13, <2>1, <2>4, <3>1, <3>2, RaiseIsTyped
            DEF FileFails, Mishap, RunTypeOK
  <2> QED BY <1>13, <2>3, <2>4 DEF FileFails
<1>14. CASE KillRun(r)
  <2>1. mishaps' \in 0..MaxMishaps
    BY <1>14, RunAssumption DEF KillRun, Mishap, RunTypeOK
  <2>2. "killed" \in Stages /\ stage[r] # "idle"
    BY <1>14 DEF Stages, KillRun, Alive, Over
  <2>3. Paced'
    BY <1>14, <2>2, BeginIsTyped, MoveIsLocal, StaysPaced DEF KillRun
  <2> QED BY <1>14, <2>1, <2>2, <2>3, BeginIsTyped
          DEF KillRun, Mishap, RunTypeOK
<1>15. CASE PlaceRaises(r)
  <2>1. mishaps' \in 0..MaxMishaps /\ muted' \in [Runs -> BOOLEAN]
    BY <1>15, RunAssumption DEF PlaceRaises, Mishap, RunTypeOK
  <2>2. stage[r] # "idle" /\ stage[r] # "update"
    BY <1>15 DEF PlaceRaises, Writes
  <2>3. final' \in [Names -> Contents] /\ temp' \in [Names -> Contents]
    BY <1>15, FileIsNamed, ContentsAreTyped DEF PlaceRaises, Replace, RunTypeOK
  <2>4. handle' \in [Runs -> Handles]
    BY <1>15, OthersAreTyped DEF PlaceRaises, Replace
  <2>5. Paced'
    BY <1>15, <2>2, StaysPaced DEF PlaceRaises, RunTypeOK
  <2> QED BY <1>15, <2>1, <2>3, <2>4, <2>5 DEF PlaceRaises, Mishap, RunTypeOK
<1>16. CASE AbandonPlaced(r)
  <2>1. stage[r] # "idle" /\ stage[r] # "update"
    BY <1>16 DEF AbandonPlaced, Writes
  <2>2. Paced'
    BY <1>16, <2>1, AbandonIsTyped, AbandonIsLocal, StaysPaced
    DEF AbandonPlaced
  <2> QED BY <1>16, <2>2, AbandonIsTyped DEF AbandonPlaced, RunTypeOK
<1> QED BY <1>1, <1>2, <1>3, <1>4, <1>5, <1>6, <1>7, <1>8, <1>9, <1>10, <1>11,
           <1>12, <1>13, <1>14, <1>15, <1>16 DEF RunStep

LEMMA TypeLaunch ==
    ASSUME TypeInv, NEW r \in Runs, Launch(r)
    PROVE  TypeInv'
<1> USE DEF TypeInv, files, writing
<1>1. PICK e \in {"application", "workflow"}, from \in 0..LastStep :
        /\ from + Steps <= LastStep
        /\ entry' = [entry EXCEPT ![r] = e]
        /\ start' = [start EXCEPT ![r] = from]
        /\ at' = [at EXCEPT ![r] = from]
        /\ Enter(r, IF e = "application" THEN "check" ELSE "guard")
  BY DEF Launch
<1>2. /\ stage' \in [Runs -> Stages] /\ entry' \in [Runs -> {"application", "workflow"}]
      /\ start' \in [Runs -> 0..LastStep] /\ at' \in [Runs -> 0..LastStep]
      /\ overlap' \in BOOLEAN
  BY <1>1 DEF RunTypeOK, Enter, Stages, Launch
<1>3. \A q \in Runs : /\ q = r => /\ start'[q] = from /\ at'[q] = from
                                  /\ stage'[q] \in {"check", "guard"}
                      /\ q # r => /\ start'[q] = start[q] /\ at'[q] = at[q]
                                  /\ stage'[q] = stage[q]
  BY <1>1 DEF RunTypeOK, Enter
<1>4. /\ from \in Nat /\ Steps \in Nat /\ LastStep \in Nat
      /\ from <= from + Steps /\ from + Steps <= LastStep
  BY <1>1, RunAssumption
<1>5. Paced'
  BY <1>3, <1>4 DEF Paced, Goal
<1> QED BY <1>2, <1>5 DEF Launch, RunTypeOK

Moves(r) == \/ RunStep(r) \/ StepFails(r) \/ FileFails(r) \/ PlaceRaises(r)
            \/ KillRun(r)

LEMMA NextSplits ==
    ASSUME [RunNext]_runVars
    PROVE  \/ \E r \in Runs : Launch(r) \/ Moves(r)
           \/ UNCHANGED runVars
BY DEF RunNext, Moves, RunsAreOver

LEMMA TypeNext ==
    ASSUME TypeInv, [RunNext]_runVars
    PROVE  TypeInv'
<1>1. CASE UNCHANGED runVars
  BY <1>1 DEF runVars, files, writing, journal, ledgers, TypeInv, RunTypeOK,
     Paced, Goal
<1> QED BY <1>1, NextSplits, TypeLaunch, TypeStep DEF Moves

LEMMA TypeInit == RunInit => TypeInv
<1> SUFFICES ASSUME RunInit PROVE TypeInv
  OBVIOUS
<1>1. Absent \in Contents
  BY DEF Absent, Contents, Statuses
<1>2. /\ stage \in [Runs -> Stages] /\ handle \in [Runs -> Handles]
      /\ final \in [Names -> Contents] /\ temp \in [Names -> Contents]
      /\ muted \in [Runs -> BOOLEAN] /\ overlap \in BOOLEAN
      /\ entry \in [Runs -> {"application", "workflow"}]
      /\ io \in [Runs -> Progress]
  BY <1>1 DEF RunInit, Stages, Handles
<1>3. /\ part \in [Runs -> 1..Len(Parts)]
      /\ published \in [0..LastStep -> Runs \cup {NoRun}]
      /\ start \in [Runs -> 0..LastStep] /\ at \in [Runs -> 0..LastStep]
      /\ saved \in [Runs -> SUBSET (0..LastStep)]
      /\ kept \in [Runs -> SUBSET (0..LastStep)]
      /\ mishaps \in 0..MaxMishaps /\ family \in Families
  BY NamesAreNames, RunAssumption DEF RunInit
<1>4. Paced
  BY DEF RunInit, Paced
<1> QED BY <1>2, <1>3, <1>4 DEF TypeInv, RunTypeOK

\* Every variable keeps its type, however many runs follow one another or
\* overlap, and no run steps past its last step.
THEOREM RunTypes == RunSpec => []RunTypeOK
<1>1. TypeInv => RunTypeOK BY DEF TypeInv
<1> QED BY <1>1, TypeInit, TypeNext, PTL DEF RunSpec

----------------------------------------------------------------------------
\* What a step of one run leaves alone.

Keeping(q) == /\ stage'[q] = stage[q] /\ io'[q] = io[q] /\ part'[q] = part[q]
              /\ at'[q] = at[q] /\ saved'[q] = saved[q] /\ kept'[q] = kept[q]
              /\ muted'[q] = muted[q]

Settled == UNCHANGED <<start, entry, overlap, family>>

\* A step changes the file it writes, or takes back the lone array of the
\* structured diagnostics.
Elsewhere(r) ==
    \A f \in Names :
        \/ final'[f] = final[f]
        \/ f = File(r) /\ stage[r] \in Writes
        \/ f = NPY /\ family = "periodic" /\ final'[f] = Absent

LEMMA FinishIsLocal ==
    ASSUME TypeInv, NEW r \in Runs, Finish(r), stage[r] \in Writes
    PROVE  /\ \A q \in Runs : q # r => /\ stage'[q] = stage[q] /\ io'[q] = io[q]
                                       /\ part'[q] = part[q]
                                       /\ saved'[q] = saved[q]
           /\ stage'[r] \notin {"idle", "check"} /\ stage[r] \notin Over
<1>1. stage[r] \notin {"idle", "check"} /\ stage[r] \notin Over
  BY DEF Writes, Over
<1>2. \A q \in Runs : q # r => saved'[q] = saved[q]
  BY DEF Finish, TypeInv, RunTypeOK
<1>3. stage'[r] \notin {"idle", "check"}
  BY <1>1, MoveIsLocal DEF Finish, After, TypeInv
<1> QED BY <1>1, <1>2, <1>3, FinishIsPaced

LEMMA AbandonTouches ==
    ASSUME TypeInv, NEW r \in Runs, AbandonFile(r)
    PROVE  \/ UNCHANGED final
           \/ /\ family = "periodic" /\ stage[r] \in {"npy", "csv"}
              /\ final' = [final EXCEPT ![NPY] = Absent]
              /\ ~Exists(final[CSV]) /\ stage'[r] = "raised"
BY MoveIsLocal DEF AbandonFile, Abandon, NPY, CSV, Guarded, TypeInv

LEMMA StepIsLocal ==
    ASSUME TypeInv, NEW r \in Runs, Moves(r)
    PROVE  /\ \A q \in Runs : q # r => Keeping(q)
           /\ Settled /\ Elsewhere(r) /\ Alive(r)
           /\ stage'[r] \notin {"idle", "check"}
<1> USE DEF TypeInv, files, writing, journal, ledgers, Keeping, Settled,
            Elsewhere, Alive, Over
<1>1. CASE CheckDirectory(r)
  BY <1>1, MoveIsLocal DEF CheckDirectory
<1>2. CASE GuardDirectory(r)
  BY <1>2, MoveIsLocal DEF GuardDirectory
<1>3. CASE RestoreIfRequested(r)
  BY <1>3, MoveIsLocal DEF RestoreIfRequested
<1>4. CASE CheckOutputs(r)
  BY <1>4, RaiseIsLocal DEF CheckOutputs, RunTypeOK, Writes
<1>5. CASE ProbeTemporary(r)
  BY <1>5, RaiseIsLocal DEF ProbeTemporary, RunTypeOK, Writes
<1>6. CASE OpenFile(r)
  <2>1. stage[r] \in Writes /\ UNCHANGED <<published, start, at, saved, kept,
                                 entry, muted, overlap, mishaps, family>>
    BY <1>6 DEF OpenFile
  <2>2. CASE AbandonFile(r)
    <3>1. Elsewhere(r)
      BY <2>2, AbandonTouches, NamesAreNames DEF RunTypeOK
    <3> QED BY <2>1, <2>2, <3>1, AbandonIsLocal DEF Writes
  <2>3. CASE ~AbandonFile(r)
    <3>1. /\ final' = final \/ \E x : final' = [final EXCEPT ![File(r)] = x]
          /\ io' = [io EXCEPT ![r] = "fill"] /\ UNCHANGED <<stage, part>>
      BY <1>6, <2>3 DEF OpenFile
    <3> QED BY <2>1, <3>1 DEF RunTypeOK, Writes
  <2> QED BY <2>2, <2>3
<1>7. CASE FillFile(r)
  <2>1. /\ stage[r] \in Writes
        /\ UNCHANGED <<published, start, at, kept, entry, muted, overlap,
                       mishaps, family>>
        /\ final' = final \/ \E x : final' = [final EXCEPT ![File(r)] = x]
    BY <1>7 DEF FillFile, Pour
  <2>2. Elsewhere(r)
    BY <2>1 DEF RunTypeOK
  <2>3. CASE io' = [io EXCEPT ![r] = "place"] /\ UNCHANGED <<stage, part, saved>>
    BY <2>1, <2>2, <2>3 DEF RunTypeOK, Writes
  <2>4. CASE Finish(r)
    BY <2>1, <2>2, <2>4, FinishIsLocal
  <2> QED BY <1>7, <2>3, <2>4 DEF FillFile
<1>8. CASE PlaceFile(r)
  <2>1. /\ stage[r] \in Writes
        /\ UNCHANGED <<published, start, at, kept, entry, muted, overlap,
                       mishaps, family>>
    BY <1>8 DEF PlaceFile, Replace
  <2>2. CASE AbandonFile(r) /\ UNCHANGED saved
    <3>1. Elsewhere(r)
      BY <2>2, AbandonTouches, NamesAreNames DEF RunTypeOK
    <3> QED BY <2>1, <2>2, <3>1, AbandonIsLocal DEF Writes
  <2>3. CASE ~(AbandonFile(r) /\ UNCHANGED saved)
    <3>1. /\ final' = [final EXCEPT ![File(r)] = temp[File(r)]]
          /\ Finish(r)
      BY <1>8, <2>3 DEF PlaceFile, Replace
    <3>2. Elsewhere(r)
      BY <2>1, <3>1 DEF RunTypeOK
    <3> QED BY <2>1, <3>1, <3>2, FinishIsLocal
  <2> QED BY <2>2, <2>3
<1>9. CASE NextStep(r)
  BY <1>9, MoveIsLocal DEF NextStep
<1>10. CASE UpdateState(r)
  BY <1>10, MoveIsLocal DEF UpdateState, RunTypeOK
<1>11. CASE SaveCheckpoint(r)
  <2>1. \A q \in Runs : q # r => kept'[q] = kept[q]
    BY <1>11 DEF SaveCheckpoint, RunTypeOK
  <2>2. Begin(r, "step") \/ Raise(r)
    BY <1>11 DEF SaveCheckpoint
  <2>3. /\ stage[r] = "save"
        /\ UNCHANGED <<final, temp, start, at, saved, entry, muted, overlap,
                       family>>
    BY <1>11 DEF SaveCheckpoint
  <2> QED BY <2>1, <2>2, <2>3, MoveIsLocal, RaiseIsLocal
<1>12. CASE StepFails(r)
  BY <1>12, RaiseIsLocal DEF StepFails, Mishap
<1>13. CASE FileFails(r)
  <2>1. /\ stage[r] \in Writes
        /\ UNCHANGED <<published, start, at, saved, kept, entry, overlap, family>>
        /\ \A q \in Runs : q # r => muted'[q] = muted[q]
    BY <1>13 DEF FileFails, Mishap, RunTypeOK
  <2>2. CASE AbandonFile(r) \/ Abandon(r)
    <3>1. AbandonFile(r)
      BY <2>2 DEF AbandonFile
    <3>2. Elsewhere(r)
      BY <3>1, AbandonTouches, NamesAreNames DEF RunTypeOK
    <3> QED BY <2>1, <3>1, <3>2, AbandonIsLocal DEF Writes
  <2>3. CASE Raise(r) /\ (\/ Pour(r, {"part", "whole"})
                          \/ UNCHANGED <<final, temp>>)
    <3>1. final' = final \/ \E x : final' = [final EXCEPT ![File(r)] = x]
      BY <2>3 DEF Pour
    <3>2. Elsewhere(r)
      BY <2>1, <3>1 DEF RunTypeOK
    <3> QED BY <2>1, <2>3, <3>2, RaiseIsLocal DEF Writes
  <2> QED BY <1>13, <2>2, <2>3 DEF FileFails
<1>14. CASE KillRun(r)
  BY <1>14, MoveIsLocal DEF KillRun, Mishap
<1>15. CASE PlaceRaises(r)
  <2>1. /\ stage[r] \in Writes
        /\ UNCHANGED <<start, at, saved, kept, entry, overlap, family, stage,
                       part>>
        /\ \A q \in Runs : q # r => muted'[q] = muted[q] /\ io'[q] = io[q]
        /\ final' = [final EXCEPT ![File(r)] = temp[File(r)]]
    BY <1>15 DEF PlaceRaises, Replace, Mishap, RunTypeOK
  <2>2. Elsewhere(r)
    BY <2>1 DEF RunTypeOK
  <2> QED BY <2>1, <2>2 DEF Writes
<1>16. CASE AbandonPlaced(r)
  <2>1. stage[r] \in Writes /\ AbandonFile(r)
        /\ UNCHANGED <<start, at, saved, kept, entry, muted, overlap, family>>
    BY <1>16 DEF AbandonPlaced
  <2>2. Elsewhere(r)
    BY <2>1, AbandonTouches, NamesAreNames DEF RunTypeOK
  <2> QED BY <2>1, <2>2, AbandonIsLocal DEF Writes
<1> QED BY <1>1, <1>2, <1>3, <1>4, <1>5, <1>6, <1>7, <1>8, <1>9, <1>10, <1>11,
           <1>12, <1>13, <1>14, <1>15, <1>16 DEF Moves, RunStep

LEMMA LaunchIsLocal ==
    ASSUME TypeInv, NEW r \in Runs, Launch(r)
    PROVE  /\ stage[r] = "idle" /\ stage'[r] \in {"check", "guard"}
           /\ \A q \in Runs : q # r => Keeping(q) /\ start'[q] = start[q]
                                       /\ entry'[q] = entry[q]
           /\ UNCHANGED <<final, temp, published, io, part, handle, saved, kept,
                          muted, family>>
           /\ ~overlap' => ~overlap /\ \A q \in Runs : ~Alive(q)
           /\ stage'[r] = "guard" => entry'[r] # "application"
<1>1. PICK e \in {"application", "workflow"}, from \in 0..LastStep :
        /\ entry' = [entry EXCEPT ![r] = e]
        /\ start' = [start EXCEPT ![r] = from]
        /\ at' = [at EXCEPT ![r] = from]
        /\ Enter(r, IF e = "application" THEN "check" ELSE "guard")
  BY DEF Launch
<1>2. /\ stage[r] = "idle"
      /\ overlap' = (overlap \/ \E q \in Runs : Alive(q))
      /\ UNCHANGED <<final, temp, published, io, part, handle, saved, kept,
                     muted, family>>
  BY DEF Launch, files, writing
<1>3. /\ stage'[r] = IF e = "application" THEN "check" ELSE "guard"
      /\ \A q \in Runs : q # r => stage'[q] = stage[q]
  BY <1>1, MoveIsLocal DEF TypeInv
<1>4. /\ entry'[r] = e
      /\ \A q \in Runs : q # r => /\ entry'[q] = entry[q]
                                  /\ start'[q] = start[q] /\ at'[q] = at[q]
  BY <1>1 DEF TypeInv, RunTypeOK
<1>5. ~overlap' => ~overlap /\ \A q \in Runs : ~Alive(q)
  BY <1>2 DEF TypeInv, RunTypeOK
<1> QED BY <1>2, <1>3, <1>4, <1>5 DEF Keeping

----------------------------------------------------------------------------
\* The file a run is writing.

Mine(f, r) == Exists(f) /\ f.by = r

Looks(r) == stage[r] = "npy" \/ (stage[r] = "frame" /\ Guarded)

\* A run has a file open only while it fills it, looks before it opens only
\* where it must not overwrite, and renames only what it wrote elsewhere; one
\* that raises with its metadata in place, before the body or in its handler,
\* leaves no other record.
HandleInv ==
    \A r \in Runs :
        /\ stage[r] \in {"idle", "check"} => io[r] = "open"
        /\ handle[r] # "none" => stage[r] \in Writes /\ io[r] = "fill"
        /\ stage[r] \in Writes /\ io[r] \in {"check", "probe"} => Looks(r)
        /\ stage[r] \in Writes /\ io[r] \in {"place", "raise"} =>
             Where(r) = "temp"
        /\ stage[r] \in {"running", "record"} /\ io[r] = "raise" => muted[r]

Solo == ~overlap => \A q, r \in Runs : Alive(q) /\ Alive(r) => q = r

\* While no two runs were alive together the file a run writes is its own.
OwnFileInv ==
    ~overlap => \A r \in Runs :
        /\ stage[r] \in Writes /\ io[r] = "fill" =>
             handle[r] = Where(r) /\ Mine(At(r, Where(r)), r)
        /\ stage[r] \in Writes /\ io[r] = "place" =>
             temp[File(r)] = [by |-> r, what |-> "whole", status |-> Status(r)]

WritingInv == HandleInv /\ Solo /\ OwnFileInv

LEMMA WritersAreAlive ==
    ASSUME NEW r \in Runs, stage[r] \in Writes
    PROVE  Alive(r)
BY DEF Writes, Alive, Over

LEMMA MoveOpens ==
    ASSUME RunTypeOK, NEW r \in Runs, NEW s, family' = family
    PROVE  /\ Move(r, s) => io'[r] \in {"check", "open"}
                            /\ (io'[r] = "check" => Looks(r)')
           /\ Begin(r, s) => /\ io'[r] \in {"check", "open"}
                             /\ (io'[r] = "check" => Looks(r)')
                             /\ handle'[r] = "none"
                             /\ \A q \in Runs : q # r => handle'[q] = handle[q]
BY DEF RunTypeOK, Move, Begin, Enter, Looks, Guarded

LEMMA RaiseOpens ==
    ASSUME RunTypeOK, NEW r \in Runs, Raise(r), family' = family
    PROVE  /\ io'[r] = "open" /\ handle'[r] = "none"
           /\ \A q \in Runs : q # r => handle'[q] = handle[q]
BY DEF RunTypeOK, Raise, Move, Begin, Enter

LEMMA AbandonOpens ==
    ASSUME RunTypeOK, NEW r \in Runs, AbandonFile(r), family' = family
    PROVE  /\ io'[r] = "open" /\ handle'[r] = "none"
           /\ \A q \in Runs : q # r /\ handle'[q] # "none" => handle[q] # "none"
<1>1. CASE Abandon(r)
  <2>1. io'[r] = "open"
    BY <1>1 DEF Abandon, Move, RunTypeOK
  <2>2. PICK b \in BOOLEAN : \E stale :
           handle' = [Others(r, stale, Unlinked(b)) EXCEPT ![r] = "none"]
    <3> DEFINE struct == family = "periodic" /\ stage[r] \in {"npy", "csv"}
               lone == struct /\ ~Exists(final[<<"csv", 0>>])
               both == IF struct THEN {<<"npy", 0>>, <<"csv", 0>>}
                       ELSE {File(r)}
    <3>1. handle' = [Others(r, both, Unlinked(lone)) EXCEPT ![r] = "none"]
      BY <1>1 DEF Abandon
    <3>2. lone \in BOOLEAN
      OBVIOUS
    <3> HIDE DEF lone, both
    <3> QED BY <3>1, <3>2
  <2>3. handle'[r] = "none"
        /\ \A q \in Runs : q # r /\ handle'[q] # "none" => handle[q] # "none"
    BY <2>2 DEF Others, Unlinked, RunTypeOK, Handles
  <2> QED BY <2>1, <2>3
<1> QED BY <1>1, RaiseOpens DEF AbandonFile

LEMMA FinishOpens ==
    ASSUME RunTypeOK, NEW r \in Runs, Finish(r), family' = family
    PROVE  /\ io'[r] \in {"check", "probe", "open"}
           /\ io'[r] \in {"check", "probe"} => Looks(r)'
<1>1. CASE stage[r] = "frame" /\ part[r] + 1 \in PartsUsed
  BY <1>1 DEF Finish, RunTypeOK, Looks, Guarded
<1>2. CASE ~(stage[r] = "frame" /\ part[r] + 1 \in PartsUsed)
  BY <1>2, MoveOpens DEF Finish
<1> QED BY <1>1, <1>2

\* What a step does to the file being written: it lets it go, opens it,
\* or fills it.
WritingStep(r) ==
    \/ /\ io'[r] \in {"check", "probe", "open"} /\ handle'[r] = "none"
       /\ stage'[r] \in Writes /\ io'[r] \in {"check", "probe"} => Looks(r)'
    \/ stage'[r] \notin Writes /\ handle'[r] = "none"
    \/ stage'[r] \in Writes /\ OpenFile(r) /\ stage'[r] = stage[r] /\ io'[r] = "fill"
    \/ /\ stage'[r] \in Writes /\ FillFile(r) /\ stage'[r] = stage[r]
       /\ io'[r] = "place" /\ handle'[r] = "none" /\ Where(r) = "temp"
    \/ /\ stage'[r] \in Writes /\ PlaceRaises(r) /\ stage'[r] = stage[r]
       /\ io'[r] = "raise" /\ handle'[r] = "none"

LEMMA StepWrites ==
    ASSUME TypeInv, HandleInv, NEW r \in Runs, Moves(r)
    PROVE  /\ WritingStep(r)
           /\ \A q \in Runs : q # r /\ handle'[q] # "none" => handle[q] # "none"
<1> USE DEF TypeInv, files, writing, journal, ledgers, WritingStep
<1>0. family' = family
  BY StepIsLocal DEF Settled
<1>1. CASE CheckDirectory(r)
  BY <1>1, MoveIsLocal DEF CheckDirectory, HandleInv, Writes, RunTypeOK
<1>2. CASE GuardDirectory(r)
  <2>1. PICK s \in {"rejected", "restore"} : Enter(r, s)
    BY <1>2 DEF GuardDirectory
  <2>2. stage'[r] \notin Writes /\ handle' = handle /\ stage[r] = "guard"
    BY <1>2, <2>1, MoveIsLocal DEF GuardDirectory, Writes
  <2> QED BY <2>2 DEF HandleInv, Writes
<1>3. CASE RestoreIfRequested(r)
  BY <1>0, <1>3, MoveOpens DEF RestoreIfRequested
<1>4. CASE CheckOutputs(r)
  BY <1>0, <1>4, RaiseOpens DEF CheckOutputs, HandleInv, RunTypeOK, Looks, Guarded
<1>5. CASE ProbeTemporary(r)
  BY <1>0, <1>5, RaiseOpens DEF ProbeTemporary, HandleInv, RunTypeOK, Looks, Guarded
<1>6. CASE OpenFile(r)
  <2>1. CASE AbandonFile(r)
    BY <1>0, <2>1, AbandonOpens
  <2>2. CASE ~AbandonFile(r)
    BY <1>6, <2>2 DEF OpenFile, RunTypeOK
  <2> QED BY <2>1, <2>2
<1>7. CASE FillFile(r)
  <2>1. handle'[r] = "none" /\ \A q \in Runs : q # r => handle'[q] = handle[q]
    BY <1>7 DEF FillFile, RunTypeOK
  <2>2. CASE Where(r) = "temp"
    BY <1>7, <2>1, <2>2 DEF FillFile, RunTypeOK
  <2>3. CASE Where(r) # "temp"
    BY <1>0, <1>7, <2>1, <2>3, FinishOpens DEF FillFile
  <2> QED BY <2>2, <2>3
<1>8. CASE PlaceFile(r)
  <2>1. CASE AbandonFile(r)
    BY <1>0, <2>1, AbandonOpens
  <2>2. CASE ~AbandonFile(r)
    <3>1. /\ handle' = Others(r, {File(r)}, Renamed)
          /\ Finish(r) /\ io[r] = "place"
      BY <1>8, <2>2 DEF PlaceFile, Replace
    <3>2. handle[r] = "none"
      BY <3>1 DEF HandleInv
    <3>3. handle'[r] = "none"
          /\ \A q \in Runs : q # r /\ handle'[q] # "none" => handle[q] # "none"
      BY <3>1, <3>2 DEF Others, Renamed, RunTypeOK, Handles
    <3> QED BY <1>0, <3>1, <3>3, FinishOpens
  <2> QED BY <2>1, <2>2
<1>9. CASE NextStep(r)
  BY <1>0, <1>9, MoveOpens DEF NextStep
<1>10. CASE UpdateState(r)
  BY <1>0, <1>10, MoveOpens DEF UpdateState
<1>11. CASE SaveCheckpoint(r)
  BY <1>0, <1>11, MoveOpens, RaiseOpens DEF SaveCheckpoint
<1>12. CASE StepFails(r)
  BY <1>0, <1>12, RaiseOpens DEF StepFails
<1>13. CASE FileFails(r)
  <2>1. AbandonFile(r) \/ Raise(r)
    BY <1>13 DEF FileFails, AbandonFile
  <2> QED BY <1>0, <2>1, AbandonOpens, RaiseOpens
<1>14. CASE KillRun(r)
  BY <1>0, <1>14, MoveOpens DEF KillRun
<1>15. CASE PlaceRaises(r)
  <2>1. handle[r] = "none"
    BY <1>15 DEF PlaceRaises, HandleInv
  <2>2. /\ io'[r] = "raise" /\ handle' = Others(r, {File(r)}, Renamed)
        /\ stage' = stage /\ stage[r] \in Writes
    BY <1>15 DEF PlaceRaises, Replace, RunTypeOK
  <2> QED BY <1>15, <2>1, <2>2 DEF Others, Renamed, RunTypeOK, Handles
<1>16. CASE AbandonPlaced(r)
  BY <1>0, <1>16, AbandonOpens DEF AbandonPlaced
<1> QED BY <1>1, <1>2, <1>3, <1>4, <1>5, <1>6, <1>7, <1>8, <1>9, <1>10, <1>11,
           <1>12, <1>13, <1>14, <1>15, <1>16 DEF Moves, RunStep

LEMMA SamePlace ==
    ASSUME NEW r \in Runs, stage'[r] = stage[r], part'[r] = part[r],
           at'[r] = at[r], family' = family
    PROVE  /\ Where(r)' = Where(r) /\ File(r)' = File(r)
           /\ Style(r)' = Style(r) /\ Status(r)' = Status(r)
BY DEF Where, Style, Guarded, File, Status, Frame

LEMMA OpenedIsMine ==
    ASSUME TypeInv, NEW r \in Runs, OpenFile(r), stage'[r] = stage[r],
           io'[r] = "fill"
    PROVE  /\ part'[r] = part[r] /\ at'[r] = at[r] /\ family' = family
           /\ handle'[r] = Where(r)
           /\ IF Where(r) = "temp" THEN Mine(temp'[File(r)], r)
                                   ELSE Mine(final'[File(r)], r)
<1>0. UNCHANGED <<at, family>>
  BY DEF OpenFile, journal, ledgers
<1>1. ~AbandonFile(r)
  BY <1>0, AbandonOpens DEF TypeInv
<1> QED BY <1>0, <1>1, FileIsNamed
        DEF OpenFile, TypeInv, RunTypeOK, Mine, Exists

LEMMA FilledIsMine ==
    ASSUME TypeInv, WritingInv, ~overlap, NEW r \in Runs, FillFile(r)
    PROVE  LET text == [by |-> r, what |-> "whole", status |-> Status(r)]
           IN IF Where(r) = "temp"
              THEN /\ temp' = [temp EXCEPT ![File(r)] = text]
                   /\ UNCHANGED <<final, stage, part, saved>>
                   /\ io' = [io EXCEPT ![r] = "place"]
              ELSE /\ final' = [final EXCEPT ![File(r)] = text]
                   /\ UNCHANGED temp /\ Finish(r)
<1>1. stage[r] \in Writes /\ io[r] = "fill"
  BY DEF FillFile
<1>2. handle[r] = Where(r) /\ At(r, Where(r)).by = r
      /\ Where(r) \in {"temp", "final"}
  BY <1>1 DEF WritingInv, OwnFileInv, Mine, Where
<1>3. Pour(r, {"whole"})
  BY <1>2 DEF FillFile
<1>4. LET text == [by |-> r, what |-> "whole", status |-> Status(r)]
      IN IF Where(r) = "temp"
         THEN temp' = [temp EXCEPT ![File(r)] = text] /\ UNCHANGED final
         ELSE final' = [final EXCEPT ![File(r)] = text] /\ UNCHANGED temp
  BY <1>2, <1>3 DEF Pour
<1> QED BY <1>4 DEF FillFile

LEMMA WritingNext ==
    ASSUME TypeInv, WritingInv, [RunNext]_runVars
    PROVE  WritingInv'
<1> USE DEF WritingInv
<1>1. ASSUME NEW r \in Runs, Moves(r)
      PROVE  WritingInv'
  <2>1. /\ \A q \in Runs : q # r => Keeping(q)
        /\ overlap' = overlap /\ family' = family /\ Alive(r)
    BY <1>1, StepIsLocal DEF Settled
  <2>2. WritingStep(r)
        /\ \A q \in Runs : q # r /\ handle'[q] # "none" => handle[q] # "none"
    BY <1>1, StepWrites
  <2>3. HandleInv'
    <3>1. ASSUME NEW q \in Runs, q # r
          PROVE  /\ stage'[q] \in {"idle", "check"} => io'[q] = "open"
                 /\ handle'[q] # "none" => stage'[q] \in Writes /\ io'[q] = "fill"
                 /\ stage'[q] \in Writes /\ io'[q] \in {"check", "probe"} => Looks(q)'
                 /\ stage'[q] \in Writes /\ io'[q] \in {"place", "raise"}
                      => Where(q)' = "temp"
                 /\ stage'[q] \in {"running", "record"} /\ io'[q] = "raise"
                      => muted'[q]
      BY <2>1, <2>2, <3>1, SamePlace DEF HandleInv, Keeping, Looks, Guarded
    <3>2. /\ stage'[r] \notin {"idle", "check"}
          /\ handle'[r] # "none" => stage'[r] \in Writes /\ io'[r] = "fill"
          /\ stage'[r] \in Writes /\ io'[r] \in {"check", "probe"} => Looks(r)'
          /\ stage'[r] \in Writes /\ io'[r] \in {"place", "raise"}
               => Where(r)' = "temp"
          /\ stage'[r] \in {"running", "record"} /\ io'[r] = "raise"
               => muted'[r]
      <4>1. CASE FillFile(r) /\ stage'[r] = stage[r] /\ io'[r] = "place"
                 /\ handle'[r] = "none" /\ Where(r) = "temp"
        <5>1. UNCHANGED <<part, at>>
          BY <4>1 DEF FillFile
        <5> QED BY <1>1, <2>1, <4>1, <5>1, SamePlace, StepIsLocal
      <4>2. CASE /\ stage'[r] \in Writes /\ PlaceRaises(r)
                 /\ stage'[r] = stage[r] /\ io'[r] = "raise"
                 /\ handle'[r] = "none"
        <5>1. UNCHANGED <<part, at>> /\ Where(r) = "temp"
          BY <4>2 DEF PlaceRaises, HandleInv, journal
        <5>2. stage[r] \in {"running", "record"} => muted'[r]
          BY <4>2 DEF PlaceRaises, TypeInv, RunTypeOK
        <5> QED BY <1>1, <2>1, <4>2, <5>1, <5>2, SamePlace, StepIsLocal
      <4>3. CASE \/ /\ io'[r] \in {"check", "probe", "open"}
                    /\ handle'[r] = "none"
                    /\ stage'[r] \in Writes /\ io'[r] \in {"check", "probe"}
                         => Looks(r)'
                 \/ stage'[r] \notin Writes /\ handle'[r] = "none"
                 \/ /\ stage'[r] \in Writes /\ OpenFile(r)
                    /\ stage'[r] = stage[r] /\ io'[r] = "fill"
        BY <1>1, <4>3, StepIsLocal DEF Writes
      <4> QED BY <2>2, <4>1, <4>2, <4>3 DEF WritingStep
    <3> QED BY <3>1, <3>2 DEF HandleInv
  <2>4. Solo'
    BY <2>1 DEF Solo, Keeping, Alive
  <2>5. OwnFileInv'
    <3>1. SUFFICES ASSUME ~overlap'
                   PROVE  \A q \in Runs :
                     /\ stage'[q] \in Writes /\ io'[q] = "fill" =>
                          handle'[q] = Where(q)' /\ Mine(At(q, Where(q)), q)'
                     /\ stage'[q] \in Writes /\ io'[q] = "place" =>
                          temp'[File(q)'] = [by |-> q, what |-> "whole",
                                             status |-> Status(q)']
      BY DEF OwnFileInv
    <3>2. \A q \in Runs : q # r => stage'[q] \notin Writes
      BY <2>1, <3>1, WritersAreAlive DEF Solo, Keeping
    <3>3. CASE stage'[r] \in Writes /\ OpenFile(r) /\ stage'[r] = stage[r]
               /\ io'[r] = "fill"
      <4>1. /\ Where(r)' = Where(r) /\ File(r)' = File(r) /\ handle'[r] = Where(r)
            /\ IF Where(r) = "temp" THEN Mine(temp'[File(r)], r)
                                    ELSE Mine(final'[File(r)], r)
        BY <3>3, OpenedIsMine, SamePlace
      <4>2. Mine(At(r, Where(r)), r)'
        BY <4>1 DEF At, Mine, Exists
      <4> QED BY <3>2, <3>3, <4>1, <4>2
    <3>4. CASE stage'[r] \in Writes /\ FillFile(r) /\ stage'[r] = stage[r]
               /\ io'[r] = "place" /\ handle'[r] = "none" /\ Where(r) = "temp"
      <4>1. UNCHANGED <<part, at>>
        BY <3>4 DEF FillFile
      <4>2. temp' = [temp EXCEPT ![File(r)] =
                       [by |-> r, what |-> "whole", status |-> Status(r)]]
        BY <2>1, <3>1, <3>4, FilledIsMine
      <4>3. temp'[File(r)] = [by |-> r, what |-> "whole", status |-> Status(r)]
        BY <4>2, FileIsNamed DEF TypeInv, RunTypeOK
      <4> QED BY <2>1, <3>2, <3>4, <4>1, <4>3, SamePlace
    <3> QED BY <2>2, <3>2, <3>3, <3>4 DEF WritingStep
  <2> QED BY <2>3, <2>4, <2>5
<1>2. ASSUME NEW r \in Runs, Launch(r)
      PROVE  WritingInv'
  <2>1. /\ UNCHANGED <<final, temp, io, part, handle, family>>
        /\ \A q \in Runs : q # r => Keeping(q)
        /\ stage'[r] \notin Writes /\ stage[r] \notin Writes
        /\ stage[r] = "idle"
        /\ ~overlap' => ~overlap /\ \A q \in Runs : ~Alive(q)
    BY <1>2, LaunchIsLocal DEF Writes
  <2>2. HandleInv'
    BY <2>1, SamePlace DEF HandleInv, Keeping, Looks, Guarded
  <2>3. Solo'
    BY <2>1 DEF Solo, Keeping, Alive
  <2>4. OwnFileInv'
    BY <2>1, WritersAreAlive DEF OwnFileInv, Keeping
  <2> QED BY <2>2, <2>3, <2>4
<1>3. CASE UNCHANGED runVars
  BY <1>3 DEF runVars, files, writing, journal, ledgers, HandleInv, Solo,
     OwnFileInv, Looks, Guarded, Where, Style, File, Frame, Status, At, Alive,
     Mine, Exists
<1> QED BY <1>1, <1>2, <1>3, NextSplits

LEMMA WritingInit == RunInit => WritingInv
BY DEF RunInit, WritingInv, HandleInv, Solo, OwnFileInv, Writes, Alive, Over

----------------------------------------------------------------------------
\* What a step does to the files under their names.

\* The file is written to its end, and the run goes on.
Wrote(r) ==
    /\ stage[r] \in Writes /\ Finish(r)
    /\ io[r] = IF Where(r) = "temp" THEN "place" ELSE "fill"
    /\ final' = [final EXCEPT ![File(r)] =
                   [by |-> r, what |-> "whole", status |-> Status(r)]]

\* The file is opened in place, or left as it is when the writing fails.
Began(r) ==
    /\ stage[r] \in Writes /\ Where(r) = "final" /\ UNCHANGED saved
    /\ \/ OpenFile(r) /\ UNCHANGED <<stage, part>>
       \/ io[r] = "fill" /\ Raise(r)
    /\ \E w \in {"part", "whole"}, s \in {"none", Status(r)} :
          final' = [final EXCEPT ![File(r)] = [by |-> r, what |-> w, status |-> s]]

\* The file is put in place, and its writer gets an exception all the same.
Lost(r) ==
    /\ PlaceRaises(r) /\ UNCHANGED <<stage, part, saved>>
    /\ Where(r) = "temp" /\ stage[r] \in Writes /\ io'[r] = "raise"
    /\ final' = [final EXCEPT ![File(r)] =
                   [by |-> r, what |-> "whole", status |-> Status(r)]]

\* The structured diagnostics take back a lone array.
TookBack(r) ==
    /\ family = "periodic" /\ stage[r] \in {"npy", "csv"}
    /\ final' = [final EXCEPT ![NPY] = Absent] /\ UNCHANGED saved
    /\ stage'[r] = "raised"

LEMMA PlacedIsMine ==
    ASSUME TypeInv, WritingInv, ~overlap, NEW r \in Runs, PlaceFile(r)
    PROVE  Wrote(r)
<1>1. stage[r] \in Writes /\ io[r] = "place"
  BY DEF PlaceFile, Replace
<1>2. temp[File(r)] = [by |-> r, what |-> "whole", status |-> Status(r)]
  BY <1>1 DEF WritingInv, OwnFileInv
<1>3. Exists(temp[File(r)])
  BY <1>2 DEF Exists
<1>4. Where(r) = "temp"
  BY <1>1 DEF WritingInv, HandleInv
<1> QED BY <1>1, <1>2, <1>3, <1>4 DEF PlaceFile, Replace, Wrote

LEMMA LostIsMine ==
    ASSUME TypeInv, WritingInv, ~overlap, NEW r \in Runs, PlaceRaises(r)
    PROVE  Lost(r)
<1>1. stage[r] \in Writes /\ io[r] = "place"
  BY DEF PlaceRaises
<1>2. temp[File(r)] = [by |-> r, what |-> "whole", status |-> Status(r)]
      /\ Where(r) = "temp"
  BY <1>1 DEF WritingInv, OwnFileInv, HandleInv
<1> QED BY <1>1, <1>2
        DEF PlaceRaises, Replace, Lost, journal, TypeInv, RunTypeOK

LEMMA StepTouches ==
    ASSUME TypeInv, WritingInv, ~overlap, NEW r \in Runs, Moves(r)
    PROVE  \/ UNCHANGED <<final, saved>>
           \/ Wrote(r) \/ Began(r) \/ Lost(r) \/ TookBack(r)
<1> USE DEF files, journal
<1>1. CASE OpenFile(r)
  <2>1. stage[r] \in Writes /\ UNCHANGED saved
    BY <1>1 DEF OpenFile
  <2>2. CASE AbandonFile(r)
    BY <2>1, <2>2, AbandonTouches DEF TookBack
  <2>3. CASE ~AbandonFile(r)
    <3>1. Where(r) \in {"temp", "final"}
      BY DEF Where
    <3>2. CASE Where(r) = "temp"
      BY <1>1, <2>1, <2>3, <3>2 DEF OpenFile
    <3>3. CASE Where(r) = "final"
      BY <1>1, <2>1, <2>3, <3>3 DEF OpenFile, Began
    <3> QED BY <3>1, <3>2, <3>3
  <2> QED BY <2>2, <2>3
<1>2. CASE FillFile(r)
  <2>1. stage[r] \in Writes /\ io[r] = "fill"
    BY <1>2 DEF FillFile
  <2> QED BY <1>2, <2>1, FilledIsMine DEF Wrote
<1>3. CASE PlaceFile(r)
  BY <1>3, PlacedIsMine
<1>4. CASE FileFails(r)
  <2>1. stage[r] \in Writes /\ UNCHANGED saved
    BY <1>4 DEF FileFails
  <2>2. CASE AbandonFile(r) \/ Abandon(r)
    BY <2>1, <2>2, AbandonTouches DEF TookBack, AbandonFile
  <2>3. CASE io[r] = "fill" /\ Raise(r) /\ Pour(r, {"part", "whole"})
    <3>1. handle[r] = Where(r) /\ Where(r) \in {"temp", "final"}
      BY <2>1, <2>3 DEF WritingInv, OwnFileInv, Where
    <3>2. PICK w \in {"part", "whole"} :
            LET text == [by |-> r, what |-> w, status |-> Status(r)]
            IN IF handle[r] = "temp"
               THEN temp' = [temp EXCEPT ![File(r)] = text] /\ UNCHANGED final
               ELSE final' = [final EXCEPT ![File(r)] = text] /\ UNCHANGED temp
      BY <2>3 DEF Pour
    <3> QED BY <2>1, <2>3, <3>1, <3>2 DEF Began
  <2> QED BY <1>4, <2>1, <2>2, <2>3 DEF FileFails
<1>5. CASE AbandonPlaced(r)
  BY <1>5, AbandonTouches DEF AbandonPlaced, TookBack
<1>6. CASE PlaceRaises(r)
  BY <1>6, LostIsMine
<1>7. CASE /\ Moves(r)
           /\ ~(\/ OpenFile(r) \/ FillFile(r) \/ PlaceFile(r) \/ FileFails(r)
                \/ AbandonPlaced(r) \/ PlaceRaises(r))
  BY <1>7 DEF Moves, RunStep, CheckDirectory, GuardDirectory,
     RestoreIfRequested, CheckOutputs, ProbeTemporary, NextStep, UpdateState,
     SaveCheckpoint, StepFails, KillRun
<1> QED BY <1>1, <1>2, <1>3, <1>4, <1>5, <1>6, <1>7

----------------------------------------------------------------------------
\* The status of a guarded family.

Loop == {"step", "frame", "update", "save", "npy", "csv"}

\* The status in the metadata tells how far the run that wrote them is.
StatusInv ==
    Guarded /\ ~overlap /\ Exists(final[MD]) =>
      LET record == final[MD]
          r == record.by
      IN /\ record.what = "whole" /\ r \in Runs
         /\ \/ /\ record.status = "running"
               /\ \/ stage[r] \in Loop \cup {"complete", "record", "killed", "raised"}
                  \/ stage[r] = "running" /\ io[r] = "raise" /\ muted[r]
            \/ /\ record.status = "complete"
               /\ \/ stage[r] \in {"marker", "record", "killed", "returned", "raised"}
                  \/ stage[r] = "complete" /\ io[r] = "raise"
            \/ record.status = "failed" /\ stage[r] \in {"record", "raised", "killed"}
         /\ record.status # "failed" /\ stage[r] = "raised" => muted[r]

\* Where a run of a guarded family goes, when it does not write its metadata.
Turns(r) ==
    \/ stage'[r] = stage[r]
    \/ stage'[r] = "killed"
    \/ stage[r] \in Recorded /\ stage'[r] = "record"
    \/ stage[r] \in Loop /\ stage'[r] \in Loop \cup {"complete"}
    \/ stage[r] = "marker" /\ stage'[r] = "returned"
    \/ stage[r] = "record" /\ stage'[r] = "raised" /\ muted'[r]
    \/ stage[r] \in {"check", "guard", "restore", "initial", "running"}
    \/ stage[r] \in Writes /\ io[r] = "raise"

WroteMetadata(r) ==
    /\ stage[r] \in {"running", "complete", "record"}
    /\ final'[MD] = [by |-> r, what |-> "whole", status |-> Status(r)]
    /\ stage'[r] = After(r)

\* The metadata are in place, and their writer is about to raise.
LostMetadata(r) ==
    /\ stage[r] \in {"running", "complete", "record"}
    /\ final'[MD] = [by |-> r, what |-> "whole", status |-> Status(r)]
    /\ stage'[r] = stage[r] /\ io'[r] = "raise"
    /\ stage[r] = "running" => muted'[r]

\* After a file that was placed and raised, a run has only its handler left.
LEMMA PlacedUnwinds ==
    ASSUME TypeInv, Guarded, NEW r \in Runs, Moves(r),
           stage[r] \in Writes, io[r] = "raise"
    PROVE  /\ final'[MD] = final[MD]
           /\ muted[r] => muted'[r]
           /\ \/ stage'[r] = "killed"
              \/ stage[r] \in Recorded /\ stage'[r] = "record"
              \/ stage[r] \notin Recorded /\ stage'[r] = "raised"
<1> USE DEF TypeInv, files, writing, journal, ledgers
<1>1. Raise(r) => \/ stage[r] \in Recorded /\ stage'[r] = "record"
                  \/ stage[r] \notin Recorded /\ stage'[r] = "raised"
  BY MoveIsLocal DEF Raise
<1>2. AbandonFile(r) => \/ stage[r] \in {"frame", "npy", "csv"}
                           /\ stage'[r] = "record"
                        \/ Raise(r)
  BY MoveIsLocal DEF AbandonFile, Abandon, Style
<1>3. AbandonFile(r) => UNCHANGED final
  BY AbandonTouches DEF Guarded
<1>4. CASE AbandonPlaced(r)
  BY <1>1, <1>2, <1>3, <1>4 DEF AbandonPlaced, Recorded
<1>5. CASE FileFails(r)
  <2>1. Raise(r) /\ UNCHANGED final /\ (muted[r] => muted'[r])
    BY <1>5 DEF FileFails, RunTypeOK
  <2> QED BY <1>1, <2>1
<1>6. CASE KillRun(r)
  BY <1>6, MoveIsLocal DEF KillRun
<1> QED BY <1>4, <1>5, <1>6
        DEF Moves, RunStep, CheckDirectory, GuardDirectory, RestoreIfRequested,
            CheckOutputs, ProbeTemporary, OpenFile, FillFile, PlaceFile,
            NextStep, UpdateState, SaveCheckpoint, StepFails, PlaceRaises,
            Writes

LEMMA GuardedTurns ==
    ASSUME TypeInv, WritingInv, ~overlap, Guarded, NEW r \in Runs, Moves(r)
    PROVE  /\ \/ WroteMetadata(r) \/ LostMetadata(r)
              \/ final'[MD] = final[MD] /\ Turns(r)
           /\ muted[r] => muted'[r]
<1> USE DEF TypeInv, files, writing, journal, ledgers
<1>0. /\ family \in {"plane", "channel"} /\ family # "periodic"
      /\ family # "finiteq" /\ family' = family
  BY StepIsLocal DEF Guarded, Settled
<1>1. muted[r] => muted'[r]
  BY DEF Moves, RunStep, CheckDirectory, GuardDirectory, RestoreIfRequested,
     CheckOutputs, ProbeTemporary, OpenFile, FillFile, PlaceFile, Replace, NextStep,
     UpdateState, SaveCheckpoint, StepFails, FileFails, PlaceRaises,
     AbandonPlaced, KillRun, RunTypeOK
<1>2. Raise(r) => /\ stage[r] \in Recorded => stage'[r] = "record"
                  /\ stage[r] \notin Recorded => stage'[r] = "raised"
  BY MoveIsLocal DEF Raise
<1>3. AbandonFile(r) => \/ stage[r] \in {"frame", "npy", "csv"}
                           /\ stage'[r] = "record"
                        \/ Raise(r)
  BY MoveIsLocal DEF AbandonFile, Abandon, Style
<1>4. ASSUME Finish(r), stage[r] \in Writes
      PROVE  \/ stage[r] = "frame" /\ stage'[r] = "frame"
             \/ stage'[r] = After(r)
  BY <1>4, MoveIsLocal DEF Finish
<1>5. CASE Wrote(r)
  <2>1. CASE stage[r] \in {"running", "complete", "record"}
    <3>1. File(r) = MD
      BY <2>1 DEF File, MD
    <3> QED BY <1>1, <1>4, <1>5, <2>1, <3>1, NamesAreNames
            DEF Wrote, WroteMetadata, RunTypeOK
  <2>2. CASE stage[r] \notin {"running", "complete", "record"}
    <3>1. stage[r] \in {"initial", "frame", "npy", "csv", "marker"}
      BY <1>5, <2>2 DEF Wrote, Writes
    <3>2. File(r) # MD
      BY <3>1, NamesAreNames DEF File, MD, RunTypeOK
    <3>3. final'[MD] = final[MD]
      BY <1>5, <3>2, NamesAreNames DEF Wrote, RunTypeOK
    <3>4. Turns(r)
      BY <1>0, <1>4, <1>5, <3>1 DEF Wrote, Turns, After, Loop
    <3> QED BY <1>1, <3>3, <3>4
  <2> QED BY <2>1, <2>2
<1>6. CASE Began(r)
  <2>1. stage[r] \in {"initial", "marker"}
    BY <1>0, <1>6 DEF Began, Where, Style, Writes, Guarded
  <2>2. File(r) # MD
    BY <2>1 DEF File, MD
  <2>3. final'[MD] = final[MD]
    BY <1>6, <2>2, NamesAreNames DEF Began, RunTypeOK
  <2> QED BY <1>1, <1>2, <1>6, <2>1, <2>3 DEF Began, Turns, Recorded
<1>7. CASE UNCHANGED <<final, saved>>
  <2>1. CASE CheckDirectory(r)
    BY <1>1, <1>7, <2>1 DEF CheckDirectory, Turns
  <2>2. CASE GuardDirectory(r)
    BY <1>1, <1>7, <2>2 DEF GuardDirectory, Turns
  <2>3. CASE RestoreIfRequested(r)
    BY <1>1, <1>7, <2>3 DEF RestoreIfRequested, Turns
  <2>4. CASE CheckOutputs(r)
    BY <1>1, <1>2, <1>7, <2>4
    DEF CheckOutputs, Turns, Recorded, WritingInv, HandleInv, Looks
  <2>5. CASE ProbeTemporary(r)
    BY <1>1, <1>2, <1>7, <2>5
    DEF ProbeTemporary, Turns, Recorded, WritingInv, HandleInv, Looks
  <2>6. CASE OpenFile(r)
    <3>1. CASE Style(r) \in {"staged", "direct"}
      <4>1. stage[r] \in {"frame", "npy", "csv"}
        BY <1>0, <2>6, <3>1 DEF OpenFile, Style, Writes, Guarded
      <4>2. AbandonFile(r) \/ stage' = stage
        BY <2>6 DEF OpenFile
      <4> QED BY <1>1, <1>2, <1>3, <1>7, <4>1, <4>2 DEF Turns, Recorded
    <3>2. CASE Style(r) \notin {"staged", "direct"}
      BY <1>1, <1>7, <2>6, <3>2 DEF OpenFile, Turns
    <3> QED BY <3>1, <3>2
  <2>7. CASE FillFile(r)
    <3>1. Where(r) = "temp" => stage' = stage
      BY <2>7, FilledIsMine
    <3>2. Where(r) # "temp" => Wrote(r)
      BY <2>7, FilledIsMine DEF Wrote, FillFile
    <3> QED BY <1>1, <1>5, <1>7, <3>1, <3>2 DEF Turns
  <2>8. CASE PlaceFile(r)
    BY <1>5, <2>8, PlacedIsMine
  <2>9. CASE NextStep(r)
    <3>1. stage'[r] \in {"frame", "update"} /\ stage[r] = "step"
      BY <1>0, <2>9, MoveIsLocal DEF NextStep
    <3> QED BY <1>1, <1>7, <3>1 DEF Turns, Loop
  <2>10. CASE UpdateState(r)
    <3>1. stage'[r] \in {"frame", "save"} /\ stage[r] = "update"
      BY <2>10, MoveIsLocal DEF UpdateState
    <3> QED BY <1>1, <1>7, <3>1 DEF Turns, Loop
  <2>11. CASE SaveCheckpoint(r)
    <3>1. stage[r] = "save" /\ (stage'[r] = "step" \/ Raise(r))
      BY <2>11, MoveIsLocal DEF SaveCheckpoint
    <3> QED BY <1>1, <1>2, <1>7, <3>1 DEF Turns, Loop, Recorded
  <2>12. CASE StepFails(r)
    BY <1>1, <1>2, <1>7, <2>12 DEF StepFails, Turns, Recorded
  <2>13. CASE FileFails(r)
    <3>1. stage[r] \in Writes /\ (AbandonFile(r) \/ Raise(r))
          /\ (stage[r] = "record" => muted'[r])
      BY <2>13 DEF FileFails, AbandonFile, RunTypeOK
    <3> QED BY <1>1, <1>2, <1>3, <1>7, <3>1 DEF Turns, Recorded, Writes
  <2>14. CASE KillRun(r)
    BY <1>1, <1>7, <2>14, MoveIsLocal DEF KillRun, Turns
  <2>15. CASE PlaceRaises(r)
    BY <1>1, <1>7, <2>15 DEF PlaceRaises, Turns
  <2>16. CASE AbandonPlaced(r)
    BY <1>1, <1>7, <2>16 DEF AbandonPlaced, Turns
  <2> QED BY <2>1, <2>2, <2>3, <2>4, <2>5, <2>6, <2>7, <2>8, <2>9, <2>10,
             <2>11, <2>12, <2>13, <2>14, <2>15, <2>16 DEF Moves, RunStep
<1>8. ~TookBack(r)
  BY <1>0 DEF TookBack
<1>9. CASE Lost(r)
  <2>1. CASE stage[r] \in {"running", "complete", "record"}
    <3>1. File(r) = MD
      BY <2>1 DEF File, MD
    <3>2. stage[r] = "running" => muted'[r]
      BY <1>9 DEF Lost, PlaceRaises, RunTypeOK
    <3> QED BY <1>1, <1>9, <2>1, <3>1, <3>2, NamesAreNames
            DEF Lost, LostMetadata, RunTypeOK
  <2>2. CASE stage[r] \notin {"running", "complete", "record"}
    <3>1. stage[r] \in {"initial", "frame", "npy", "csv", "marker"}
      BY <1>9, <2>2 DEF Lost, Writes
    <3>2. File(r) # MD
      BY <3>1, NamesAreNames DEF File, MD, RunTypeOK
    <3>3. final'[MD] = final[MD]
      BY <1>9, <3>2, NamesAreNames DEF Lost, RunTypeOK
    <3> QED BY <1>1, <1>9, <3>3 DEF Lost, Turns
  <2> QED BY <2>1, <2>2
<1> QED BY <1>5, <1>6, <1>7, <1>8, <1>9, StepTouches

LEMMA StatusNext ==
    ASSUME TypeInv, WritingInv, StatusInv, [RunNext]_runVars
    PROVE  StatusInv'
<1>1. ASSUME NEW r \in Runs, Moves(r)
      PROVE  StatusInv'
  <2>1. SUFFICES ASSUME Guarded, ~overlap
                 PROVE  StatusInv'
    BY <1>1, StepIsLocal DEF StatusInv, Settled, Guarded
  <2>2. /\ \/ WroteMetadata(r) \/ LostMetadata(r)
           \/ final'[MD] = final[MD] /\ Turns(r)
        /\ muted[r] => muted'[r]
    BY <1>1, <2>1, GuardedTurns
  <2>3. \A q \in Runs : q # r => Keeping(q)
    BY <1>1, StepIsLocal
  <2>4. CASE WroteMetadata(r)
    BY <2>1, <2>4 DEF WroteMetadata, StatusInv, Status, After, Loop, Exists
  <2>5. CASE final'[MD] = final[MD] /\ Turns(r)
    <3>1. SUFFICES ASSUME Exists(final[MD]), final[MD].by = r
                   PROVE  StatusInv'
      BY <2>1, <2>3, <2>5 DEF StatusInv, Keeping, Exists
    <3>2. Alive(r)
      BY <1>1, StepIsLocal
    <3>3. CASE stage[r] \in Writes /\ io[r] = "raise"
      <4>1. stage[r] \in {"running", "record"} => muted[r]
        BY <3>3 DEF WritingInv, HandleInv
      <4> QED BY <1>1, <2>1, <3>1, <3>3, <4>1, PlacedUnwinds
              DEF StatusInv, Loop, Recorded, Exists, Writes
    <3>4. CASE ~(stage[r] \in Writes /\ io[r] = "raise")
      BY <2>1, <2>2, <2>5, <3>1, <3>2, <3>4
      DEF StatusInv, Turns, Loop, Recorded, Exists, Alive, Over, Writes
    <3> QED BY <3>3, <3>4
  <2>6. CASE LostMetadata(r)
    BY <2>1, <2>6 DEF LostMetadata, StatusInv, Status, Loop, Exists
  <2> QED BY <2>2, <2>4, <2>5, <2>6
<1>2. ASSUME NEW r \in Runs, Launch(r)
      PROVE  StatusInv'
  <2>1. /\ stage[r] = "idle" /\ UNCHANGED <<final, muted, family>>
        /\ \A q \in Runs : q # r => Keeping(q)
        /\ ~overlap' => ~overlap
    BY <1>2, LaunchIsLocal
  <2> QED BY <2>1 DEF StatusInv, Loop, Guarded, Exists, Keeping
<1>3. CASE UNCHANGED runVars
  BY <1>3 DEF runVars, files, writing, ledgers, StatusInv, Guarded, Exists
<1> QED BY <1>1, <1>2, <1>3, NextSplits

\* The status in the metadata of a guarded family tells how its run ended
\* (_record_execution_failure, workflows/plane_beris_edwards.py:241, and 328).
THEOREM StatusIsTrue == RunSpec => []StatusTellsTheEnd
<1>1. RunInit => TypeInv /\ WritingInv /\ StatusInv
  BY TypeInit, WritingInit, NamesAreNames
  DEF RunInit, StatusInv, Exists, Absent
<1>2. TypeInv /\ WritingInv /\ StatusInv /\ [RunNext]_runVars
        => TypeInv' /\ WritingInv' /\ StatusInv'
  BY TypeNext, WritingNext, StatusNext
<1>3. StatusInv => StatusTellsTheEnd
  BY DEF StatusInv, StatusTellsTheEnd, MD, Loop
<1> QED BY <1>1, <1>2, <1>3, PTL DEF RunSpec

----------------------------------------------------------------------------
\* The way of a run through its stages, whoever else is alive.

Before == {"idle", "check", "guard", "restore", "initial", "running"}

\* A stage that ends the run, with or without a record.
Ends(r) ==
    /\ UNCHANGED <<at, saved>>
    /\ \/ stage'[r] \in {"raised", "rejected", "killed"}
       \/ stage'[r] = "record" /\ Guarded

\* The next stage of a run that goes on.
Goes(r) ==
    \/ UNCHANGED <<at, saved>> /\ stage'[r] = stage[r]
    \/ UNCHANGED <<at, saved>> /\ stage[r] = "check"
       /\ stage'[r] \in {"initial", "guard"}
       /\ (stage'[r] = "initial" => family = "plane") /\ DirectoryIsEmpty
    \/ UNCHANGED <<at, saved>> /\ stage[r] = "initial" /\ stage'[r] = "guard"
    \/ UNCHANGED <<at, saved>> /\ stage[r] = "guard" /\ stage'[r] = "restore"
       /\ (Guarded => ~Exists(final[Mark]))
       /\ (family = "finiteq" => DirectoryIsEmpty)
    \/ UNCHANGED <<at, saved>> /\ stage[r] = "restore"
       /\ stage'[r] = IF family = "periodic" THEN "step" ELSE "running"
    \/ UNCHANGED <<at, saved>> /\ stage[r] = "running" /\ stage'[r] = "step"
    \/ UNCHANGED <<at, saved>> /\ stage[r] = "step"
       /\ \/ stage'[r] = "frame" /\ family # "finiteq"
          \/ /\ stage'[r] = "update" /\ at[r] # Goal(r)
             /\ family # "finiteq" => at[r] % SaveEvery # 0
          \/ stage'[r] = "marker" /\ family = "finiteq" /\ at[r] = Goal(r)
    \/ /\ stage[r] = "frame" /\ stage'[r] = After(r) /\ UNCHANGED at
       /\ saved' = [saved EXCEPT ![r] = @ \cup {at[r]}]
       /\ part[r] + 1 \notin PartsUsed
    \/ /\ stage[r] = "update" /\ UNCHANGED saved
       /\ at' = [at EXCEPT ![r] = @ + 1]
       /\ stage'[r] = IF family = "finiteq" /\ (at[r] + 1) % SaveEvery = 0
                      THEN "frame" ELSE "save"
    \/ UNCHANGED <<at, saved>> /\ stage[r] = "save" /\ stage'[r] = "step"
    \/ UNCHANGED <<at, saved>>
       /\ stage[r] \in {"npy", "csv", "complete", "marker"}
       /\ stage'[r] = After(r)
    \/ UNCHANGED <<at, saved>> /\ stage[r] = "record" /\ stage'[r] = "raised"

LEMMA FinishGoes ==
    ASSUME TypeInv, NEW r \in Runs, Finish(r), stage[r] \in Writes, UNCHANGED at
    PROVE  Goes(r)
<1>1. CASE stage[r] = "frame" /\ part[r] + 1 \in PartsUsed
  BY <1>1 DEF Finish, Goes
<1>2. CASE stage[r] = "frame" /\ part[r] + 1 \notin PartsUsed
  BY <1>2, MoveIsLocal DEF Finish, Goes, TypeInv
<1>3. CASE stage[r] # "frame"
  <2>1. stage'[r] = After(r) /\ saved' = saved
    BY <1>3, MoveIsLocal DEF Finish, TypeInv
  <2>2. stage[r] \in {"initial", "running", "npy", "csv", "complete", "marker",
                      "record"}
    BY <1>3 DEF Writes
  <2>3. /\ stage[r] = "initial" => After(r) = "guard"
        /\ stage[r] = "running" => After(r) = "step"
        /\ stage[r] = "record" => After(r) = "raised"
    BY DEF After
  <2> QED BY <2>1, <2>2, <2>3 DEF Goes
<1> QED BY <1>1, <1>2, <1>3

LEMMA StepGoes ==
    ASSUME TypeInv, NEW r \in Runs, Moves(r)
    PROVE  Ends(r) \/ Goes(r)
<1> USE DEF TypeInv, files, writing, journal, ledgers
<1>1. Raise(r) => \/ stage'[r] = "raised"
                  \/ stage'[r] = "record" /\ Guarded
  BY MoveIsLocal DEF Raise
<1>2. AbandonFile(r) => \/ stage'[r] = "raised"
                        \/ stage'[r] = "record" /\ Guarded
  BY <1>1, MoveIsLocal DEF AbandonFile, Abandon
<1>3. CASE CheckDirectory(r)
  BY <1>3, MoveIsLocal DEF CheckDirectory, Goes, Ends
<1>4. CASE GuardDirectory(r)
  BY <1>4, MoveIsLocal DEF GuardDirectory, Goes, Ends, Mark
<1>5. CASE RestoreIfRequested(r)
  BY <1>5, MoveIsLocal DEF RestoreIfRequested, Goes, Ends
<1>6. CASE CheckOutputs(r)
  BY <1>1, <1>6 DEF CheckOutputs, Goes, Ends
<1>7. CASE ProbeTemporary(r)
  BY <1>1, <1>7 DEF ProbeTemporary, Goes, Ends
<1>8. CASE OpenFile(r)
  <2>1. UNCHANGED <<at, saved>> /\ (AbandonFile(r) \/ stage' = stage)
    BY <1>8 DEF OpenFile
  <2> QED BY <1>2, <2>1 DEF Goes, Ends
<1>9. CASE FillFile(r)
  <2>1. stage[r] \in Writes /\ UNCHANGED at
        /\ (UNCHANGED <<stage, saved>> \/ Finish(r))
    BY <1>9 DEF FillFile
  <2>2. CASE UNCHANGED <<stage, saved>>
    BY <2>1, <2>2 DEF Goes
  <2> QED BY <2>1, <2>2, FinishGoes
<1>10. CASE PlaceFile(r)
  <2>1. stage[r] \in Writes /\ UNCHANGED at
        /\ ((AbandonFile(r) /\ UNCHANGED saved) \/ Finish(r))
    BY <1>10 DEF PlaceFile, Replace
  <2>2. CASE AbandonFile(r) /\ UNCHANGED saved
    BY <1>2, <2>1, <2>2 DEF Ends
  <2> QED BY <2>1, <2>2, FinishGoes
<1>11. CASE NextStep(r)
  <2>1. /\ stage[r] = "step" /\ UNCHANGED <<at, saved>>
        /\ stage'[r] = IF family = "finiteq"
                THEN IF at[r] = Goal(r) THEN "marker" ELSE "update"
                ELSE IF at[r] = Goal(r) \/ Due(r, SaveEvery) THEN "frame"
                ELSE "update"
    BY <1>11, MoveIsLocal DEF NextStep
  <2> QED BY <2>1 DEF Goes, Due
<1>12. CASE UpdateState(r)
  BY <1>12, MoveIsLocal DEF UpdateState, Goes
<1>13. CASE SaveCheckpoint(r)
  <2>1. /\ stage[r] = "save" /\ UNCHANGED <<at, saved>>
        /\ stage'[r] = "step" \/ Raise(r)
    BY <1>13, MoveIsLocal DEF SaveCheckpoint
  <2> QED BY <1>1, <2>1 DEF Goes, Ends
<1>14. CASE StepFails(r)
  BY <1>1, <1>14 DEF StepFails, Ends
<1>15. CASE FileFails(r)
  <2>1. UNCHANGED <<at, saved>> /\ (AbandonFile(r) \/ Raise(r))
    BY <1>15 DEF FileFails, AbandonFile
  <2> QED BY <1>1, <1>2, <2>1 DEF Ends
<1>16. CASE KillRun(r)
  BY <1>16, MoveIsLocal DEF KillRun, Ends
<1>17. CASE PlaceRaises(r)
  BY <1>17 DEF PlaceRaises, Goes
<1>18. CASE AbandonPlaced(r)
  BY <1>2, <1>18 DEF AbandonPlaced, Ends
<1> QED BY <1>3, <1>4, <1>5, <1>6, <1>7, <1>8, <1>9, <1>10, <1>11, <1>12,
           <1>13, <1>14, <1>15, <1>16, <1>17, <1>18 DEF Moves, RunStep

\* The observations the schedule asks for before step n.
Asked(r, n) ==
    IF family = "finiteq"
    THEN {s \in start[r] + 1..n - 1 : s % SaveEvery = 0}
    ELSE {s \in start[r]..n - 1 : s % SaveEvery = 0 \/ s = Goal(r)}

\* Which of its observations a run has made, at each of its stages.
PathOf(r) ==
    /\ stage[r] \in Before => at[r] = start[r] /\ saved[r] = {}
    /\ stage[r] = "record" => Guarded
    /\ stage[r] = "initial" => family = "plane"
    /\ stage[r] = "running" => family # "periodic"
    /\ stage[r] \in {"npy", "csv", "complete"} => family # "finiteq"
    /\ \A s \in saved[r] :
         /\ start[r] <= s /\ s <= at[r]
         /\ \/ stage[r] = "frame"
            \/ family # "finiteq" /\ stage[r] \in {"save", "step"}
            => s < at[r]
    /\ \/ stage[r] = "frame"
       \/ family # "finiteq" /\ stage[r] \in {"save", "step"}
       => Asked(r, at[r]) \subseteq saved[r]
    /\ \/ stage[r] = "update"
       \/ family = "finiteq" /\ stage[r] \in {"save", "step"}
       => Asked(r, at[r] + 1) \subseteq saved[r]
    /\ stage[r] \in {"npy", "csv", "complete", "marker", "returned"} =>
         Asked(r, Goal(r) + 1) \subseteq saved[r]

PathInv == \A r \in Runs : PathOf(r)

LEMMA AskedGrows ==
    ASSUME TypeInv, NEW r \in Runs, NEW n \in Nat
    PROVE  /\ Asked(r, n + 1) \subseteq Asked(r, n) \cup {n}
           /\ n % SaveEvery # 0 /\ (family # "finiteq" => n # Goal(r)) =>
                Asked(r, n + 1) \subseteq Asked(r, n)
           /\ n = start[r] /\ family # "finiteq" => Asked(r, n) = {}
           /\ n = start[r] /\ family = "finiteq" => Asked(r, n + 1) = {}
BY DEF Asked, TypeInv, RunTypeOK

LEMMA PathOfMover ==
    ASSUME TypeInv, NEW r \in Runs, PathOf(r), Ends(r) \/ Goes(r),
           UNCHANGED <<start, family>>, Alive(r)
    PROVE  PathOf(r)'
<1>0. /\ at[r] \in Nat /\ start[r] \in Nat /\ saved[r] \subseteq Nat
      /\ Goal(r) \in Nat
  BY RunAssumption DEF TypeInv, RunTypeOK, Goal
<1>1. /\ Goal(r)' = Goal(r) /\ Guarded' = Guarded
      /\ \A n \in Nat : Asked(r, n)' = Asked(r, n)
  BY DEF Goal, Guarded, Asked
<1>2. CASE Ends(r)
  BY <1>0, <1>1, <1>2 DEF Ends, PathOf, Before
<1>3. CASE Goes(r)
  <2>1. CASE UNCHANGED <<at, saved>> /\ stage'[r] = stage[r]
    BY <1>0, <1>1, <2>1 DEF PathOf
  <2>2. CASE /\ UNCHANGED <<at, saved>> /\ stage[r] \in Before
             /\ stage'[r] \in Before
             /\ stage'[r] = "initial" => family = "plane"
             /\ stage'[r] = "running" => family # "periodic"
    BY <1>0, <1>1, <2>2 DEF PathOf, Before
  <2>3. CASE UNCHANGED <<at, saved>> /\ stage[r] \in Before /\ stage'[r] = "step"
    BY <1>0, <1>1, <2>3, AskedGrows DEF PathOf, Before
  <2>4. CASE UNCHANGED <<at, saved>> /\ stage[r] = "step"
             /\ stage'[r] = "frame" /\ family # "finiteq"
    BY <1>0, <1>1, <2>4 DEF PathOf, Before
  <2>5. CASE /\ UNCHANGED <<at, saved>> /\ stage[r] = "step"
             /\ stage'[r] = "update" /\ at[r] # Goal(r)
             /\ family # "finiteq" => at[r] % SaveEvery # 0
    BY <1>0, <1>1, <2>5, AskedGrows DEF PathOf, Before
  <2>6. CASE UNCHANGED <<at, saved>> /\ stage[r] = "step"
             /\ stage'[r] = "marker" /\ family = "finiteq" /\ at[r] = Goal(r)
    BY <1>0, <1>1, <2>6 DEF PathOf, Before
  <2>7. CASE /\ stage[r] = "frame" /\ stage'[r] = After(r) /\ UNCHANGED at
             /\ saved' = [saved EXCEPT ![r] = @ \cup {at[r]}]
    <3>1. saved'[r] = saved[r] \cup {at[r]}
      BY <2>7 DEF TypeInv, RunTypeOK
    <3>2. Asked(r, at[r] + 1) \subseteq saved'[r]
      <4>1. Asked(r, at[r]) \subseteq saved[r]
        BY <2>7 DEF PathOf
      <4>2. Asked(r, at[r] + 1) \subseteq Asked(r, at[r]) \cup {at[r]}
        BY <1>0, AskedGrows
      <4> QED BY <3>1, <4>1, <4>2
    <3>3. /\ family = "finiteq" => stage'[r] = "save"
          /\ family # "finiteq" /\ at[r] = Goal(r) => stage'[r] = "npy"
          /\ family # "finiteq" /\ at[r] # Goal(r) => stage'[r] = "update"
      <4>1. stage'[r] = IF family = "finiteq" THEN "save"
                        ELSE IF at[r] = Goal(r) THEN "npy" ELSE "update"
        BY <2>7 DEF After
      <4> QED BY <4>1
    <3>4. \A s \in saved'[r] : start[r] <= s /\ s <= at[r]
      <4>1. start[r] <= at[r]
        BY <2>7 DEF TypeInv, Paced
      <4> QED BY <1>0, <3>1, <4>1 DEF PathOf
    <3> QED BY <1>0, <1>1, <2>7, <3>2, <3>3, <3>4 DEF PathOf, Before
  <2>8. CASE /\ stage[r] = "update" /\ UNCHANGED saved
             /\ at' = [at EXCEPT ![r] = @ + 1]
             /\ stage'[r] = IF family = "finiteq" /\ (at[r] + 1) % SaveEvery = 0
                            THEN "frame" ELSE "save"
    <3>1. at'[r] = at[r] + 1 /\ at[r] + 1 \in Nat /\ at[r] + 1 + 1 \in Nat
      BY <1>0, <2>8 DEF TypeInv, RunTypeOK
    <3>2. Asked(r, at[r] + 1) \subseteq saved'[r]
      BY <2>8 DEF PathOf
    <3>3. (at[r] + 1) % SaveEvery # 0 /\ family = "finiteq" =>
            Asked(r, at[r] + 1 + 1) \subseteq saved'[r]
      BY <3>1, <3>2, AskedGrows
    <3>4. \A s \in saved'[r] : start[r] <= s /\ s < at[r] + 1
      BY <1>0, <2>8 DEF PathOf
    <3> QED BY <1>0, <1>1, <2>8, <3>1, <3>2, <3>3, <3>4 DEF PathOf, Before
  <2>9. CASE UNCHANGED <<at, saved>> /\ stage[r] = "save" /\ stage'[r] = "step"
    BY <1>0, <1>1, <2>9 DEF PathOf, Before
  <2>10. CASE UNCHANGED <<at, saved>>
              /\ stage[r] \in {"npy", "csv", "complete", "marker"}
              /\ stage'[r] = After(r)
    BY <1>0, <1>1, <2>10 DEF PathOf, Before, After
  <2>11. CASE UNCHANGED <<at, saved>> /\ stage[r] = "record"
              /\ stage'[r] = "raised"
    BY <1>0, <1>1, <2>11 DEF PathOf, Before
  <2> QED BY <1>3, <2>1, <2>2, <2>3, <2>4, <2>5, <2>6, <2>7, <2>8, <2>9,
             <2>10, <2>11 DEF Goes, Before
<1> QED BY <1>2, <1>3

LEMMA PathNext ==
    ASSUME TypeInv, PathInv, [RunNext]_runVars
    PROVE  PathInv'
<1> USE DEF PathInv
<1>1. ASSUME NEW r \in Runs, Moves(r)
      PROVE  PathInv'
  <2>1. /\ \A q \in Runs : q # r => Keeping(q)
        /\ UNCHANGED <<start, family>> /\ Alive(r)
    BY <1>1, StepIsLocal DEF Settled
  <2>2. ASSUME NEW q \in Runs, q # r PROVE PathOf(q)'
    BY <2>1, <2>2 DEF PathOf, Keeping, Guarded, Asked, Goal
  <2> QED BY <1>1, <2>1, <2>2, StepGoes, PathOfMover
<1>2. ASSUME NEW r \in Runs, Launch(r)
      PROVE  PathInv'
  <2>1. /\ stage[r] = "idle" /\ stage'[r] \in {"check", "guard"}
        /\ UNCHANGED <<saved, family>>
        /\ \A q \in Runs : q # r => Keeping(q) /\ start'[q] = start[q]
    BY <1>2, LaunchIsLocal
  <2>2. start'[r] = at'[r]
    BY <1>2 DEF Launch, TypeInv, RunTypeOK
  <2>3. ASSUME NEW q \in Runs, q # r PROVE PathOf(q)'
    BY <2>1, <2>3 DEF PathOf, Keeping, Guarded, Asked, Goal
  <2>4. PathOf(r)'
    BY <2>1, <2>2 DEF PathOf, Before
  <2> QED BY <2>3, <2>4
<1>3. CASE UNCHANGED runVars
  BY <1>3 DEF runVars, files, journal, ledgers, PathOf, Guarded, Asked, Goal
<1> QED BY <1>1, <1>2, <1>3, NextSplits

LEMMA PathInit == RunInit => PathInv
BY DEF RunInit, PathInv, PathOf, Before

----------------------------------------------------------------------------
\* Checkpoints, which are never published twice.

KeptInv ==
    \A r \in Runs : \A s \in kept[r] : s \in 0..LastStep /\ published[s] = r

LEMMA StepPublishes ==
    ASSUME TypeInv, NEW r \in Runs, Moves(r)
    PROVE  \/ UNCHANGED <<published, kept>>
           \/ /\ published[at[r]] = NoRun
              /\ published' = [published EXCEPT ![at[r]] = r]
              /\ kept' = [kept EXCEPT ![r] = @ \cup {at[r]}]
BY DEF Moves, RunStep, CheckDirectory, GuardDirectory, RestoreIfRequested,
   CheckOutputs, ProbeTemporary, OpenFile, FillFile, PlaceFile, Replace, NextStep,
   UpdateState, SaveCheckpoint, StepFails, FileFails, PlaceRaises,
     AbandonPlaced, KillRun, files, journal

LEMMA KeptNext ==
    ASSUME TypeInv, KeptInv, [RunNext]_runVars
    PROVE  KeptInv'
<1>1. ASSUME NEW r \in Runs, Moves(r)
      PROVE  KeptInv'
  <2>1. at[r] \in 0..LastStep
    BY DEF TypeInv, RunTypeOK
  <2>2. CASE /\ published[at[r]] = NoRun
             /\ published' = [published EXCEPT ![at[r]] = r]
             /\ kept' = [kept EXCEPT ![r] = @ \cup {at[r]}]
    <3>1. \A s \in 0..LastStep :
            published'[s] = IF s = at[r] THEN r ELSE published[s]
      BY <2>1, <2>2 DEF TypeInv, RunTypeOK
    <3>2. \A q \in Runs : kept'[q] = IF q = r THEN kept[q] \cup {at[r]}
                                     ELSE kept[q]
      BY <2>2 DEF TypeInv, RunTypeOK
    <3> QED BY <2>1, <2>2, <3>1, <3>2, RunAssumption DEF KeptInv
  <2> QED BY <1>1, <2>2, StepPublishes DEF KeptInv
<1>2. ASSUME NEW r \in Runs, Launch(r)
      PROVE  KeptInv'
  BY <1>2, LaunchIsLocal DEF KeptInv
<1>3. CASE UNCHANGED runVars
  BY <1>3 DEF runVars, files, journal, KeptInv
<1> QED BY <1>1, <1>2, <1>3, NextSplits

----------------------------------------------------------------------------
\* Observations.

F(k, s) == final[Frame(k, s)]
Slots == 1..Len(Parts)

LEMMA FrameFile ==
    ASSUME TypeInv, NEW r \in Runs
    PROVE  /\ stage[r] = "frame" => File(r) = Frame(part[r], at[r])
           /\ stage[r] # "frame" =>
                \A k \in Slots, s \in 0..LastStep : File(r) # Frame(k, s)
           /\ part[r] \in Slots /\ at[r] \in 0..LastStep
<1>1. part[r] \in Slots /\ at[r] \in 0..LastStep
  BY DEF TypeInv, RunTypeOK, Slots
<1>2. stage[r] # "frame" => File(r) \in {MD, Mark, NPY, CSV, <<"initial", 0>>}
  BY DEF File, MD, Mark, NPY, CSV
<1>3. stage[r] = "frame" => File(r) = Frame(part[r], at[r])
  BY DEF File
<1> QED BY <1>1, <1>2, <1>3, NamesAreNames DEF Slots

\* Outside an observation no file of one changes, and one is entered at its
\* first part.
LEMMA FramesStay ==
    ASSUME TypeInv, NEW r \in Runs, Moves(r), stage[r] # "frame"
    PROVE  /\ \A k \in Slots, s \in 0..LastStep : final'[Frame(k, s)] = F(k, s)
           /\ saved' = saved
           /\ stage'[r] = "frame" =>
                part'[r] = 1 /\ io'[r] = IF Guarded THEN "check" ELSE "open"
<1>1. \A k \in Slots, s \in 0..LastStep : final'[Frame(k, s)] = F(k, s)
  BY StepIsLocal, FrameFile, NamesAreNames DEF F, Elsewhere, Slots, Frame
<1>2. saved' = saved
  BY StepGoes DEF Ends, Goes
<1>3. ASSUME stage'[r] = "frame"
      PROVE  part'[r] = 1 /\ io'[r] = IF Guarded THEN "check" ELSE "open"
  <2>1. stage[r] \in {"step", "update"}
    BY <1>3, StepGoes DEF Ends, Goes, After
  <2>2. family' = family
    BY StepIsLocal DEF Settled
  <2>3. Begin(r, "frame")
    BY <1>3, <2>1, MoveIsLocal
    DEF Moves, RunStep, CheckDirectory, GuardDirectory, RestoreIfRequested,
        CheckOutputs, ProbeTemporary, OpenFile, FillFile, PlaceFile, Replace, NextStep,
        UpdateState, SaveCheckpoint, StepFails, FileFails, PlaceRaises,
     AbandonPlaced, KillRun, Writes,
        Raise, TypeInv
  <2> QED BY <2>2, <2>3 DEF Begin, Move, TypeInv, RunTypeOK, Guarded
<1> QED BY <1>1, <1>2, <1>3

LEMMA NextPart ==
    ASSUME TypeInv, NEW r \in Runs, Finish(r), stage[r] = "frame"
    PROVE  \/ /\ stage'[r] = "frame" /\ part'[r] = part[r] + 1
              /\ part[r] + 1 \in PartsUsed /\ saved' = saved
              /\ io'[r] = IF Guarded THEN "probe" ELSE "open"
           \/ /\ stage'[r] # "frame" /\ part[r] + 1 \notin PartsUsed
              /\ saved' = [saved EXCEPT ![r] = @ \cup {at[r]}]
<1>1. CASE part[r] + 1 \in PartsUsed
  BY <1>1 DEF Finish, TypeInv, RunTypeOK
<1>2. CASE part[r] + 1 \notin PartsUsed
  <2>1. Move(r, After(r)) /\ saved' = [saved EXCEPT ![r] = @ \cup {at[r]}]
    BY <1>2 DEF Finish
  <2>2. After(r) # "frame"
    BY DEF After
  <2> QED BY <1>2, <2>1, <2>2, MoveIsLocal DEF TypeInv
<1> QED BY <1>1, <1>2

\* The periodic family creates its observations exclusively under their own
\* names, which holds whoever else is alive: who has a part has those before.
PeriodicInv ==
    family = "periodic" =>
      /\ \A s \in 0..LastStep, k, j \in Slots :
           k < j /\ Exists(F(j, s)) => Mine(F(k, s), F(j, s).by)
      /\ \A r \in Runs : stage[r] = "frame" =>
           /\ \A k \in Slots : k < part[r] => Mine(F(k, at[r]), r)
           /\ io[r] = "fill" => Mine(F(part[r], at[r]), r)

OpensPart(r) ==
    /\ stage'[r] = "frame" /\ part'[r] = part[r] /\ io'[r] = "fill"
    /\ ~Exists(F(part[r], at[r]))
    /\ \E x \in Contents : /\ Mine(x, r)
                           /\ final' = [final EXCEPT ![File(r)] = x]

EndsPart(r) ==
    /\ io[r] = "fill"
    /\ stage'[r] = "frame" => part'[r] = part[r] + 1 /\ io'[r] # "fill"
    /\ \/ final' = final
       \/ \E x \in Contents : /\ Mine(x, r)
                              /\ final' = [final EXCEPT ![File(r)] = x]

LEMMA PeriodicSteps ==
    ASSUME TypeInv, HandleInv, family = "periodic", NEW r \in Runs, Moves(r),
           stage[r] = "frame"
    PROVE  \/ OpensPart(r) \/ EndsPart(r)
           \/ final' = final /\ stage'[r] # "frame"
<1> USE DEF TypeInv, files, journal, F
<1>1. /\ ~Guarded /\ Style(r) = "direct" /\ Where(r) = "final"
      /\ stage[r] \in Writes /\ io[r] \in {"open", "fill"}
  BY DEF Guarded, Style, Where, Writes, HandleInv, Looks, RunTypeOK
<1>2. AbandonFile(r) => Raise(r) /\ UNCHANGED final
  BY <1>1 DEF AbandonFile, Abandon
<1>3. Raise(r) => stage'[r] # "frame"
  BY RaiseIsLocal
<1>4. \A w \in {"part", "whole"}, s \in {"none", Status(r)} :
         /\ [by |-> r, what |-> w, status |-> s] \in Contents
         /\ Mine([by |-> r, what |-> w, status |-> s], r)
  BY ContentsAreTyped DEF Mine, Exists
<1>5. \A W \in SUBSET {"part", "whole"} : Pour(r, W) =>
        \/ final' = final
        \/ \E x \in Contents : /\ Mine(x, r)
                               /\ final' = [final EXCEPT ![File(r)] = x]
  <2> SUFFICES ASSUME NEW W \in SUBSET {"part", "whole"}, Pour(r, W)
               PROVE  \/ final' = final
                      \/ \E x \in Contents :
                            /\ Mine(x, r)
                            /\ final' = [final EXCEPT ![File(r)] = x]
    OBVIOUS
  <2>1. PICK w \in {"part", "whole"} :
          LET text == [by |-> r, what |-> w, status |-> Status(r)]
          IN IF handle[r] = "temp"
             THEN temp' = [temp EXCEPT ![File(r)] = text] /\ UNCHANGED final
             ELSE final' = [final EXCEPT ![File(r)] = text] /\ UNCHANGED temp
    BY DEF Pour
  <2> QED BY <1>4, <2>1
<1>6. CASE OpenFile(r)
  <2>1. CASE Exists(final[File(r)])
    BY <1>1, <1>2, <1>3, <1>6, <2>1 DEF OpenFile, At
  <2>2. CASE ~Exists(final[File(r)])
    <3>1. /\ final' = [final EXCEPT ![File(r)] =
                         [by |-> r, what |-> "part", status |-> "none"]]
          /\ io' = [io EXCEPT ![r] = "fill"] /\ UNCHANGED <<stage, part>>
      BY <1>1, <1>6, <2>2 DEF OpenFile, At
    <3> QED BY <1>4, <2>2, <3>1, FrameFile DEF OpensPart, RunTypeOK, F
  <2> QED BY <2>1, <2>2
<1>7. CASE FillFile(r)
  <2>1. io[r] = "fill" /\ Finish(r)
        /\ (Pour(r, {"whole"}) \/ UNCHANGED final)
    BY <1>1, <1>7 DEF FillFile
  <2>2. stage'[r] = "frame" => part'[r] = part[r] + 1 /\ io'[r] # "fill"
    BY <1>1, <2>1, NextPart
  <2> QED BY <1>5, <2>1, <2>2 DEF EndsPart
<1>8. CASE FileFails(r)
  <2>1. CASE AbandonFile(r)
    BY <1>2, <1>3, <2>1
  <2>2. CASE io[r] = "fill" /\ Raise(r)
             /\ (Pour(r, {"part", "whole"}) \/ UNCHANGED final)
    BY <1>3, <1>5, <2>2 DEF EndsPart
  <2> QED BY <1>1, <1>8, <2>1, <2>2 DEF FileFails
<1>9. CASE KillRun(r)
  BY <1>9, MoveIsLocal DEF KillRun
<1>10. CASE /\ Moves(r)
            /\ ~(OpenFile(r) \/ FillFile(r) \/ FileFails(r) \/ KillRun(r))
  <2>1. ~AbandonPlaced(r) /\ ~PlaceRaises(r)
    BY <1>1 DEF AbandonPlaced, PlaceRaises
  <2> QED BY <1>1, <1>10, <2>1 DEF Moves, RunStep, CheckDirectory,
      GuardDirectory, RestoreIfRequested, CheckOutputs, ProbeTemporary,
      PlaceFile, Replace, NextStep, UpdateState, SaveCheckpoint, StepFails
<1> QED BY <1>6, <1>7, <1>8, <1>9, <1>10

LEMMA PeriodicNext ==
    ASSUME TypeInv, HandleInv, PeriodicInv, [RunNext]_runVars
    PROVE  PeriodicInv'
<1> USE DEF F
<1>1. ASSUME NEW r \in Runs, Moves(r)
      PROVE  PeriodicInv'
  <2>1. /\ \A q \in Runs : q # r => Keeping(q)
        /\ family' = family
    BY <1>1, StepIsLocal DEF Settled
  <2>2. SUFFICES ASSUME family = "periodic" PROVE PeriodicInv'
    BY <2>1 DEF PeriodicInv
  <2>3. CASE stage[r] # "frame"
    <3>1. /\ \A k \in Slots, s \in 0..LastStep : final'[Frame(k, s)] = F(k, s)
          /\ stage'[r] = "frame" => part'[r] = 1 /\ io'[r] # "fill"
      BY <1>1, <2>3, FramesStay
    <3>2. \A q \in Runs : at[q] \in 0..LastStep /\ part[q] \in Slots
      BY DEF TypeInv, RunTypeOK, Slots
    <3>3. \A k \in Slots : ~(k < 1)
      BY DEF Slots
    <3>4. \A s \in 0..LastStep, k, j \in Slots :
            k < j /\ Exists(final'[Frame(j, s)]) =>
              Mine(final'[Frame(k, s)], final'[Frame(j, s)].by)
      BY <2>2, <3>1 DEF PeriodicInv
    <3>5. ASSUME NEW q \in Runs, stage'[q] = "frame"
          PROVE  /\ \A k \in Slots :
                      k < part'[q] => Mine(final'[Frame(k, at'[q])], q)
                 /\ io'[q] = "fill" => Mine(final'[Frame(part'[q], at'[q])], q)
      <4>1. CASE q = r
        BY <3>1, <3>3, <3>5, <4>1
      <4>2. CASE q # r
        BY <2>1, <2>2, <3>1, <3>2, <3>5, <4>2 DEF PeriodicInv, Keeping
      <4> QED BY <4>1, <4>2
    <3> QED BY <2>1, <2>2, <3>4, <3>5 DEF PeriodicInv, Mine, Exists
  <2>4. CASE stage[r] = "frame"
    <3> DEFINE n == part[r]
               t == at[r]
    <3>1. /\ File(r) = Frame(n, t) /\ n \in Slots /\ t \in 0..LastStep
          /\ \A q \in Runs : at[q] \in 0..LastStep /\ part[q] \in Slots
      BY <2>4, FrameFile DEF TypeInv, RunTypeOK, Slots
    <3>2. stage'[r] = "frame" => at'[r] = t
      BY <1>1, <2>4, StepGoes DEF Ends, Goes
    <3>3. ASSUME NEW x \in Contents, final' = [final EXCEPT ![File(r)] = x]
          PROVE  /\ final'[Frame(n, t)] = x
                 /\ \A k \in Slots, s \in 0..LastStep :
                      k # n \/ s # t => final'[Frame(k, s)] = F(k, s)
      BY <3>1, <3>3, NamesAreNames DEF F, Slots, TypeInv, RunTypeOK, Frame
    <3>4. CASE final' = final
      <4>1. \A k \in Slots, s \in 0..LastStep : final'[Frame(k, s)] = F(k, s)
        BY <3>4 DEF F, Frame
      <4>2. stage'[r] = "frame" => EndsPart(r)
        <5>1. ASSUME OpensPart(r) PROVE FALSE
          <6>1. PICK x \in Contents :
                  Mine(x, r) /\ final' = [final EXCEPT ![File(r)] = x]
            BY <5>1 DEF OpensPart
          <6>2. final[Frame(n, t)] = x
            BY <3>3, <3>4, <6>1
          <6> QED BY <5>1, <6>1, <6>2 DEF OpensPart, Mine
        <5> QED BY <1>1, <2>2, <2>4, <5>1, PeriodicSteps DEF TypeInv
      <4>3. stage'[r] = "frame" => /\ \A k \in Slots : k < part'[r] => k < n \/ k = n
                                   /\ io'[r] # "fill" /\ io[r] = "fill"
        BY <3>1, <4>2 DEF EndsPart, Slots
      <4> QED BY <2>1, <2>2, <2>4, <3>1, <3>2, <4>1, <4>3
              DEF PeriodicInv, Keeping, Mine, Exists
    <3>5. ASSUME NEW x \in Contents, Mine(x, r), OpensPart(r),
                 final' = [final EXCEPT ![File(r)] = x]
          PROVE  PeriodicInv'
      <4>1. /\ final'[Frame(n, t)] = x
            /\ \A k \in Slots, s \in 0..LastStep :
                 k # n \/ s # t => final'[Frame(k, s)] = F(k, s)
        BY <3>3, <3>5
      <4>2. ~Exists(F(n, t)) /\ part'[r] = n
        BY <3>5 DEF OpensPart
      <4>3. \A j \in Slots : n < j => ~Exists(F(j, t))
        BY <2>2, <3>1, <4>2 DEF PeriodicInv, Mine
      <4>4. \A k \in Slots : k < n => Mine(F(k, t), r)
        BY <2>2, <2>4 DEF PeriodicInv
      <4>5. \A s \in 0..LastStep, k, j \in Slots :
              k < j /\ Exists(final'[Frame(j, s)]) =>
                Mine(final'[Frame(k, s)], final'[Frame(j, s)].by)
        <5> TAKE s \in 0..LastStep, k \in Slots, j \in Slots
        <5>1. CASE s = t /\ j = n
          BY <3>1, <3>5, <4>1, <4>4, <5>1 DEF Mine, Slots
        <5>2. CASE s = t /\ k = n
          BY <3>1, <4>1, <4>3, <5>2 DEF Slots
        <5>3. CASE s # t \/ (j # n /\ k # n)
          BY <2>2, <4>1, <5>3 DEF PeriodicInv
        <5> QED BY <5>1, <5>2, <5>3
      <4>6. \A q \in Runs : q # r /\ stage[q] = "frame" =>
              /\ \A k \in Slots : k < part[q] => Mine(final'[Frame(k, at[q])], q)
              /\ io[q] = "fill" => Mine(final'[Frame(part[q], at[q])], q)
        BY <2>2, <3>1, <4>1, <4>2 DEF PeriodicInv, Mine
      <4>7. stage'[r] = "frame" =>
              /\ \A k \in Slots : k < part'[r] => Mine(final'[Frame(k, t)], r)
              /\ Mine(final'[Frame(part'[r], t)], r)
        BY <3>1, <3>5, <4>1, <4>2, <4>4 DEF Slots
      <4> QED BY <2>1, <2>2, <3>2, <4>5, <4>6, <4>7
              DEF PeriodicInv, Keeping, Mine, Exists, F, Frame
    <3>6. ASSUME NEW x \in Contents, Mine(x, r), EndsPart(r),
                 final' = [final EXCEPT ![File(r)] = x]
          PROVE  PeriodicInv'
      <4>1. /\ final'[Frame(n, t)] = x
            /\ \A k \in Slots, s \in 0..LastStep :
                 k # n \/ s # t => final'[Frame(k, s)] = F(k, s)
        BY <3>3, <3>6
      <4>2. /\ Mine(F(n, t), r)
            /\ stage'[r] = "frame" => part'[r] = n + 1 /\ io'[r] # "fill"
        BY <2>2, <2>4, <3>6 DEF PeriodicInv, EndsPart
      <4>3. \A k \in Slots, s \in 0..LastStep :
              /\ Exists(final'[Frame(k, s)]) <=> Exists(F(k, s))
              /\ Exists(F(k, s)) => final'[Frame(k, s)].by = F(k, s).by
        BY <3>6, <4>1, <4>2 DEF Mine
      <4>4. \A q \in Runs, k \in Slots, s \in 0..LastStep :
              Mine(F(k, s), q) => Mine(final'[Frame(k, s)], q)
        BY <4>3 DEF Mine
      <4>5. \A s \in 0..LastStep, k, j \in Slots :
              k < j /\ Exists(final'[Frame(j, s)]) =>
                Mine(final'[Frame(k, s)], final'[Frame(j, s)].by)
        BY <2>2, <4>3 DEF PeriodicInv, Mine
      <4>6. \A q \in Runs : q # r /\ stage[q] = "frame" =>
              /\ \A k \in Slots : k < part[q] => Mine(final'[Frame(k, at[q])], q)
              /\ io[q] = "fill" => Mine(final'[Frame(part[q], at[q])], q)
        BY <2>2, <3>1, <4>4 DEF PeriodicInv
      <4>7. stage'[r] = "frame" =>
              \A k \in Slots : k < part'[r] => Mine(final'[Frame(k, t)], r)
        <5>1. \A k \in Slots : k < n + 1 => k < n \/ k = n
          BY <3>1 DEF Slots
        <5>2. \A k \in Slots : k < n => Mine(F(k, t), r)
          BY <2>2, <2>4 DEF PeriodicInv
        <5> QED BY <3>1, <4>2, <4>4, <5>1, <5>2
      <4>8. ASSUME NEW q \in Runs, stage'[q] = "frame"
            PROVE  /\ \A k \in Slots :
                        k < part'[q] => Mine(final'[Frame(k, at'[q])], q)
                   /\ io'[q] = "fill" =>
                        Mine(final'[Frame(part'[q], at'[q])], q)
        <5>1. CASE q = r
          BY <3>2, <4>2, <4>7, <4>8, <5>1
        <5>2. CASE q # r
          BY <2>1, <4>6, <4>8, <5>2 DEF Keeping
        <5> QED BY <5>1, <5>2
      <4> QED BY <2>1, <2>2, <4>5, <4>8 DEF PeriodicInv, Mine, Exists, Frame
    <3>7. CASE OpensPart(r)
      BY <3>5, <3>7 DEF OpensPart
    <3>8. CASE EndsPart(r)
      BY <3>4, <3>6, <3>8 DEF EndsPart
    <3>9. OpensPart(r) \/ EndsPart(r) \/ final' = final
      BY <1>1, <2>2, <2>4, PeriodicSteps
    <3> QED BY <3>4, <3>7, <3>8, <3>9
  <2> QED BY <2>3, <2>4
<1>2. ASSUME NEW r \in Runs, Launch(r)
      PROVE  PeriodicInv'
  <2>1. /\ UNCHANGED <<final, family>> /\ stage'[r] # "frame"
        /\ \A q \in Runs : q # r => Keeping(q)
    BY <1>2, LaunchIsLocal
  <2> QED BY <2>1 DEF PeriodicInv, Keeping, Frame, Mine, Exists
<1>3. CASE UNCHANGED runVars
  BY <1>3 DEF runVars, files, writing, journal, ledgers, PeriodicInv, F, Frame,
     Mine, Exists
<1> QED BY <1>1, <1>2, <1>3, NextSplits

LEMMA PeriodicInit == RunInit => PeriodicInv
BY NamesAreNames DEF RunInit, PeriodicInv, F, Mine, Exists, Absent, Slots

\* The other families write an observation beside its name.  While no two runs
\* were alive together, what has the name is whole, the parts before it are
\* of the same run, and a guarded run has looked that the rest is not there.
OtherInv ==
    ~overlap /\ family # "periodic" =>
      /\ \A s \in 0..LastStep, k \in Slots :
           Exists(F(k, s)) => F(k, s).what = "whole" /\ k \in PartsUsed
      /\ \A s \in 0..LastStep, k, j \in Slots :
           k < j /\ Exists(F(j, s)) => Mine(F(k, s), F(j, s).by)
      /\ \A r \in Runs : stage[r] = "frame" =>
           /\ part[r] \in PartsUsed
           /\ \A k \in Slots : k < part[r] => Mine(F(k, at[r]), r)
           /\ Guarded /\ io[r] \notin {"check", "raise"} =>
                \A k \in Slots : part[r] <= k => ~Exists(F(k, at[r]))

\* A step inside an observation of theirs: the same part is still to be
\* written, and was looked for, or it is written, or the run raises.
SamePart(r) ==
    /\ UNCHANGED <<final, saved>> /\ stage'[r] = "frame"
    /\ part'[r] = part[r] /\ io[r] # "raise"
    /\ io[r] = "check" /\ io'[r] # "check" /\ Guarded =>
         \A k \in PartsUsed : ~Exists(F(k, at[r]))

LEMMA OtherSteps ==
    ASSUME TypeInv, WritingInv, ~overlap, family # "periodic", NEW r \in Runs,
           Moves(r), stage[r] = "frame"
    PROVE  \/ SamePart(r) \/ Wrote(r) \/ Lost(r)
           \/ UNCHANGED <<final, saved>> /\ stage'[r] # "frame"
<1> USE DEF TypeInv, files, writing, journal, ledgers
<1>1. /\ Where(r) = "temp" /\ Style(r) \in {"staged", "shared"}
      /\ stage[r] \in Writes
  BY DEF Where, Style, Writes
<1>2. UNCHANGED <<final, saved>> \/ Wrote(r) \/ Lost(r)
  BY <1>1, StepTouches DEF Began, TookBack
<1>3. SUFFICES ASSUME UNCHANGED <<final, saved>>, stage'[r] = "frame",
                      ~Wrote(r), ~Lost(r)
               PROVE  SamePart(r)
  BY <1>2
<1>4. ~Raise(r) /\ ~AbandonFile(r) /\ ~Abandon(r)
  BY <1>3, RaiseIsLocal, AbandonIsLocal DEF AbandonFile
<1>5. CASE CheckOutputs(r)
  BY <1>3, <1>4, <1>5 DEF CheckOutputs, SamePart, RunTypeOK, F
<1>6. CASE ProbeTemporary(r)
  BY <1>3, <1>4, <1>6 DEF ProbeTemporary, SamePart
<1>7. CASE OpenFile(r)
  BY <1>3, <1>4, <1>7 DEF OpenFile, SamePart
<1>8. CASE FillFile(r)
  BY <1>1, <1>3, <1>8 DEF FillFile, SamePart
<1>9. CASE PlaceFile(r)
  BY <1>3, <1>9, PlacedIsMine
<1>10. CASE FileFails(r)
  BY <1>4, <1>10 DEF FileFails, AbandonFile
<1>11. CASE KillRun(r)
  BY <1>3, <1>11, MoveIsLocal DEF KillRun
<1>12. CASE PlaceRaises(r)
  BY <1>3, <1>12, LostIsMine
<1>13. CASE AbandonPlaced(r)
  BY <1>4, <1>13 DEF AbandonPlaced
<1> QED BY <1>1, <1>5, <1>6, <1>7, <1>8, <1>9, <1>10, <1>11, <1>12, <1>13
        DEF Moves, RunStep, CheckDirectory, GuardDirectory, RestoreIfRequested,
            NextStep, UpdateState, SaveCheckpoint, StepFails

\* What one write does to the observations.
LEMMA WroteFrame ==
    ASSUME TypeInv, NEW r \in Runs, Wrote(r) \/ Lost(r), stage[r] = "frame"
    PROVE  LET n == part[r]
               t == at[r]
           IN /\ n \in Slots /\ t \in 0..LastStep
              /\ final'[Frame(n, t)] =
                   [by |-> r, what |-> "whole", status |-> Status(r)]
              /\ \A k \in Slots, s \in 0..LastStep :
                   k # n \/ s # t => final'[Frame(k, s)] = F(k, s)
<1>1. /\ File(r) = Frame(part[r], at[r]) /\ part[r] \in Slots
      /\ at[r] \in 0..LastStep
  BY FrameFile
<1>2. final' = [final EXCEPT ![File(r)] =
                   [by |-> r, what |-> "whole", status |-> Status(r)]]
  BY DEF Wrote, Lost
<1> QED BY <1>1, <1>2, NamesAreNames DEF F, Slots, TypeInv, RunTypeOK

LEMMA OtherNext ==
    ASSUME TypeInv, WritingInv, OtherInv, [RunNext]_runVars
    PROVE  OtherInv'
<1> USE DEF F
<1>1. ASSUME NEW r \in Runs, Moves(r)
      PROVE  OtherInv'
  <2>1. /\ \A q \in Runs : q # r => Keeping(q)
        /\ UNCHANGED <<family, overlap>> /\ Alive(r)
    BY <1>1, StepIsLocal DEF Settled
  <2>2. SUFFICES ASSUME ~overlap, family # "periodic" PROVE OtherInv'
    BY <2>1 DEF OtherInv
  <2>3. \A q \in Runs : stage'[q] = "frame" => q = r
    BY <2>1, <2>2 DEF WritingInv, Solo, Keeping, Alive, Over
  <2>4. PartsUsed' = PartsUsed /\ Guarded' = Guarded
        /\ (Guarded => PartsUsed = Slots) /\ 1 \in PartsUsed
    BY <2>1, NamesAreNames DEF PartsUsed, Guarded, Slots
  <2>5. CASE stage[r] # "frame"
    <3>1. /\ \A k \in Slots, s \in 0..LastStep : final'[Frame(k, s)] = F(k, s)
          /\ stage'[r] = "frame" =>
               part'[r] = 1 /\ io'[r] = IF Guarded THEN "check" ELSE "open"
      BY <1>1, <2>5, FramesStay
    <3>2. \A k \in Slots : ~(k < 1)
      BY DEF Slots
    <3> QED BY <2>1, <2>2, <2>3, <2>4, <3>1, <3>2 DEF OtherInv, Mine, Exists
  <2>6. CASE stage[r] = "frame"
    <3> DEFINE n == part[r]
               t == at[r]
    <3>1. stage'[r] = "frame" => at'[r] = t
      BY <1>1, <2>6, StepGoes DEF Ends, Goes
    <3>2. n \in Slots /\ t \in 0..LastStep /\ n \in PartsUsed
      BY <2>2, <2>6, FrameFile DEF OtherInv
    <3>3. CASE UNCHANGED final /\ (stage'[r] # "frame" \/ SamePart(r))
      <4>1. stage'[r] = "frame" /\ Guarded' /\ io'[r] \notin {"check", "raise"} =>
              \A k \in Slots : part'[r] <= k => ~Exists(F(k, t))
        BY <2>2, <2>4, <2>6, <3>3 DEF SamePart, OtherInv
      <4>2. \A k \in Slots, s \in 0..LastStep : final'[Frame(k, s)] = F(k, s)
        BY <3>3
      <4>3. stage'[r] = "frame" =>
              \A k \in Slots : k < part'[r] => Mine(F(k, t), r)
        BY <2>2, <2>6, <3>3 DEF SamePart, OtherInv
      <4>4. stage'[r] = "frame" => part'[r] \in PartsUsed
        BY <3>2, <3>3 DEF SamePart
      <4> QED BY <2>1, <2>2, <2>3, <2>4, <3>1, <3>2, <4>1, <4>2, <4>3, <4>4
              DEF OtherInv, Mine, Exists
    <3>4. CASE Wrote(r) \/ Lost(r)
      <4>1. /\ final'[Frame(n, t)] =
                 [by |-> r, what |-> "whole", status |-> Status(r)]
            /\ \A k \in Slots, s \in 0..LastStep :
                 k # n \/ s # t => final'[Frame(k, s)] = F(k, s)
        BY <2>6, <3>4, WroteFrame
      <4>2. \A k \in Slots : k < n => Mine(F(k, t), r)
        BY <2>2, <2>6 DEF OtherInv
      <4>3. \A k \in Slots : n < k => ~Exists(F(k, t))
        <5>1. CASE Guarded
          <6>1. io[r] \notin {"check", "raise"}
            BY <3>4 DEF Wrote, Lost, PlaceRaises
          <6> QED BY <2>2, <2>6, <3>2, <5>1, <6>1 DEF OtherInv, Slots
        <5>2. CASE ~Guarded
          <6>1. PartsUsed = {1}
            BY <2>2, <5>2, RunAssumption
            DEF PartsUsed, Guarded, TypeInv, RunTypeOK
          <6> QED BY <2>2, <3>2, <6>1 DEF OtherInv
        <5> QED BY <5>1, <5>2
      <4>4. \A s \in 0..LastStep, k \in Slots :
              Exists(final'[Frame(k, s)]) =>
                final'[Frame(k, s)].what = "whole" /\ k \in PartsUsed
        BY <2>2, <3>2, <4>1 DEF OtherInv
      <4>5. \A s \in 0..LastStep, k, j \in Slots :
              k < j /\ Exists(final'[Frame(j, s)]) =>
                Mine(final'[Frame(k, s)], final'[Frame(j, s)].by)
        <5> TAKE s \in 0..LastStep, k \in Slots, j \in Slots
        <5>1. CASE s = t /\ j = n
          BY <3>2, <4>1, <4>2, <5>1 DEF Slots
        <5>2. CASE s = t /\ k = n
          BY <3>2, <4>1, <4>3, <5>2 DEF Slots
        <5>3. CASE s # t \/ (j # n /\ k # n)
          BY <2>2, <4>1, <5>3 DEF OtherInv
        <5> QED BY <5>1, <5>2, <5>3
      <4>6. Wrote(r) /\ stage'[r] = "frame" =>
              /\ part'[r] \in PartsUsed /\ part'[r] = n + 1
              /\ \A k \in Slots : k < part'[r] => Mine(final'[Frame(k, t)], r)
              /\ Guarded => \A k \in Slots :
                                part'[r] <= k => ~Exists(final'[Frame(k, t)])
        <5>1. Wrote(r) /\ stage'[r] = "frame" =>
                part'[r] = n + 1 /\ n + 1 \in PartsUsed
          BY <2>6, NextPart DEF Wrote
        <5>2. \A k \in Slots : /\ k < n + 1 => k < n \/ k = n
                               /\ n + 1 <= k => n < k
          BY <3>2 DEF Slots
        <5>3. Mine(final'[Frame(n, t)], r)
          BY <4>1 DEF Mine, Exists
        <5>4. \A k \in Slots : k # n => final'[Frame(k, t)] = F(k, t)
          BY <3>2, <4>1
        <5>5. \A k \in Slots : n < k \/ k < n => k # n
          BY <3>2 DEF Slots
        <5>6. \A k \in Slots : k < n + 1 => Mine(final'[Frame(k, t)], r)
          BY <4>2, <5>2, <5>3, <5>4, <5>5
        <5>7. \A k \in Slots : n + 1 <= k => ~Exists(final'[Frame(k, t)])
          BY <4>3, <5>2, <5>4, <5>5
        <5> QED BY <5>1, <5>6, <5>7
      <4>7. ASSUME NEW q \in Runs, stage'[q] = "frame"
            PROVE  /\ part'[q] \in PartsUsed
                   /\ \A k \in Slots :
                        k < part'[q] => Mine(final'[Frame(k, at'[q])], q)
                   /\ Guarded /\ io'[q] \notin {"check", "raise"} =>
                        \A k \in Slots :
                          part'[q] <= k => ~Exists(final'[Frame(k, at'[q])])
        <5>1. CASE Wrote(r)
          BY <2>3, <3>1, <4>6, <4>7, <5>1
        <5>2. CASE Lost(r)
          <6>1. part'[r] = n /\ io'[r] = "raise"
            BY <5>2 DEF Lost
          <6>2. \A k \in Slots : k < n => Mine(final'[Frame(k, t)], r)
            BY <3>2, <4>1, <4>2 DEF Slots
          <6> QED BY <2>3, <3>1, <3>2, <4>7, <6>1, <6>2
        <5> QED BY <3>4, <5>1, <5>2
      <4> QED BY <2>2, <2>4, <4>4, <4>5, <4>7 DEF OtherInv, Mine, Exists
    <3>5. \/ SamePart(r) \/ Wrote(r) \/ Lost(r)
          \/ UNCHANGED <<final, saved>> /\ stage'[r] # "frame"
      BY <1>1, <2>2, <2>6, OtherSteps
    <3> QED BY <3>3, <3>4, <3>5 DEF SamePart
  <2> QED BY <2>5, <2>6
<1>2. ASSUME NEW r \in Runs, Launch(r)
      PROVE  OtherInv'
  <2>1. /\ UNCHANGED <<final, family, io, part>> /\ stage'[r] # "frame"
        /\ \A q \in Runs : q # r => Keeping(q)
        /\ ~overlap' => ~overlap
    BY <1>2, LaunchIsLocal
  <2>2. ASSUME NEW q \in Runs, stage'[q] = "frame"
        PROVE  stage[q] = "frame" /\ at'[q] = at[q]
    BY <2>1, <2>2 DEF Keeping
  <2>3. PartsUsed' = PartsUsed /\ Guarded' = Guarded
    BY <2>1 DEF PartsUsed, Guarded
  <2>4. SUFFICES ASSUME ~overlap, family # "periodic" PROVE OtherInv'
    BY <2>1 DEF OtherInv
  <2>5. ASSUME NEW q \in Runs, stage'[q] = "frame"
        PROVE  /\ part'[q] \in PartsUsed
               /\ \A k \in Slots :
                    k < part'[q] => Mine(final'[Frame(k, at'[q])], q)
               /\ Guarded /\ io'[q] \notin {"check", "raise"} =>
                    \A k \in Slots :
                      part'[q] <= k => ~Exists(final'[Frame(k, at'[q])])
    BY <2>1, <2>2, <2>4, <2>5 DEF OtherInv
  <2> QED BY <2>1, <2>3, <2>4, <2>5 DEF OtherInv, Mine, Exists
<1>3. CASE UNCHANGED runVars
  <2>1. UNCHANGED <<final, family, io, part, at, stage, overlap>>
    BY <1>3 DEF runVars, files, writing, journal, ledgers
  <2>2. PartsUsed' = PartsUsed /\ Guarded' = Guarded
    BY <2>1 DEF PartsUsed, Guarded
  <2> QED BY <2>1, <2>2 DEF OtherInv, Mine, Exists
<1> QED BY <1>1, <1>2, <1>3, NextSplits

LEMMA OtherInit == RunInit => OtherInv
BY NamesAreNames DEF RunInit, OtherInv, F, Mine, Exists, Absent, Slots

\* The files of one observation come from one run, and in the families that
\* write through a temporary file they are whole (save_frame in
\* workflows/plane_observation.py and workflows/channel_observation.py,
\* the exclusive creation in workflows/periodic_beris_edwards.py).
THEOREM ObservationsAreCoherent == RunSpec => []FramesAreCoherent
<1>1. RunInit => TypeInv /\ WritingInv /\ PeriodicInv /\ OtherInv
  BY TypeInit, WritingInit, PeriodicInit, OtherInit
<1>2. TypeInv /\ WritingInv /\ PeriodicInv /\ OtherInv /\ [RunNext]_runVars
        => TypeInv' /\ WritingInv' /\ PeriodicInv' /\ OtherInv'
  BY TypeNext, WritingNext, PeriodicNext, OtherNext DEF WritingInv
<1>3. TypeInv /\ PeriodicInv /\ OtherInv => FramesAreCoherent
  <2> SUFFICES ASSUME TypeInv, PeriodicInv, OtherInv,
                      NEW s \in 0..LastStep, NEW k \in Slots, NEW j \in Slots
               PROVE  /\ Exists(F(k, s)) /\ Exists(F(j, s))
                           /\ (~overlap \/ family = "periodic") =>
                             F(k, s).by = F(j, s).by
                      /\ ~overlap /\ family # "periodic" =>
                           F(k, s).what # "part"
    BY DEF FramesAreCoherent, F, Slots
  <2>1. k < j \/ j < k \/ k = j
    BY DEF Slots
  <2> QED BY <2>1 DEF PeriodicInv, OtherInv, Mine, Exists
<1> QED BY <1>1, <1>2, <1>3, PTL DEF RunSpec

----------------------------------------------------------------------------
\* Who is alone in the directory.

Alone(r) == \A f \in Names : Exists(final[f]) => final[f].by = r

\* A finite-q run that has passed its own test, and a periodic run that has
\* passed the application's, meets no file of another run.
SoleInv ==
    /\ family = "finiteq" /\ ~overlap =>
         \A r \in Runs : Alive(r) /\ stage[r] \notin {"check", "guard"} => Alone(r)
    /\ family = "periodic" /\ Apart =>
         \A r \in Runs : Alive(r) /\ stage[r] # "check" => Alone(r)

LEMMA ApartBefore ==
    ASSUME TypeInv, [RunNext]_runVars, Apart'
    PROVE  Apart
<1>1. ASSUME NEW r \in Runs, Moves(r)
      PROVE  Apart
  BY <1>1, StepIsLocal DEF Apart, Settled, Keeping, Alive, Over
<1>2. ASSUME NEW r \in Runs, Launch(r)
      PROVE  Apart
  BY <1>2, LaunchIsLocal DEF Apart, Keeping
<1>3. CASE UNCHANGED runVars
  BY <1>3 DEF runVars, ledgers, Apart
<1> QED BY <1>1, <1>2, <1>3, NextSplits

\* What a run writes is its own.
LEMMA AloneStays ==
    ASSUME TypeInv, WritingInv, ~overlap, NEW r \in Runs, Moves(r), Alone(r)
    PROVE  Alone(r)'
<1>1. File(r) \in Names /\ NPY \in Names
  BY FileIsNamed, NamesAreNames DEF TypeInv
<1>2. CASE \E x : x.by = r /\ final' = [final EXCEPT ![File(r)] = x]
  BY <1>1, <1>2 DEF Alone, TypeInv, RunTypeOK
<1>3. CASE final' = [final EXCEPT ![NPY] = Absent]
  BY <1>1, <1>3 DEF Alone, Absent, Exists, TypeInv, RunTypeOK
<1>4. CASE final' = final
  BY <1>4 DEF Alone
<1>5. Wrote(r) \/ Began(r) \/ Lost(r) =>
        \E x : x.by = r /\ final' = [final EXCEPT ![File(r)] = x]
  BY DEF Wrote, Began, Lost
<1> QED BY <1>2, <1>3, <1>4, <1>5, StepTouches DEF TookBack

LEMMA EmptyIsAlone ==
    ASSUME NEW r \in Runs, DirectoryIsEmpty, final' = final
    PROVE  Alone(r)'
BY DEF DirectoryIsEmpty, Alone

LEMMA SoleNext ==
    ASSUME TypeInv, WritingInv, SoleInv, [RunNext]_runVars
    PROVE  SoleInv'
<1>1. ASSUME NEW r \in Runs, Moves(r)
      PROVE  SoleInv'
  <2>1. /\ \A q \in Runs : q # r => Keeping(q)
        /\ UNCHANGED <<family, overlap>> /\ Alive(r)
    BY <1>1, StepIsLocal DEF Settled
  <2>2. SUFFICES ASSUME ~overlap PROVE SoleInv'
    BY <2>1 DEF SoleInv, Apart
  <2>3. \A q \in Runs : Alive(q)' => q = r
    BY <2>1, <2>2 DEF WritingInv, Solo, Keeping, Alive
  <2>4. stage[r] \in {"check", "guard"} => final' = final
    BY <1>1, <2>2, StepTouches DEF Wrote, Began, Lost, TookBack, Writes
  <2>5. ASSUME stage[r] = "check", Alive(r)', stage'[r] # "check"
        PROVE  DirectoryIsEmpty /\ stage'[r] \in {"initial", "guard"}
               /\ (stage'[r] = "initial" => family = "plane")
    <3>1. CheckDirectory(r) \/ KillRun(r)
      BY <1>1, <2>5
      DEF Moves, RunStep, GuardDirectory, RestoreIfRequested, CheckOutputs,
          ProbeTemporary, OpenFile, FillFile, PlaceFile, Replace, NextStep, UpdateState,
          SaveCheckpoint, StepFails, FileFails, PlaceRaises,
     AbandonPlaced, Writes
    <3>2. ~KillRun(r)
      BY <2>5, MoveIsLocal DEF KillRun, Alive, Over, TypeInv
    <3> QED BY <2>5, <3>1, <3>2, MoveIsLocal
            DEF CheckDirectory, Alive, Over, TypeInv
  <2>6. ASSUME stage[r] = "guard", Alive(r)', stage'[r] # "guard",
               family = "finiteq"
        PROVE  DirectoryIsEmpty
    BY <1>1, <2>6, StepGoes DEF Ends, Goes, Alive, Over, Guarded
  <2>7. ASSUME family = "finiteq", Alive(r)', stage'[r] \notin {"check", "guard"}
        PROVE  Alone(r)'
    <3>1. CASE stage[r] \in {"check", "guard"}
      BY <2>4, <2>5, <2>6, <2>7, <3>1, EmptyIsAlone
    <3>2. CASE stage[r] \notin {"check", "guard"}
      BY <1>1, <2>1, <2>2, <2>7, <3>2, AloneStays DEF SoleInv
    <3> QED BY <3>1, <3>2
  <2>8. ASSUME family = "periodic", Apart', Alive(r)', stage'[r] # "check"
        PROVE  Alone(r)'
    <3>1. CASE stage[r] = "check"
      BY <2>4, <2>5, <2>8, <3>1, EmptyIsAlone
    <3>2. CASE stage[r] # "check"
      BY <1>1, <2>1, <2>2, <2>8, <3>2, AloneStays, ApartBefore DEF SoleInv
    <3> QED BY <3>1, <3>2
  <2> QED BY <2>1, <2>3, <2>7, <2>8 DEF SoleInv
<1>2. ASSUME NEW r \in Runs, Launch(r)
      PROVE  SoleInv'
  <2>1. /\ UNCHANGED <<final, family>> /\ stage'[r] \in {"check", "guard"}
        /\ \A q \in Runs : q # r => Keeping(q)
        /\ ~overlap' => ~overlap /\ \A q \in Runs : ~Alive(q)
        /\ stage'[r] = "guard" => entry'[r] # "application"
    BY <1>2, LaunchIsLocal
  <2>2. ASSUME ~overlap', NEW q \in Runs, Alive(q)'
        PROVE  q = r
    BY <2>1, <2>2 DEF Keeping, Alive
  <2>3. family = "periodic" /\ Apart' => stage'[r] = "check" /\ ~overlap'
    BY <2>1 DEF Apart
  <2> QED BY <2>1, <2>2, <2>3 DEF SoleInv
<1>3. CASE UNCHANGED runVars
  BY <1>3 DEF runVars, files, ledgers, SoleInv, Apart, Alone, Alive, Exists
<1> QED BY <1>1, <1>2, <1>3, NextSplits

LEMMA SoleInit == RunInit => SoleInv
BY DEF RunInit, SoleInv, Alive, Over

----------------------------------------------------------------------------
\* What a run has saved stays.

SavedInv ==
    ~overlap =>
      \A r \in Runs :
        /\ \A s \in saved[r], k \in PartsUsed : Whole(Frame(k, s), r)
        /\ stage[r] = "frame" =>
             \A k \in Slots : k < part[r] => Whole(Frame(k, at[r]), r)

ObservationInv == PeriodicInv /\ OtherInv /\ SoleInv

\* A part is only left behind when it is written.
LEMMA PartStays ==
    ASSUME TypeInv, WritingInv, ~overlap, NEW r \in Runs, Moves(r),
           stage[r] = "frame", stage'[r] = "frame", ~Wrote(r)
    PROVE  part'[r] = part[r]
<1> USE DEF TypeInv, files, writing, journal, ledgers
<1>1. ~Raise(r) /\ ~AbandonFile(r) /\ ~Abandon(r)
  BY RaiseIsLocal, AbandonIsLocal DEF AbandonFile
<1>2. stage[r] \in Writes
  BY DEF Writes
<1>3. CASE FillFile(r)
  <2>1. io[r] = "fill" BY <1>3 DEF FillFile
  <2> QED BY <1>2, <1>3, <2>1, FilledIsMine DEF Wrote
<1>4. CASE PlaceFile(r)
  BY <1>4, PlacedIsMine
<1>5. CASE OpenFile(r)
  BY <1>1, <1>5 DEF OpenFile
<1>6. CASE FileFails(r)
  BY <1>1, <1>6 DEF FileFails, AbandonFile
<1>7. CASE KillRun(r)
  BY <1>7, MoveIsLocal DEF KillRun
<1>8. CASE CheckOutputs(r) \/ ProbeTemporary(r)
  BY <1>1, <1>8 DEF CheckOutputs, ProbeTemporary
<1>9. CASE PlaceRaises(r) \/ AbandonPlaced(r)
  BY <1>1, <1>9 DEF PlaceRaises, AbandonPlaced
<1> QED BY <1>3, <1>4, <1>5, <1>6, <1>7, <1>8, <1>9
        DEF Moves, RunStep, CheckDirectory, GuardDirectory, RestoreIfRequested,
            NextStep, UpdateState, SaveCheckpoint, StepFails

\* No run writes over the observation of another.
LEMMA NoTheft ==
    ASSUME TypeInv, WritingInv, ObservationInv, ~overlap, NEW r \in Runs,
           Moves(r), stage[r] = "frame", Wrote(r) \/ Began(r) \/ Lost(r),
           NEW q \in Runs, Whole(Frame(part[r], at[r]), q)
    PROVE  q = r
<1> DEFINE f == F(part[r], at[r])
<1>1. /\ File(r) = Frame(part[r], at[r]) /\ part[r] \in Slots
      /\ at[r] \in 0..LastStep /\ Frame(part[r], at[r]) \in Names
  BY FrameFile, NamesAreNames DEF Slots
<1>2. Exists(f) /\ f.by = q
  BY DEF Whole, F, Exists
<1>3. CASE family = "finiteq"
  BY <1>1, <1>2, <1>3, StepIsLocal DEF ObservationInv, SoleInv, Alone, F
<1>4. CASE family = "periodic"
  <2>1. Where(r) = "final" /\ Style(r) = "direct"
    BY <1>4 DEF Where, Style, Guarded
  <2>2. CASE io[r] = "fill"
    BY <1>2, <1>4, <2>2 DEF ObservationInv, PeriodicInv, Mine
  <2>3. CASE OpenFile(r) /\ stage' = stage
    <3>1. ~AbandonFile(r)
      BY <2>3, AbandonIsLocal DEF TypeInv
    <3> QED BY <1>1, <1>2, <2>1, <2>3, <3>1 DEF OpenFile, At, F
  <2> QED BY <2>1, <2>2, <2>3 DEF Wrote, Began, Lost
<1>5. CASE Guarded
  <2>1. Where(r) = "temp" /\ family # "periodic"
    BY <1>5 DEF Where, Style, Guarded
  <2>2. io[r] = "place"
    BY <2>1 DEF Wrote, Began, Lost, PlaceRaises
  <2> QED BY <1>1, <1>2, <1>5, <2>1, <2>2 DEF ObservationInv, OtherInv, Slots
<1> QED BY <1>3, <1>4, <1>5, RunAssumption DEF Guarded, TypeInv, RunTypeOK

LEMMA SavedNext ==
    ASSUME TypeInv, WritingInv, PathInv, ObservationInv, SavedInv,
           [RunNext]_runVars
    PROVE  SavedInv'
<1>1. ASSUME NEW r \in Runs, Moves(r)
      PROVE  SavedInv'
  <2>1. /\ \A q \in Runs : q # r => Keeping(q)
        /\ UNCHANGED <<family, overlap>> /\ Alive(r)
    BY <1>1, StepIsLocal DEF Settled
  <2>2. SUFFICES ASSUME ~overlap PROVE SavedInv'
    BY <2>1 DEF SavedInv
  <2>3. \A q \in Runs : stage'[q] = "frame" => q = r
    BY <2>1, <2>2 DEF WritingInv, Solo, Keeping, Alive, Over
  <2>4. PartsUsed' = PartsUsed /\ PartsUsed \subseteq Slots
    BY <2>1, NamesAreNames DEF PartsUsed, Slots
  <2>5. \A q \in Runs : saved[q] \subseteq 0..LastStep
    BY DEF TypeInv, RunTypeOK
  <2> DEFINE n == part[r]
             t == at[r]
             W(k, s, q) == final'[Frame(k, s)].what = "whole"
                           /\ final'[Frame(k, s)].by = q
  <2>6. SUFFICES /\ \A q \in Runs : \A s \in saved'[q], k \in PartsUsed : W(k, s, q)
                 /\ stage'[r] = "frame" =>
                      \A k \in Slots : k < part'[r] => W(k, at'[r], r)
    BY <2>3, <2>4 DEF SavedInv, Whole
  <2>7. CASE stage[r] # "frame"
    <3>1. /\ \A k \in Slots, s \in 0..LastStep : final'[Frame(k, s)] = F(k, s)
          /\ stage'[r] = "frame" => part'[r] = 1
          /\ saved' = saved
      BY <1>1, <2>7, FramesStay
    <3>2. \A k \in Slots : ~(k < 1)
      BY DEF Slots
    <3> QED BY <2>2, <2>4, <2>5, <3>1, <3>2 DEF SavedInv, Whole, F
  <2>8. CASE stage[r] = "frame"
    <3>1. stage'[r] = "frame" => at'[r] = t
      BY <1>1, <2>8, StepGoes DEF Ends, Goes
    <3>2. n \in Slots /\ t \in 0..LastStep /\ File(r) = Frame(n, t)
      BY <2>8, FrameFile
    <3>3. /\ \A q \in Runs : \A s \in saved[q], k \in PartsUsed : Whole(Frame(k, s), q)
          /\ \A k \in Slots : k < n => Whole(Frame(k, t), r)
      BY <2>2, <2>8 DEF SavedInv
    <3>4. \A s \in saved[r] : s # t
      BY <2>5, <2>8, <3>2 DEF PathInv, PathOf
    <3>5. CASE UNCHANGED <<final, saved>> /\ ~Wrote(r)
      <4>1. stage'[r] = "frame" => part'[r] = n
        BY <1>1, <2>2, <2>8, <3>5, PartStays
      <4> QED BY <3>1, <3>3, <3>5, <4>1 DEF Whole
    <3>6. CASE Wrote(r) \/ Began(r) \/ Lost(r)
      <4>1. PICK x \in Contents : final' = [final EXCEPT ![Frame(n, t)] = x]
        <5>1. \A w \in {"part", "whole"}, s \in {"none", Status(r)} :
                 [by |-> r, what |-> w, status |-> s] \in Contents
          BY ContentsAreTyped DEF TypeInv
        <5> QED BY <3>2, <3>6, <5>1 DEF Wrote, Began, Lost
      <4>2. \A k \in Slots, s \in 0..LastStep :
              k # n \/ s # t => final'[Frame(k, s)] = final[Frame(k, s)]
        BY <3>2, <4>1, NamesAreNames DEF Slots, TypeInv, RunTypeOK
      <4>3. ASSUME NEW q \in Runs, NEW s \in saved[q], NEW k \in PartsUsed
            PROVE  W(k, s, q)
        <5>1. k # n \/ s # t
          BY <1>1, <2>2, <2>8, <3>3, <3>4, <3>6, NoTheft
        <5> QED BY <2>4, <2>5, <3>3, <4>2, <5>1 DEF Whole
      <4>4. \A k \in Slots : k < n => W(k, t, r)
        BY <3>2, <3>3, <4>2 DEF Whole, Slots
      <4>5. CASE Wrote(r)
        <5>1. W(n, t, r)
          <6>1. final'[Frame(n, t)] =
                  [by |-> r, what |-> "whole", status |-> Status(r)]
            BY <2>8, <4>5, WroteFrame
          <6> QED BY <6>1
        <5>2. \/ /\ stage'[r] = "frame" /\ part'[r] = n + 1 /\ saved' = saved
              \/ /\ stage'[r] # "frame" /\ n + 1 \notin PartsUsed
                 /\ saved' = [saved EXCEPT ![r] = @ \cup {t}]
          BY <2>8, <4>5, NextPart DEF Wrote
        <5>3. \A k \in Slots : k < n + 1 => k < n \/ k = n
          BY <3>2 DEF Slots
        <5>4. n + 1 \notin PartsUsed => \A k \in PartsUsed : k < n + 1
          BY <3>2, NamesAreNames DEF PartsUsed, Slots
        <5>5. CASE stage'[r] = "frame" /\ part'[r] = n + 1 /\ saved' = saved
          BY <3>1, <4>3, <4>4, <5>1, <5>3, <5>5
        <5>6. CASE /\ stage'[r] # "frame" /\ n + 1 \notin PartsUsed
                   /\ saved' = [saved EXCEPT ![r] = @ \cup {t}]
          <6>1. \A q \in Runs : \A s \in saved'[q] :
                   s \in saved[q] \/ (q = r /\ s = t)
            BY <5>6 DEF TypeInv, RunTypeOK
          <6>2. \A k \in PartsUsed : W(k, t, r)
            BY <2>4, <4>4, <5>1, <5>3, <5>4, <5>6
          <6> QED BY <4>3, <5>6, <6>1, <6>2
        <5> QED BY <5>2, <5>5, <5>6
      <4>6. CASE (Began(r) \/ Lost(r)) /\ ~Wrote(r)
        <5>1. saved' = saved
          BY <4>6 DEF Began, Lost
        <5>2. stage'[r] = "frame" => part'[r] = n
          BY <1>1, <2>2, <2>8, <4>6, PartStays
        <5> QED BY <3>1, <4>3, <4>4, <5>1, <5>2
      <4> QED BY <3>6, <4>5, <4>6
    <3> QED BY <1>1, <2>2, <2>8, <3>5, <3>6, StepTouches DEF TookBack
  <2> QED BY <2>7, <2>8
<1>2. ASSUME NEW r \in Runs, Launch(r)
      PROVE  SavedInv'
  <2>1. /\ UNCHANGED <<final, family, saved, part>> /\ stage'[r] # "frame"
        /\ \A q \in Runs : q # r => Keeping(q)
        /\ ~overlap' => ~overlap
    BY <1>2, LaunchIsLocal
  <2>2. PartsUsed' = PartsUsed
    BY <2>1 DEF PartsUsed
  <2>3. ASSUME NEW q \in Runs, stage'[q] = "frame"
        PROVE  stage[q] = "frame" /\ at'[q] = at[q]
    BY <2>1, <2>3 DEF Keeping
  <2> QED BY <2>1, <2>2, <2>3 DEF SavedInv, Whole
<1>3. CASE UNCHANGED runVars
  BY <1>3 DEF runVars, files, writing, journal, ledgers, SavedInv, Whole,
     PartsUsed
<1> QED BY <1>1, <1>2, <1>3, NextSplits

LEMMA SavedInit == RunInit => SavedInv
BY DEF RunInit, SavedInv

LEMMA KeptInit == RunInit => KeptInv
BY DEF RunInit, KeptInv

\* What relates the journal of every run to the directory.
DataInv == TypeInv /\ WritingInv /\ PathInv /\ KeptInv /\ ObservationInv
           /\ SavedInv

LEMMA DataInit == RunInit => DataInv
BY TypeInit, WritingInit, PathInit, KeptInit, PeriodicInit, OtherInit,
   SoleInit, SavedInit DEF DataInv, ObservationInv

LEMMA DataNext ==
    ASSUME DataInv, [RunNext]_runVars
    PROVE  DataInv'
BY TypeNext, WritingNext, PathNext, KeptNext, PeriodicNext, OtherNext,
   SoleNext, SavedNext DEF DataInv, ObservationInv, WritingInv

\* A run that returned keeps every observation its schedule asked for and every
\* checkpoint it took, whatever runs follow it in its directory (the loops of
\* workflows/plane_beris_edwards.py, periodic_beris_edwards.py and
\* finite_q_anchoring.py, and what they refuse to overwrite).
THEOREM SuccessKeeps == RunSpec => []SuccessKeepsItsData
<1>1. DataInv => SuccessKeepsItsData
  <2> SUFFICES ASSUME DataInv, NEW r \in Runs, ~overlap, stage[r] = "returned"
               PROVE  Keeps(r, Scheduled(r))
    BY DEF SuccessKeepsItsData
  <2>1. Asked(r, Goal(r) + 1) \subseteq saved[r]
    BY DEF DataInv, PathInv, PathOf
  <2>2. Goal(r) \in Nat
    BY RunAssumption DEF DataInv, TypeInv, RunTypeOK, Goal
  <2>3. Scheduled(r) = Asked(r, Goal(r) + 1)
    <3>1. (Goal(r) + 1) - 1 = Goal(r)
      BY <2>2
    <3> QED BY <3>1, Zenon DEF Scheduled, Asked
  <2>4. \A s \in Scheduled(r), k \in PartsUsed : Whole(Frame(k, s), r)
    BY <2>1, <2>3 DEF DataInv, SavedInv
  <2>5. \A s \in kept[r] : published[s] = r
    BY DEF DataInv, KeptInv
  <2> QED BY <2>4, <2>5 DEF Keeps
<1> QED BY <1>1, DataInit, DataNext, PTL DEF RunSpec

----------------------------------------------------------------------------
\* The COMPLETE marker.

Vouched(r) == Whole(MD, r) /\ final[MD].status # "running"

\* A marker stands beside the final metadata of the run that made it, which
\* has nothing left to write but its failure record; any other run is stopped
\* before it writes.  The finite-q metadata are final from the beginning.
MarkInv ==
    Apart =>
      \A r \in Runs :
        /\ Mine(final[Mark], r) =>
             /\ Vouched(r) /\ stage[r] \in {"marker", "record"} \cup (Over \ {"idle"})
             /\ \A q \in Runs : Alive(q) /\ q # r => stage[q] \in {"check", "guard"}
        /\ stage[r] = "marker" => Vouched(r)
        /\ family = "finiteq" /\ stage[r] \in {"step", "update", "frame", "save"} =>
             Vouched(r)

\* A run leaves the stage of a file for the next one by writing it.
LEMMA GoesByWriting ==
    ASSUME TypeInv, WritingInv, ~overlap, NEW r \in Runs, Moves(r),
           stage[r] \in Writes, ~Wrote(r)
    PROVE  stage'[r] \in {stage[r], "raised", "record", "killed"}
<1> USE DEF TypeInv, files, writing, journal, ledgers
<1>1. (Raise(r) \/ AbandonFile(r) \/ Abandon(r)) =>
        stage'[r] \in {"raised", "record"}
  BY RaiseIsLocal, AbandonIsLocal DEF AbandonFile
<1>2. CASE FillFile(r)
  <2>1. io[r] = "fill" BY <1>2 DEF FillFile
  <2> QED BY <1>2, <2>1, FilledIsMine DEF Wrote
<1>3. CASE PlaceFile(r)
  BY <1>3, PlacedIsMine
<1>4. CASE OpenFile(r)
  BY <1>1, <1>4 DEF OpenFile
<1>5. CASE FileFails(r)
  BY <1>1, <1>5 DEF FileFails, AbandonFile
<1>6. CASE KillRun(r)
  BY <1>6, MoveIsLocal DEF KillRun
<1>7. CASE CheckOutputs(r) \/ ProbeTemporary(r)
  BY <1>1, <1>7 DEF CheckOutputs, ProbeTemporary
<1>8. CASE PlaceRaises(r) \/ AbandonPlaced(r)
  BY <1>1, <1>8 DEF PlaceRaises, AbandonPlaced
<1> QED BY <1>2, <1>3, <1>4, <1>5, <1>6, <1>7, <1>8
        DEF Moves, RunStep, CheckDirectory, GuardDirectory, RestoreIfRequested,
            NextStep, UpdateState, SaveCheckpoint, StepFails, Writes

\* What a step does to the metadata and to the marker.
LEMMA StepMarks ==
    ASSUME TypeInv, WritingInv, PathInv, ~overlap, NEW r \in Runs, Moves(r)
    PROVE  \/ /\ final'[MD] = final[MD] /\ final'[Mark] = final[Mark]
              /\ stage[r] \in {"running", "complete"} =>
                   stage'[r] \in {stage[r], "raised", "record", "killed"}
           \/ /\ stage[r] \in {"running", "complete", "record"}
              /\ final'[Mark] = final[Mark] /\ stage'[r] = After(r)
              /\ final'[MD] = [by |-> r, what |-> "whole", status |-> Status(r)]
           \/ /\ stage[r] \in {"running", "complete", "record"}
              /\ final'[Mark] = final[Mark] /\ stage'[r] = stage[r]
              /\ final'[MD] = [by |-> r, what |-> "whole", status |-> Status(r)]
           \/ /\ stage[r] = "complete" /\ final'[Mark] = final[Mark]
              /\ stage'[r] \in {stage[r], "raised", "record", "killed"}
           \/ /\ stage[r] = "marker" /\ final'[MD] = final[MD]
              /\ final'[Mark].by = r
              /\ stage'[r] \in {"marker", "returned", "raised", "record", "killed"}
<1>1. CASE Wrote(r)
  <2>1. /\ final' = [final EXCEPT ![File(r)] =
                       [by |-> r, what |-> "whole", status |-> Status(r)]]
        /\ stage[r] \in Writes /\ Finish(r)
    BY <1>1 DEF Wrote
  <2>2. stage[r] # "frame" => stage'[r] = After(r)
    BY <2>1, MoveIsLocal DEF Finish, TypeInv
  <2>3. CASE stage[r] \in {"running", "complete", "record"}
    <3>1. File(r) = MD BY <2>3 DEF File, MD
    <3> QED BY <2>1, <2>2, <2>3, <3>1, NamesAreNames
            DEF TypeInv, RunTypeOK, MD, Mark
  <2>4. CASE stage[r] = "marker"
    <3>1. File(r) = Mark BY <2>4 DEF File, Mark
    <3>2. After(r) = "returned" BY <2>4 DEF After
    <3> QED BY <2>1, <2>2, <2>4, <3>1, <3>2, NamesAreNames
            DEF TypeInv, RunTypeOK, MD, Mark
  <2>5. CASE stage[r] \in {"initial", "frame", "npy", "csv"}
    <3>1. File(r) # MD /\ File(r) # Mark
      BY <2>5, NamesAreNames DEF File, MD, Mark, TypeInv, RunTypeOK
    <3> QED BY <2>1, <2>5, <3>1, NamesAreNames DEF TypeInv, RunTypeOK
  <2> QED BY <2>1, <2>3, <2>4, <2>5 DEF Writes
<1>2. CASE ~Wrote(r) /\ Began(r)
  <2>1. /\ stage[r] \in Writes /\ Where(r) = "final"
        /\ \E w \in {"part", "whole"}, s \in {"none", Status(r)} :
             final' = [final EXCEPT ![File(r)] = [by |-> r, what |-> w, status |-> s]]
    BY <1>2 DEF Began
  <2>2. stage'[r] \in {stage[r], "raised", "record", "killed"}
    BY <1>2, <2>1, GoesByWriting
  <2>3. CASE stage[r] \in {"running", "complete", "record"}
    <3>1. File(r) = MD BY <2>3 DEF File, MD
    <3>2. stage[r] = "complete"
      BY <2>1, <2>3 DEF Where, Style, Guarded, PathInv, PathOf
    <3> QED BY <2>1, <2>2, <3>1, <3>2, NamesAreNames
            DEF TypeInv, RunTypeOK, MD, Mark
  <2>4. CASE stage[r] = "marker"
    <3>1. File(r) = Mark BY <2>4 DEF File, Mark
    <3> QED BY <2>1, <2>2, <2>4, <3>1, NamesAreNames
            DEF TypeInv, RunTypeOK, MD, Mark
  <2>5. CASE stage[r] \in {"initial", "frame", "npy", "csv"}
    <3>1. File(r) # MD /\ File(r) # Mark
      BY <2>5, NamesAreNames DEF File, MD, Mark, TypeInv, RunTypeOK
    <3> QED BY <2>1, <2>5, <3>1, NamesAreNames DEF TypeInv, RunTypeOK
  <2> QED BY <2>1, <2>3, <2>4, <2>5 DEF Writes
<1>3. CASE ~Wrote(r) /\ (UNCHANGED <<final, saved>> \/ TookBack(r))
  <2>1. final'[MD] = final[MD] /\ final'[Mark] = final[Mark]
    BY <1>3, NamesAreNames DEF TookBack, TypeInv, RunTypeOK, NPY, MD, Mark
  <2> QED BY <1>3, <2>1, GoesByWriting DEF Writes
<1>4. CASE Lost(r)
  <2>1. /\ final' = [final EXCEPT ![File(r)] =
                       [by |-> r, what |-> "whole", status |-> Status(r)]]
        /\ stage[r] \in Writes /\ stage'[r] = stage[r]
    BY <1>4 DEF Lost
  <2>2. CASE stage[r] \in {"running", "complete", "record"}
    <3>1. File(r) = MD BY <2>2 DEF File, MD
    <3> QED BY <2>1, <2>2, <3>1, NamesAreNames
            DEF TypeInv, RunTypeOK, MD, Mark
  <2>3. CASE stage[r] = "marker"
    <3>1. File(r) = Mark BY <2>3 DEF File, Mark
    <3> QED BY <2>1, <2>3, <3>1, NamesAreNames
            DEF TypeInv, RunTypeOK, MD, Mark
  <2>4. CASE stage[r] \in {"initial", "frame", "npy", "csv"}
    <3>1. File(r) # MD /\ File(r) # Mark
      BY <2>4, NamesAreNames DEF File, MD, Mark, TypeInv, RunTypeOK
    <3> QED BY <2>1, <2>4, <3>1, NamesAreNames DEF TypeInv, RunTypeOK
  <2> QED BY <2>1, <2>2, <2>3, <2>4 DEF Writes
<1> QED BY <1>1, <1>2, <1>3, <1>4, StepTouches

\* Beside the marker of another run nobody gets past the tests.
LEMMA MarkStops ==
    ASSUME TypeInv, PathInv, SoleInv, Apart, NEW r \in Runs, NEW p \in Runs,
           Moves(r), p # r, Mine(final[Mark], p), Alive(r)',
           stage[r] \in {"check", "guard"}
    PROVE  stage'[r] \in {"check", "guard"}
<1>1. ~DirectoryIsEmpty
  BY NamesAreNames DEF DirectoryIsEmpty, Mine
<1>2. CheckDirectory(r) \/ GuardDirectory(r) \/ KillRun(r)
  BY DEF Moves, RunStep, RestoreIfRequested, CheckOutputs, ProbeTemporary,
     OpenFile, FillFile, PlaceFile, Replace, NextStep, UpdateState, SaveCheckpoint,
     StepFails, FileFails, PlaceRaises,
     AbandonPlaced, Writes
<1>3. CASE CheckDirectory(r)
  BY <1>1, <1>3, MoveIsLocal DEF CheckDirectory, Alive, Over, TypeInv
<1>4. CASE GuardDirectory(r)
  <2>1. family # "periodic"
    <3> SUFFICES ASSUME family = "periodic" PROVE FALSE
      OBVIOUS
    <3>1. Alive(r) /\ stage[r] # "check"
      BY <1>4 DEF GuardDirectory, Alive, Over
    <3>2. Alone(r)
      BY <3>1 DEF SoleInv
    <3> QED BY <3>2, NamesAreNames DEF Alone, Mine
  <2>2. Guarded \/ family = "finiteq"
    BY <2>1, RunAssumption DEF Guarded, TypeInv, RunTypeOK
  <2>3. stage'[r] = "rejected"
    BY <1>1, <1>4, <2>2, MoveIsLocal DEF GuardDirectory, Mine, Mark, TypeInv
  <2> QED BY <2>3 DEF Alive, Over
<1>5. CASE KillRun(r)
  BY <1>5, MoveIsLocal DEF KillRun, Alive, Over, TypeInv
<1> QED BY <1>2, <1>3, <1>4, <1>5

LEMMA MarkNext ==
    ASSUME TypeInv, WritingInv, PathInv, SoleInv, MarkInv, [RunNext]_runVars
    PROVE  MarkInv'
<1>0. SUFFICES ASSUME Apart' PROVE MarkInv'
  BY DEF MarkInv
<1> USE ApartBefore DEF MarkInv, Vouched, Whole, Mine, Exists
<1>1. ASSUME NEW r \in Runs, Moves(r)
      PROVE  MarkInv'
  <2>1. /\ \A q \in Runs : q # r => Keeping(q)
        /\ UNCHANGED <<family, overlap>> /\ Alive(r) /\ stage'[r] # "idle"
    BY <1>1, StepIsLocal DEF Settled
  <2>2. Apart /\ ~overlap
    BY <1>0 DEF Apart
  <2>3. /\ \A q \in Runs : Alive(q) => q = r
        /\ \A q \in Runs : Alive(q)' => q = r
    BY <2>1, <2>2 DEF WritingInv, Solo, Keeping, Alive
  <2>4. stage[r] \in {"running", "complete", "record", "marker"} =>
          \A p \in Runs : p # r => ~Mine(final[Mark], p)
    BY <2>1, <2>2
  <2>5. stage[r] \in {"running", "complete"} => ~Mine(final[Mark], r)
    BY <2>2 DEF Over
  <2>6. ASSUME NEW p \in Runs, Mine(final[Mark], p), p # r, Alive(r)'
        PROVE  stage'[r] \in {"check", "guard"}
    <3>1. stage[r] \in {"check", "guard"}
      BY <2>1, <2>2, <2>6
    <3> QED BY <1>1, <2>2, <2>6, <3>1, MarkStops
  <2> DEFINE marked(p) == final'[Mark].what # "absent" /\ final'[Mark].by = p
             vouched(p) == /\ final'[MD].what = "whole" /\ final'[MD].by = p
                           /\ final'[MD].status # "running"
             goal == \A p \in Runs :
               /\ marked(p) =>
                    /\ vouched(p)
                    /\ stage'[p] \in {"marker", "record"} \cup (Over \ {"idle"})
                    /\ \A q \in Runs : Alive(q)' /\ q # p =>
                                       stage'[q] \in {"check", "guard"}
               /\ stage'[p] = "marker" => vouched(p)
               /\ family = "finiteq"
                    /\ stage'[p] \in {"step", "update", "frame", "save"} =>
                    vouched(p)
  <2>7. goal => MarkInv'
    BY <2>1
  <2>8. ASSUME NEW p \in Runs, p # r
        PROVE  stage'[p] = stage[p] /\ stage[p] \in Over
    BY <2>1, <2>3, <2>8 DEF Keeping, Alive
  <2>9. CASE /\ final'[MD] = final[MD] /\ final'[Mark] = final[Mark]
             /\ stage[r] \in {"running", "complete"} =>
                  stage'[r] \in {stage[r], "raised", "record", "killed"}
    <3>1. /\ stage[r] \in {"marker", "record"} => 
               stage'[r] \in {"marker", "record"} \cup (Over \ {"idle"})
          /\ stage'[r] = "marker" =>
               stage[r] = "marker" \/ (stage[r] = "step" /\ family = "finiteq")
          /\ family = "finiteq" /\ stage'[r] \in {"step", "update", "frame", "save"} =>
               stage[r] \in {"step", "update", "frame", "save"}
      BY <1>1, <2>9, StepGoes DEF Ends, Goes, After, Over
    <3>2. ASSUME NEW p \in Runs, marked(p)
          PROVE  /\ vouched(p)
                 /\ stage'[p] \in {"marker", "record"} \cup (Over \ {"idle"})
      BY <2>1, <2>2, <2>8, <2>9, <3>1, <3>2 DEF Alive
    <3>3. ASSUME NEW p \in Runs, marked(p), NEW q \in Runs, Alive(q)', q # p
          PROVE  stage'[q] \in {"check", "guard"}
      BY <2>3, <2>6, <2>9, <3>3
    <3>4. ASSUME NEW p \in Runs, stage'[p] = "marker"
          PROVE  vouched(p)
      BY <2>2, <2>8, <2>9, <3>1, <3>4 DEF Over
    <3>5. ASSUME NEW p \in Runs, family = "finiteq",
                 stage'[p] \in {"step", "update", "frame", "save"}
          PROVE  vouched(p)
      BY <2>2, <2>8, <2>9, <3>1, <3>5 DEF Over
    <3> QED BY <2>7, <3>2, <3>3, <3>4, <3>5
  <2>10. CASE /\ stage[r] \in {"running", "complete", "record"}
              /\ final'[Mark] = final[Mark] /\ stage'[r] = After(r)
              /\ final'[MD] = [by |-> r, what |-> "whole", status |-> Status(r)]
    <3>1. \A p \in Runs : marked(p) => p = r /\ stage[r] = "record"
      BY <2>4, <2>5, <2>10
    <3>2. stage'[r] = CASE stage[r] = "running" -> "step"
                        [] stage[r] = "complete" -> "marker"
                        [] OTHER -> "raised"
      BY <2>10 DEF After
    <3>3. stage[r] # "running" \/ family = "finiteq" => vouched(r)
      BY <2>10 DEF Status, Guarded
    <3> QED BY <2>3, <2>7, <2>8, <2>10, <3>1, <3>2, <3>3 DEF Over
  <2>11. CASE /\ stage[r] = "complete" /\ final'[Mark] = final[Mark]
              /\ stage'[r] \in {stage[r], "raised", "record", "killed"}
    BY <2>4, <2>5, <2>7, <2>8, <2>11 DEF Over
  <2>12. CASE /\ stage[r] = "marker" /\ final'[MD] = final[MD]
              /\ final'[Mark].by = r
              /\ stage'[r] \in {"marker", "returned", "raised", "record", "killed"}
    <3>1. vouched(r)
      BY <2>2, <2>12
    <3> QED BY <2>3, <2>7, <2>8, <2>12, <3>1 DEF Over
  <2>13. CASE /\ stage[r] \in {"running", "complete", "record"}
              /\ final'[Mark] = final[Mark] /\ stage'[r] = stage[r]
              /\ final'[MD] = [by |-> r, what |-> "whole", status |-> Status(r)]
    <3>1. \A p \in Runs : marked(p) => p = r /\ stage[r] = "record"
      BY <2>4, <2>5, <2>13
    <3>2. stage[r] = "record" => vouched(r)
      BY <2>13 DEF Status
    <3> QED BY <2>3, <2>7, <2>8, <2>13, <3>1, <3>2 DEF Over
  <2> QED BY <1>1, <2>2, <2>9, <2>10, <2>11, <2>12, <2>13, StepMarks
<1>2. ASSUME NEW r \in Runs, Launch(r)
      PROVE  MarkInv'
  <2>1. /\ UNCHANGED <<final, family>> /\ stage'[r] \in {"check", "guard"}
        /\ stage[r] = "idle"
        /\ \A q \in Runs : q # r => Keeping(q)
        /\ ~overlap' => ~overlap /\ \A q \in Runs : ~Alive(q)
    BY <1>2, LaunchIsLocal
  <2>2. Apart /\ ~overlap /\ ~overlap'
    BY <1>0 DEF Apart
  <2>3. \A q \in Runs : Alive(q)' => q = r
    BY <2>1, <2>2 DEF Keeping, Alive
  <2> QED BY <2>1, <2>2, <2>3 DEF Keeping
<1>3. CASE UNCHANGED runVars
  <2>1. UNCHANGED <<final, stage, family>> /\ Apart
    BY <1>0, <1>3 DEF runVars, files, ledgers
  <2> QED BY <2>1 DEF Alive
<1> QED BY <1>1, <1>2, <1>3, NextSplits

LEMMA MarkInit == RunInit => MarkInv
BY NamesAreNames DEF RunInit, MarkInv, Mine, Exists, Absent

\* COMPLETE vouches for what it stands beside: the final metadata of its run
\* and every file and checkpoint they list (the writes after the loop,
\* workflows/plane_beris_edwards.py:328-337, and what later runs refuse).
THEOREM CompletionIsTruthful == RunSpec => []CompleteIsTruthful
<1>1. RunInit => DataInv /\ MarkInv
  BY DataInit, MarkInit
<1>2. DataInv /\ MarkInv /\ [RunNext]_runVars => DataInv' /\ MarkInv'
  BY DataNext, MarkNext DEF DataInv, ObservationInv
<1>3. DataInv /\ MarkInv => CompleteIsTruthful
  <2> SUFFICES ASSUME DataInv, MarkInv, NEW r \in Runs, Apart,
                      Whole(<<"COMPLETE", 0>>, r)
               PROVE  /\ Whole(<<"metadata", 0>>, r)
                      /\ final[<<"metadata", 0>>].status # "running"
                      /\ Keeps(r, saved[r])
    BY DEF CompleteIsTruthful
  <2>1. Vouched(r)
    BY DEF MarkInv, Mine, Exists, Mark, Whole
  <2>2. ~overlap
    BY DEF Apart
  <2>3. \A s \in saved[r], k \in PartsUsed : Whole(Frame(k, s), r)
    BY <2>2 DEF DataInv, SavedInv
  <2>4. \A s \in kept[r] : published[s] = r
    BY DEF DataInv, KeptInv
  <2> QED BY <2>1, <2>3, <2>4 DEF Vouched, MD, Keeps
<1> QED BY <1>1, <1>2, <1>3, PTL DEF RunSpec

\* A step of a run beside the marker of one that is over is a test, or the
\* end of the process.
LEMMA NothingIsWritten ==
    ASSUME MarkInv, Apart, NEW r \in Runs, Mine(final[Mark], r), ~Alive(r),
           NEW p \in Runs, Moves(p), Alive(p)
    PROVE  UNCHANGED files
<1>1. stage[p] \in {"check", "guard"}
  BY DEF MarkInv
<1>2. CheckDirectory(p) \/ GuardDirectory(p) \/ KillRun(p)
  BY <1>1
  DEF Moves, RunStep, RestoreIfRequested, CheckOutputs, ProbeTemporary,
      OpenFile, FillFile, PlaceFile, Replace, NextStep, UpdateState, SaveCheckpoint,
      StepFails, FileFails, PlaceRaises,
     AbandonPlaced, Writes
<1> QED BY <1>2 DEF CheckDirectory, GuardDirectory, KillRun

\* A finished directory is final: what COMPLETE vouches for is never written
\* again (the tests of workflows/plane_beris_edwards.py:197 and of the
\* applications), for any runs, restarts and mishaps.
THEOREM CompletionIsFinal == RunSpec => CompletedIsFinal
<1>1. RunInit => DataInv /\ MarkInv
  BY DataInit, MarkInit
<1>2. DataInv /\ MarkInv /\ [RunNext]_runVars => DataInv' /\ MarkInv'
  BY DataNext, MarkNext DEF DataInv, ObservationInv
<1>3. ASSUME DataInv, MarkInv, [RunNext]_runVars
      PROVE  [Apart' /\ Completed => UNCHANGED files]_runVars
  <2> SUFFICES ASSUME Apart', NEW r \in Runs, Mine(final[Mark], r), ~Alive(r)
               PROVE  UNCHANGED files
    BY DEF Completed, Mine, Mark
  <2>1. TypeInv /\ Apart
    BY <1>3, ApartBefore DEF DataInv
  <2>2. ASSUME NEW p \in Runs, Moves(p)
        PROVE  UNCHANGED files
    <3>1. Alive(p)
      BY <2>1, <2>2, StepIsLocal
    <3> QED BY <1>3, <2>1, <2>2, <3>1, NothingIsWritten
  <2>3. ASSUME NEW p \in Runs, Launch(p)
        PROVE  UNCHANGED files
    BY <2>3 DEF Launch
  <2>4. CASE UNCHANGED runVars
    BY <2>4 DEF runVars
  <2> QED BY <1>3, <2>2, <2>3, <2>4, NextSplits
<1> QED BY <1>1, <1>2, <1>3, PTL DEF RunSpec, CompletedIsFinal
====
