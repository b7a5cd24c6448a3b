-------------------------- MODULE RunDirectory ---------------------------
(***************************************************************************)
(* The output directory of a workflow: observations, checkpoints,          *)
(* diagnostics, metadata.json and the COMPLETE marker, written file by     *)
(* file by runs that may fail anywhere, be killed anywhere, follow one     *)
(* another in the same directory, or be started together by mistake.       *)
(*                                                                         *)
(* The families are "plane" and "channel" (active nematics), which keep a  *)
(* status in the metadata and write observations through a temporary file; *)
(* "periodic", whose control the complete-stress Channel workflow shares;  *)
(* and "finiteq", the anchoring pilot.  An absent directory and an empty   *)
(* one are not told apart: every workflow accepts both.  What the steps    *)
(* compute is the matter of ProjectedStepping, and how a checkpoint is     *)
(* published that of CheckpointPublication: here it is one step.           *)
(***************************************************************************)
EXTENDS Naturals, Sequences, FiniteSets

CONSTANTS
    Runs, NoRun,      \* the processes that use the directory
    Families,         \* the workflows to consider
    Parts,            \* the files of one observation, in the order written
    Steps,            \* additional steps a run asks for
    SaveEvery, CheckpointEvery,
    LastStep,         \* bound on the step a restart leads to
    MaxMishaps,       \* bound on failing operations and killed processes
    Overlaps          \* families of which a run may be started while another
                      \* is alive

ASSUME RunAssumption ==
    /\ NoRun \notin Runs
    /\ Families \subseteq {"plane", "channel", "periodic", "finiteq"}
    /\ Parts \in Seq(STRING) /\ Len(Parts) > 0
    /\ \A i, j \in 1..Len(Parts) : Parts[i] = Parts[j] => i = j
    /\ \A i \in 1..Len(Parts) :
          Parts[i] \notin {"initial", "metadata", "npy", "csv", "COMPLETE"}
    /\ Steps \in Nat \ {0} /\ SaveEvery \in Nat \ {0}
    /\ CheckpointEvery \in Nat \ {0} /\ LastStep \in Nat
    /\ MaxMishaps \in Nat /\ Overlaps \subseteq Families

VARIABLES
    family,
    final,      \* the files under their names
    temp,       \* the temporary file beside each
    published,  \* the run whose checkpoint of a step is published
    stage,      \* what a run is doing
    io,         \* how far it is with the file it writes
    part,       \* the part of the observation it writes
    handle,     \* where the file it has open is now
    entry,      \* it went through the application, or straight to the workflow
    start, at,  \* first and present completed step
    saved, kept,  \* saved_steps and checkpoint_steps
    muted,      \* no failure record of its end: it could not be written, or
                \* the run raised before the try that writes it
    overlap,    \* two runs have been alive together
    mishaps

files   == <<final, temp, published>>
writing == <<io, part, handle>>
journal == <<start, at, saved, kept>>
ledgers == <<entry, muted, overlap, mishaps, family>>
runVars == <<files, stage, writing, journal, ledgers>>

Guarded == family \in {"plane", "channel"}

Frame(k, s) == <<Parts[k], s>>
PartsUsed == IF family = "finiteq" THEN {1} ELSE 1..Len(Parts)
Names == {Frame(k, s) : k \in 1..Len(Parts), s \in 0..LastStep}
         \cup {<<n, 0>> : n \in {"initial", "metadata", "npy", "csv",
                                 "COMPLETE"}}

Statuses == {"none", "running", "complete", "failed"}
Contents == [by : Runs \cup {NoRun}, what : {"absent", "part", "whole"},
             status : Statuses]
Absent == [by |-> NoRun, what |-> "absent", status |-> "none"]
Exists(f) == f.what # "absent"

Stages == {"idle", "check", "guard", "restore", "initial", "running", "step",
           "frame", "update", "save", "npy", "csv", "complete", "marker",
           "record", "returned", "raised", "rejected", "killed"}
Over == {"idle", "returned", "raised", "rejected", "killed"}
Alive(r) == stage[r] \notin Over

\* The file a run writes in its present stage.
File(r) == CASE stage[r] = "initial" -> <<"initial", 0>>
             [] stage[r] = "frame" -> Frame(part[r], at[r])
             [] stage[r] = "npy" -> <<"npy", 0>>
             [] stage[r] = "csv" -> <<"csv", 0>>
             [] stage[r] = "marker" -> <<"COMPLETE", 0>>
             [] OTHER -> <<"metadata", 0>>

Progress == {"check", "probe", "open", "fill", "place", "raise"}
Writes == {"initial", "running", "frame", "npy", "csv", "complete", "marker",
           "record"}

(***************************************************************************)
(* How a file is written: "staged" to an exclusively created temporary     *)
(* file that an exception removes, then renamed; "shared" to a temporary   *)
(* file that is truncated if it is there, then renamed; "direct" to the    *)
(* name itself, created exclusively; "text" to the name itself, truncated. *)
(***************************************************************************)
\* Mutant: files of the unguarded families are opened for overwriting.
StyleOverwrites(r) ==
    CASE stage[r] = "frame" -> IF Guarded THEN "staged" ELSE "text"
      [] stage[r] \in {"npy", "csv"} -> "staged"
      [] OTHER -> "text"

Style(r) ==
    CASE stage[r] = "frame" ->
            (CASE Guarded -> "staged"
               [] family = "periodic" -> "direct"
               [] OTHER -> "shared")
      [] stage[r] \in {"npy", "csv"} -> "staged"
      [] stage[r] = "initial" -> "text"
      [] stage[r] = "marker" -> IF family = "finiteq" THEN "shared" ELSE "text"
      [] OTHER -> IF family = "periodic" THEN "text" ELSE "shared"

Where(r) == IF Style(r) \in {"staged", "shared"} THEN "temp" ELSE "final"
At(r, w) == IF w = "temp" THEN temp[File(r)] ELSE final[File(r)]

Status(r) == CASE stage[r] = "complete" -> "complete"
               [] stage[r] = "record" -> "failed"
               [] stage[r] = "running" /\ Guarded -> "running"
               [] OTHER -> "none"

Goal(r) == start[r] + Steps
Due(r, every) == at[r] % every = 0

RunInit ==
    /\ family \in Families
    /\ final = [f \in Names |-> Absent] /\ temp = [f \in Names |-> Absent]
    /\ published = [s \in 0..LastStep |-> NoRun]
    /\ stage = [r \in Runs |-> "idle"] /\ io = [r \in Runs |-> "open"]
    /\ part = [r \in Runs |-> 1] /\ handle = [r \in Runs |-> "none"]
    /\ entry = [r \in Runs |-> "application"]
    /\ start = [r \in Runs |-> 0] /\ at = [r \in Runs |-> 0]
    /\ saved = [r \in Runs |-> {}] /\ kept = [r \in Runs |-> {}]
    /\ muted = [r \in Runs |-> FALSE] /\ overlap = FALSE
    /\ mishaps = 0

Enter(r, s) == stage' = [stage EXCEPT ![r] = s]
\* To a stage, at the beginning of its file; an observation of a guarded
\* family and the diagnostics begin with a look at what is there.
Move(r, s) == /\ Enter(r, s)
              /\ io' = [io EXCEPT ![r] =
                          IF s = "npy" \/ (s = "frame" /\ Guarded)
                          THEN "check" ELSE "open"]
              /\ part' = [part EXCEPT ![r] = 1]
Begin(r, s) == Move(r, s) /\ handle' = [handle EXCEPT ![r] = "none"]

\* Mutant: the handler covers the loop and not the finalization.
RecordedLoop == {"step", "frame", "update", "save"}

\* An exception: from inside the guarded body the handler records it.
Recorded == {"step", "frame", "update", "save", "npy", "csv", "complete",
             "marker"}

Raise(r) == Begin(r, IF Guarded /\ stage[r] \in Recorded THEN "record"
                     ELSE "raised")

----------------------------------------------------------------------------
\* Starting.

\* A run starts fresh or from a checkpoint published in the directory.
Launch(r) ==
    /\ stage[r] = "idle"
    /\ family \in Overlaps \/ \A q \in Runs : ~Alive(q)
    /\ \E e \in {"application", "workflow"}, from \in 0..LastStep :
          /\ from = 0 \/ published[from] # NoRun
          /\ from + Steps <= LastStep
          /\ entry' = [entry EXCEPT ![r] = e]
          /\ start' = [start EXCEPT ![r] = from]
          /\ at' = [at EXCEPT ![r] = from]
          /\ Enter(r, IF e = "application" THEN "check" ELSE "guard")
    /\ overlap' = (overlap \/ \E q \in Runs : Alive(q))
    /\ UNCHANGED <<files, writing, saved, kept, muted, mishaps, family>>

DirectoryIsEmpty ==
    /\ \A f \in Names : ~Exists(final[f]) /\ ~Exists(temp[f])
    /\ \A s \in 0..LastStep : published[s] = NoRun

\* prepare_new_run_directory, and the same test in the other applications.
CheckDirectory(r) ==
    /\ stage[r] = "check"
    /\ Enter(r, IF ~DirectoryIsEmpty THEN "rejected"
                ELSE IF family = "plane" /\ start[r] = 0 THEN "initial"
                ELSE "guard")
    /\ UNCHANGED <<files, writing, journal, ledgers>>

\* Mutant: a restart does not look for COMPLETE.
GuardFreshRuns(r) ==
    /\ stage[r] = "guard"
    /\ Enter(r, IF \/ Guarded /\ start[r] = 0 /\ Exists(final[<<"COMPLETE", 0>>])
                   \/ family = "finiteq" /\ ~DirectoryIsEmpty
                THEN "rejected" ELSE "restore")
    /\ UNCHANGED <<files, writing, journal, ledgers>>

\* The workflow's own test: COMPLETE, or, for finiteq, any file at all.
GuardDirectory(r) ==
    /\ stage[r] = "guard"
    /\ Enter(r, IF \/ Guarded /\ Exists(final[<<"COMPLETE", 0>>])
                   \/ family = "finiteq" /\ ~DirectoryIsEmpty
                THEN "rejected" ELSE "restore")
    /\ UNCHANGED <<files, writing, journal, ledgers>>

\* The checkpoint is loaded, verified and restored, or refused.
RestoreIfRequested(r) ==
    /\ stage[r] = "restore"
    /\ \/ Begin(r, IF family = "periodic" THEN "step" ELSE "running")
       \/ start[r] # 0 /\ Begin(r, "rejected")
    /\ UNCHANGED <<files, journal, ledgers>>

----------------------------------------------------------------------------
\* Writing one file.

\* Mutant: observations are not looked for.
CheckDiagnosticsOnly(r) ==
    /\ stage[r] \in Writes /\ io[r] = "check"
    /\ IF stage[r] = "npy" /\ \E n \in {"npy", "csv"} : Exists(final[<<n, 0>>])
       THEN Raise(r)
       ELSE /\ io' = [io EXCEPT ![r] = IF Guarded THEN "probe" ELSE "open"]
            /\ UNCHANGED <<stage, part, handle>>
    /\ UNCHANGED <<files, journal, ledgers>>

\* Refusing to overwrite: an observation of a guarded family looks for all
\* its files first, diagnostics for both of theirs.
CheckOutputs(r) ==
    /\ stage[r] \in Writes /\ io[r] = "check"
    /\ LET outputs ==
             CASE (stage[r] = "frame" /\ Guarded) ->
                     {Frame(k, at[r]) : k \in PartsUsed}
               [] stage[r] = "npy" -> {<<"npy", 0>>, <<"csv", 0>>}
               [] OTHER -> {}
       IN IF \E f \in outputs : Exists(final[f])
          THEN Raise(r)
          ELSE /\ io' = [io EXCEPT ![r] = IF Guarded THEN "probe" ELSE "open"]
               /\ UNCHANGED <<stage, part, handle>>
    /\ UNCHANGED <<files, journal, ledgers>>

\* _atomic_save refuses a stale temporary file, before it opens its own.
ProbeTemporary(r) ==
    /\ stage[r] \in Writes /\ io[r] = "probe"
    /\ IF \/ Exists(temp[File(r)])
          \/ family = "channel" /\ Exists(final[File(r)])
       THEN Raise(r)
       ELSE /\ io' = [io EXCEPT ![r] = "open"]
            /\ UNCHANGED <<stage, part, handle>>
    /\ UNCHANGED <<files, journal, ledgers>>

\* The open files of other runs no longer are where they were.
Others(r, fs, moves) ==
    [q \in Runs |-> IF q # r /\ stage[q] \in Writes /\ File(q) \in fs
                    THEN moves[handle[q]] ELSE handle[q]]
Handles == {"none", "gone", "temp", "final"}
Unlinked(placed) ==
    [h \in Handles |-> IF h = "temp" \/ (placed /\ h = "final")
                       THEN "gone" ELSE h]
Renamed  == [h \in Handles |-> CASE h = "temp" -> "final"
                                 [] h = "final" -> "gone"
                                 [] OTHER -> h]

\* An exception while a staged file is written removes the temporary file,
\* whoever made it; the structured diagnostics remove both of theirs, and
\* take back a lone array.
Abandon(r) ==
    LET structured == family = "periodic" /\ stage[r] \in {"npy", "csv"}
        lone  == structured /\ ~Exists(final[<<"csv", 0>>])
        stale == IF structured THEN {<<"npy", 0>>, <<"csv", 0>>}
                 ELSE {File(r)}
    IN /\ Style(r) = "staged"
       /\ temp' = [f \in Names |-> IF f \in stale THEN Absent ELSE temp[f]]
       /\ final' = IF lone THEN [final EXCEPT ![<<"npy", 0>>] = Absent]
                   ELSE final
       /\ Move(r, IF Guarded THEN "record" ELSE "raised")
       /\ handle' = [Others(r, stale, Unlinked(lone)) EXCEPT ![r] = "none"]
AbandonFile(r) ==
    \/ Abandon(r)
    \/ Style(r) # "staged" /\ Raise(r) /\ UNCHANGED <<final, temp>>

\* The handler of a file that was put in place and raised all the same.
AbandonPlaced(r) ==
    /\ stage[r] \in Writes /\ io[r] = "raise" /\ AbandonFile(r)
    /\ UNCHANGED <<published, journal, ledgers>>

OpenFile(r) ==
    /\ stage[r] \in Writes /\ io[r] = "open"
    /\ LET new == [by |-> r, what |-> "part", status |-> "none"]
           f   == File(r)
       IN IF Style(r) \in {"staged", "direct"} /\ Exists(At(r, Where(r)))
          THEN AbandonFile(r)
          ELSE /\ IF Where(r) = "temp"
                  THEN temp' = [temp EXCEPT ![f] = new] /\ UNCHANGED final
                  ELSE final' = [final EXCEPT ![f] = new] /\ UNCHANGED temp
               /\ handle' = [handle EXCEPT ![r] = Where(r)]
               /\ io' = [io EXCEPT ![r] = "fill"]
               /\ UNCHANGED <<stage, part>>
    /\ UNCHANGED <<published, journal, ledgers>>

\* The bytes go to the file the handle names; where another run has
\* truncated it since, the two texts may be left mixed.
Pour(r, whats) ==
    /\ handle[r] \in {"temp", "final"}
    /\ \E w \in IF At(r, handle[r]).by = r THEN whats ELSE {"part", "whole"} :
          LET text == [by |-> r, what |-> w, status |-> Status(r)]
          IN IF handle[r] = "temp"
             THEN temp' = [temp EXCEPT ![File(r)] = text] /\ UNCHANGED final
             ELSE final' = [final EXCEPT ![File(r)] = text] /\ UNCHANGED temp

\* Mutant: the marker is written before the metadata.
AfterMarkerFirst(r) ==
    CASE stage[r] = "initial" -> "guard"
      [] stage[r] = "running" -> "step"
      [] stage[r] = "frame" -> IF at[r] = Goal(r) THEN "npy" ELSE "update"
      [] stage[r] = "npy" -> "csv"
      [] stage[r] = "csv" -> "marker"
      [] stage[r] = "marker" -> "complete"
      [] stage[r] = "complete" -> "returned"
      [] OTHER -> "raised"

\* What follows the file of each stage.
After(r) ==
    CASE stage[r] = "initial" -> "guard"
      [] stage[r] = "running" -> "step"
      [] stage[r] = "frame" ->
            (CASE family = "finiteq" -> "save"
               [] family # "finiteq" /\ at[r] = Goal(r) -> "npy"
               [] OTHER -> "update")
      [] stage[r] = "npy" -> "csv"
      [] stage[r] = "csv" -> "complete"
      [] stage[r] = "complete" -> "marker"
      [] stage[r] = "marker" -> "returned"
      [] OTHER -> "raised"

\* The file is written: the next part of the observation, or the next stage.
\* A step is listed as saved once all the parts of its observation are.
Finish(r) ==
    IF stage[r] = "frame" /\ part[r] + 1 \in PartsUsed
    THEN /\ part' = [part EXCEPT ![r] = @ + 1]
         /\ io' = [io EXCEPT ![r] = IF Guarded THEN "probe" ELSE "open"]
         /\ UNCHANGED <<stage, saved>>
    ELSE /\ Move(r, After(r))
         /\ saved' = IF stage[r] = "frame"
                     THEN [saved EXCEPT ![r] = @ \cup {at[r]}] ELSE saved

FillFile(r) ==
    /\ stage[r] \in Writes /\ io[r] = "fill"
    /\ \/ Pour(r, {"whole"})
       \/ handle[r] = "gone" /\ UNCHANGED <<final, temp>>
    /\ IF Where(r) = "temp"
       THEN io' = [io EXCEPT ![r] = "place"] /\ UNCHANGED <<stage, part, saved>>
       ELSE Finish(r)
    /\ handle' = [handle EXCEPT ![r] = "none"]
    /\ UNCHANGED <<published, start, at, kept, ledgers>>

\* rename(2) of the temporary file to its name.
Replace(r) ==
    LET f == File(r)
    IN /\ Exists(temp[f])
       /\ final' = [final EXCEPT ![f] = temp[f]]
       /\ temp' = [temp EXCEPT ![f] = Absent]
       /\ handle' = Others(r, {f}, Renamed)

PlaceFile(r) ==
    /\ stage[r] \in Writes /\ io[r] = "place"
    /\ \/ Replace(r) /\ Finish(r)
       \/ ~Exists(temp[File(r)]) /\ AbandonFile(r) /\ UNCHANGED saved
    /\ UNCHANGED <<published, start, at, kept, ledgers>>

----------------------------------------------------------------------------
\* The loop.

\* Before a step an observation is due, except in finiteq; after the last
\* one the final observation always is.
NextStep(r) ==
    /\ stage[r] = "step"
    /\ Begin(r, IF family = "finiteq"
                THEN IF at[r] = Goal(r) THEN "marker" ELSE "update"
                ELSE IF at[r] = Goal(r) \/ Due(r, SaveEvery) THEN "frame"
                ELSE "update")
    /\ UNCHANGED <<files, journal, ledgers>>

UpdateState(r) ==
    /\ stage[r] = "update"
    /\ at' = [at EXCEPT ![r] = @ + 1]
    /\ Begin(r, IF family = "finiteq" /\ (at[r] + 1) % SaveEvery = 0
                THEN "frame" ELSE "save")
    /\ UNCHANGED <<files, start, saved, kept, ledgers>>

\* A checkpoint is published under its step's name, or refused there.
SaveCheckpoint(r) ==
    /\ stage[r] = "save"
    /\ IF ~Due(r, CheckpointEvery)
       THEN Begin(r, "step") /\ UNCHANGED <<published, kept>>
       ELSE IF published[at[r]] # NoRun
       THEN Raise(r) /\ UNCHANGED <<published, kept>>
       ELSE /\ published' = [published EXCEPT ![at[r]] = r]
            /\ kept' = [kept EXCEPT ![r] = @ \cup {at[r]}]
            /\ Begin(r, "step")
    /\ UNCHANGED <<final, temp, start, at, saved, ledgers>>

----------------------------------------------------------------------------
\* What may go wrong.

Mishap == /\ mishaps < MaxMishaps /\ mishaps' = mishaps + 1
          /\ UNCHANGED <<entry, overlap, family>>

\* A solve, a synchronization, an update or a checkpoint raises.
StepFails(r) ==
    /\ Mishap /\ stage[r] \in {"step", "update", "save"}
    /\ Raise(r) /\ UNCHANGED <<files, journal, muted>>

\* An operation on a file raises: a full disk, an interrupt.  A failed write
\* or close may have left all of the bytes, and the removal of the temporary
\* file may fail as well.  A failing look at what is there removes nothing.
FileFails(r) ==
    /\ Mishap /\ stage[r] \in Writes
    /\ \/ /\ io[r] \in {"open", "place"} /\ AbandonFile(r)
       \/ /\ io[r] = "fill" /\ Style(r) = "staged" /\ Abandon(r)
       \/ /\ io[r] = "fill" /\ Style(r) # "staged" /\ Raise(r)
          /\ \/ Pour(r, {"part", "whole"})
             \/ handle[r] = "gone" /\ UNCHANGED <<final, temp>>
       \/ /\ io[r] # "open" /\ Style(r) = "staged"
          /\ Raise(r) /\ UNCHANGED <<final, temp>>
    /\ muted' = IF stage[r] = "record" THEN [muted EXCEPT ![r] = TRUE]
                ELSE muted
    /\ UNCHANGED <<published, journal>>

\* The file is put in place and its writer gets an exception all the same:
\* the reply is lost, or an interrupt arrives before the next operation.  A
\* run that has just placed its running metadata is not yet inside the try
\* whose handler records failures.
PlaceRaises(r) ==
    /\ Mishap /\ stage[r] \in Writes /\ io[r] = "place"
    /\ Replace(r)
    /\ io' = [io EXCEPT ![r] = "raise"] /\ UNCHANGED <<stage, part>>
    /\ muted' = IF stage[r] \in {"running", "record"}
                THEN [muted EXCEPT ![r] = TRUE] ELSE muted
    /\ UNCHANGED <<published, journal>>

\* The process ends where it stands; no handler runs.
KillRun(r) ==
    /\ Mishap /\ Alive(r) /\ Begin(r, "killed")
    /\ UNCHANGED <<files, journal, muted>>

RunStep(r) ==
    \/ CheckDirectory(r) \/ GuardDirectory(r) \/ RestoreIfRequested(r)
    \/ CheckOutputs(r) \/ ProbeTemporary(r) \/ OpenFile(r) \/ FillFile(r)
    \/ PlaceFile(r) \/ AbandonPlaced(r) \/ NextStep(r) \/ UpdateState(r)
    \/ SaveCheckpoint(r)

RunsAreOver == (\A r \in Runs : ~Alive(r)) /\ UNCHANGED runVars

RunNext ==
    \/ \E r \in Runs : \/ Launch(r) \/ RunStep(r)
                       \/ StepFails(r) \/ FileFails(r) \/ PlaceRaises(r)
                       \/ KillRun(r)
    \/ RunsAreOver

RunSpec == RunInit /\ [][RunNext]_runVars
----------------------------------------------------------------------------
\* Properties.

RunTypeOK ==
    /\ family \in Families
    /\ final \in [Names -> Contents] /\ temp \in [Names -> Contents]
    /\ published \in [0..LastStep -> Runs \cup {NoRun}]
    /\ stage \in [Runs -> Stages]
    /\ io \in [Runs -> Progress]
    /\ part \in [Runs -> 1..Len(Parts)] /\ handle \in [Runs -> Handles]
    /\ entry \in [Runs -> {"application", "workflow"}]
    /\ start \in [Runs -> 0..LastStep] /\ at \in [Runs -> 0..LastStep]
    /\ saved \in [Runs -> SUBSET (0..LastStep)]
    /\ kept \in [Runs -> SUBSET (0..LastStep)]
    /\ muted \in [Runs -> BOOLEAN] /\ overlap \in BOOLEAN
    /\ mishaps \in 0..MaxMishaps

Whole(f, r) == final[f].what = "whole" /\ final[f].by = r

\* The observations the schedule asks of a run that goes to its end.
Scheduled(r) ==
    IF family = "finiteq"
    THEN {s \in start[r] + 1..Goal(r) : s % SaveEvery = 0}
    ELSE {s \in start[r]..Goal(r) : s % SaveEvery = 0 \/ s = Goal(r)}

Keeps(r, steps) ==
    /\ \A s \in steps, k \in PartsUsed : Whole(Frame(k, s), r)
    /\ \A s \in kept[r] : published[s] = r

\* Runs that do not overlap, and of which those of a family without a guard
\* of its own all went through the application's check.
Apart == /\ ~overlap
         /\ \/ family # "periodic"
            \/ \A r \in Runs : stage[r] = "idle" \/ entry[r] = "application"

\* A COMPLETE marker with its text in it is only ever seen beside the final
\* metadata of the run that wrote it, and beside every file and checkpoint
\* those list, through failures of the last writes, kills and later runs.
CompleteIsTruthful ==
    \A r \in Runs :
        Apart /\ Whole(<<"COMPLETE", 0>>, r) =>
            /\ Whole(<<"metadata", 0>>, r)
            /\ final[<<"metadata", 0>>].status # "running"
            /\ Keeps(r, saved[r])

\* Once the run that made the COMPLETE marker is over, with a result or not,
\* the directory is final: no later run changes, adds or removes a file or a
\* checkpoint, whatever it was started from and however it fails.
Completed == /\ Exists(final[<<"COMPLETE", 0>>])
             /\ \E r \in Runs : final[<<"COMPLETE", 0>>].by = r /\ ~Alive(r)
CompletedIsFinal == [][Apart' /\ Completed => UNCHANGED files]_runVars

\* A run that returned a result keeps, whole and its own, each observation
\* its schedule asked for and each checkpoint it took, whatever runs follow
\* in its directory, even past the application's check.
SuccessKeepsItsData ==
    \A r \in Runs : ~overlap /\ stage[r] = "returned" => Keeps(r, Scheduled(r))

\* The files of one observation come from one run: a restart over the
\* remains of a killed run refuses them instead of completing them.  Where
\* observations are written through a temporary file they are also whole.
\* The periodic family's exclusive creation keeps the first even when runs
\* overlap.
FramesAreCoherent ==
    \A s \in 0..LastStep, k, j \in 1..Len(Parts) :
        LET f == final[Frame(k, s)]
            g == final[Frame(j, s)]
        IN /\ Exists(f) /\ Exists(g) /\ (~overlap \/ family = "periodic") =>
                 f.by = g.by
           /\ ~overlap /\ family # "periodic" => f.what # "part"

\* The status in a guarded family's metadata tells how its run ended.  It
\* says running or complete of a run that raised only when writing the
\* failure record failed too, or when the run raised between placing its
\* running metadata and entering the try that records failures.
StatusTellsTheEnd ==
    LET record == final[<<"metadata", 0>>]
    IN Guarded /\ ~overlap /\ Exists(record) =>
         LET r == record.by
         IN /\ record.what = "whole"
            /\ (stage[r] = "raised" /\ ~muted[r]) => record.status = "failed"
            /\ stage[r] = "returned" => record.status = "complete"
            /\ record.status = "failed" =>
                  stage[r] \in {"record", "raised", "killed"}
==========================================================================
