---------------------- MODULE ExactTrajectoryProofs ----------------------
(***************************************************************************)
(* The workflows' promise: however often a run is observed, checkpointed,  *)
(* broken off and restarted, it goes through the states of the run that is *)
(* left alone, down to the warm starts of its static solves.  Proved for   *)
(* any number of steps, faults and kills, provided nobody takes the        *)
(* liberties that are not the workflows' own.                              *)
(***************************************************************************)
EXTENDS ProjectedSteppingProofs

----------------------------------------------------------------------------
\* The reference run.

LEMMA CanonProperties ==
    ASSUME NEW p, NEW n \in Nat
    PROVE  /\ Canon(p, n) \in Seq(Int)
           /\ p # "stateless" => /\ Append(Canon(p, n - 1), n) = Canon(p, n)
                                 /\ Canon(p, n - 1) \in Seq(Int)
           /\ p # "stateless" => Canon(p, -1) = <<-1>>
<1>1. ASSUME NEW m \in Int, m >= -1
      PROVE  [j \in 1 .. m + 2 |-> j - 2] \in Seq(Int)
  BY <1>1
<1>2. CASE p = "stateless"
  BY <1>2 DEF Canon
<1>3. CASE p # "stateless"
  <2>1. Canon(p, n) = [j \in 1 .. n + 2 |-> j - 2]
        /\ Canon(p, n - 1) = [j \in 1 .. (n - 1) + 2 |-> j - 2]
    BY <1>3 DEF Canon
  <2>2. Append(Canon(p, n - 1), n) = Canon(p, n)
    BY <2>1
  <2>3. Canon(p, -1) = <<-1>>
    BY <1>3 DEF Canon
  <2> QED BY <1>1, <1>3, <2>1, <2>2, <2>3
<1> QED BY <1>2, <1>3

\* The update that makes state n + 1 of the reference run.
Last(p, i, n) ==
    [statics |-> Canon(p, n),
     done    |-> IF i # 0 /\ (n + 1) % i = 0 THEN {"rhs", "project", "refresh"}
                                            ELSE {"rhs", "project"}]

LEMMA ReferenceProperties ==
    ASSUME NEW p, NEW i \in Nat, NEW n \in Nat
    PROVE  /\ Reference(p, i, n) \in States
           /\ Len(Reference(p, i, n)) = n
           /\ Append(Reference(p, i, n), Last(p, i, n)) = Reference(p, i, n + 1)
<1> DEFINE U(k) == [statics |-> Canon(p, k - 1),
                    done |-> IF i # 0 /\ k % i = 0
                             THEN {"rhs", "project", "refresh"}
                             ELSE {"rhs", "project"}]
<1>1. \A k \in Nat \ {0} : U(k) \in Updates
  <2>1. \A k \in Nat \ {0} : Canon(p, k - 1) \in Seq(Int)
    BY CanonProperties
  <2> QED BY <2>1 DEF Updates, Operations
<1>2. \A m \in Nat : Reference(p, i, m) = [k \in 1 .. m |-> U(k)]
  BY DEF Reference
<1>3. Last(p, i, n) = U(n + 1)
  BY DEF Last
<1> HIDE DEF U
<1>4. \A m \in Nat : [k \in 1 .. m |-> U(k)] \in Seq(Updates)
  BY <1>1
<1>5. [k \in 1 .. n + 1 |-> U(k)] = Append([k \in 1 .. n |-> U(k)], U(n + 1))
  OBVIOUS
<1>6. n + 1 \in Nat /\ Len([k \in 1 .. n |-> U(k)]) = n
  OBVIOUS
<1>7. Reference(p, i, n) \in States /\ Len(Reference(p, i, n)) = n
  BY <1>2, <1>4, <1>6 DEF States
<1>8. Append(Reference(p, i, n), Last(p, i, n)) = Reference(p, i, n + 1)
  BY <1>2, <1>3, <1>5, <1>6
<1> QED BY <1>7, <1>8

LEMMA OtherDone ==
    ASSUME NEW A, NEW B, NEW u \in [statics : A, done : B], NEW d
    PROVE  [u EXCEPT !.done = d] = [statics |-> u.statics, done |-> d]
OBVIOUS

LEMMA MarkLast ==
    ASSUME NEW s \in States, NEW u \in Updates, NEW op \in Operations
    PROVE  Mark(Append(s, u), op)
             = Append(s, [statics |-> u.statics, done |-> u.done \cup {op}])
<1> DEFINE a == Append(s, u)
           n == Len(s) + 1
           v == [statics |-> u.statics, done |-> u.done \cup {op}]
<1>1. a \in Seq(Updates) /\ Len(a) = n /\ a[n] = u /\ n \in 1 .. n
  BY AppendProperties DEF States
<1>2. v \in Updates
  BY DEF Updates
<1>5. [u EXCEPT !.done = @ \cup {op}] = v
  BY OtherDone DEF Updates
<1>3. Mark(a, op) = [a EXCEPT ![n] = v]
  BY <1>1, <1>5 DEF Mark
<1>4. [a EXCEPT ![n] = v] = Append(s, v)
  <2> HIDE DEF v
  <2>1. /\ [a EXCEPT ![n] = v] \in Seq(Updates)
        /\ Len([a EXCEPT ![n] = v]) = n
        /\ \A j \in 1 .. n :
              [a EXCEPT ![n] = v][j] = IF j = n THEN v ELSE a[j]
    <3> HIDE DEF a, n
    <3> QED BY <1>1, <1>2, ExceptSeq
  <2>2. /\ Append(s, v) \in Seq(Updates)
        /\ Len(Append(s, v)) = n
        /\ \A j \in 1 .. Len(s) : Append(s, v)[j] = s[j] /\ a[j] = s[j]
        /\ Append(s, v)[n] = v
    BY <1>2, AppendProperties DEF States
  <2>3. \A j \in 1 .. n : [a EXCEPT ![n] = v][j] = Append(s, v)[j]
    <3>1. \A j \in 1 .. n : j = n \/ j \in 1 .. Len(s)
      BY DEF States
    <3>2. \A j \in 1 .. Len(s) : j # n
      BY DEF States
    <3> HIDE DEF a, n
    <3> QED BY <2>1, <2>2, <3>1, <3>2
  <2> HIDE DEF a, n
  <2> QED BY <2>1, <2>2, <2>3, SeqEqual
<1> QED BY <1>3, <1>4

\* A refresh is due by the clock's counters exactly when it is by its steps.
LEMMA DueByClock ==
    ASSUME TypeInv, ClockCoherent
    PROVE  RefreshDue <=> /\ progress.interval # 0
                          /\ (progress.done + 1) % progress.interval = 0
<1> DEFINE i == progress.interval
           n == progress.done
           k == progress.step
           m == progress.count
<1>1. i \in Nat /\ n \in Nat /\ k \in Nat /\ m \in Nat
  BY DEF TypeInv, TypeOK, Clocks
<1>2. RefreshDue <=> i # 0 /\ k + 1 >= i
  BY DEF RefreshDue
<1>3. CASE i # 0
  <2>1. k < i /\ m * i + k = n
    BY <1>3 DEF ClockCoherent
  <2> HIDE DEF i, n, k, m
  <2>2. CASE k + 1 >= i
    <3>1. k + 1 = i
      BY <1>1, <2>1, <2>2
    <3>2. n + 1 = (m + 1) * i + 0
      <4>1. (m + 1) * i = m * i + i
        BY <1>1, Distributes
      <4>2. m * i \in Nat
        BY <1>1
      <4> QED BY <1>1, <2>1, <3>1, <4>1, <4>2
    <3>3. (n + 1) % i = 0
      <4>1. m + 1 \in Nat /\ n + 1 \in Nat /\ 0 < i
        BY <1>1, <1>3
      <4> HIDE DEF i
      <4> QED BY <1>1, <3>2, <4>1, DivisionUnique
    <3> QED BY <1>2, <1>3, <2>2, <3>3 DEF i, n
  <2>3. CASE ~(k + 1 >= i)
    <3>1. n + 1 = m * i + (k + 1)
      <4>1. m * i \in Nat
        BY <1>1
      <4> QED BY <1>1, <2>1, <4>1
    <3>2. k + 1 \in Nat /\ k + 1 < i /\ k + 1 # 0
      BY <1>1, <2>3
    <3>3. (n + 1) % i = k + 1
      <4>1. n + 1 \in Nat
        BY <1>1
      <4> QED BY <1>1, <3>1, <3>2, <4>1, DivisionUnique
    <3> QED BY <1>2, <2>3, <3>2, <3>3 DEF i, n
  <2> QED BY <2>2, <2>3
<1> QED BY <1>2, <1>3

----------------------------------------------------------------------------
\* The invariant: the state is that of the reference run, up to the update in
\* progress, and the warm start is the one its next solve needs.

Past == Reference(policy, progress.interval, progress.done)
With(d) == Append(Past, [statics |-> Canon(policy, progress.done), done |-> d])

FieldsInv ==
    /\ pc \in {"idle", "prepare", "rhs", "finished"} =>
         spectral = Past /\ physical = Past
    /\ pc = "project" => spectral = With({"rhs"})
    /\ pc = "inverse" => spectral = With({"rhs", "project"})
    /\ pc = "refresh" => spectral = With({"rhs", "project"}) /\ RefreshDue
    /\ pc = "commit" =>
         spectral = Reference(policy, progress.interval, progress.done + 1)

Warmth(n) == IF policy = "stateless" THEN <<>> ELSE Canon(policy, n)

SolveInv ==
    /\ ObservedIsExact
    /\ pc \in {"idle", "prepare"} =>
         guess = Warmth(IF current THEN progress.done ELSE progress.done - 1)
    /\ pc \in Working \ {"prepare"} => guess = Warmth(progress.done) /\ ~current
    /\ pc \in {"idle", "prepare"} /\ current /\ policy = "shielded" =>
         progress.done < MaxSteps

ExactInv == FieldsInv /\ SolveInv /\ CheckpointIsExact

LEMMA SolvedIsExact ==
    ASSUME IInv, ExactInv, pc \in {"idle", "prepare"},
           policy = "stateless" \/ ~current
    PROVE  /\ Solved = Canon(policy, progress.done)
           /\ Warmed = Warmth(progress.done)
           /\ policy = "stateless" => guess = <<>>
<1> DEFINE n == progress.done
<1>1. n \in Nat /\ progress.interval \in Nat
  BY DEF IInv, TypeInv, TypeOK, Clocks
<1>2. Len(spectral) = n
  <2>1. spectral = Past
    BY DEF ExactInv, FieldsInv
  <2>2. Len(Past) = n
    BY <1>1, ReferenceProperties DEF Past
  <2> QED BY <2>1, <2>2
<1>3. CASE policy = "stateless"
  BY <1>2, <1>3 DEF Solved, Warmed, Warm, Warmth, Canon, ExactInv, SolveInv
<1>4. CASE policy # "stateless"
  <2>1. guess = Canon(policy, n - 1)
    BY <1>4 DEF ExactInv, SolveInv, Warmth
  <2> QED BY <1>1, <1>2, <1>4, <2>1, CanonProperties
          DEF Solved, Warmed, Warm, Warmth
<1> QED BY <1>3, <1>4

LEMMA ExactStep ==
    ASSUME IInv, ExactInv, Step
    PROVE  ExactInv'
<1> DEFINE n == progress.done
<1> USE DEF fields, solve, clocks, world
<1>0. n \in Nat /\ progress.interval \in Nat
  BY DEF IInv, TypeInv, TypeOK, Clocks
<1>1. CASE BeginGeneration
  <2>1. active' = TRUE /\ pc' = "prepare"
    BY <1>1 DEF BeginGeneration, IInv, StepInv, Working
  <2> QED BY <1>1, <2>1 DEF BeginGeneration, ExactInv, FieldsInv, SolveInv,
             CheckpointIsExact, ObservedIsExact, Past, Warmth, Working
<1>2. CASE PrepareAlgebraic
  <2>1. statics' = Canon(policy, n) /\ guess' = Warmth(n) /\ current' = FALSE
    <3>1. CASE current
      BY <1>2, <3>1 DEF PrepareAlgebraic, ExactInv, SolveInv, ObservedIsExact
    <3>2. CASE ~current
      BY <1>2, <3>2, SolvedIsExact DEF PrepareAlgebraic, IInv, TypeInv, TypeOK
    <3> QED BY <3>1, <3>2
  <2> QED BY <1>2, <2>1 DEF PrepareAlgebraic, ExactInv, FieldsInv, SolveInv,
             CheckpointIsExact, ObservedIsExact, Past, Warmth, Working
<1>3. CASE UpdateSpectral
  <2>1. spectral' = With({"rhs"})
    BY <1>3 DEF UpdateSpectral, ExactInv, FieldsInv, SolveInv,
       ObservedIsExact, With
  <2> QED BY <1>3, <2>1 DEF UpdateSpectral, ExactInv, FieldsInv, SolveInv,
             CheckpointIsExact, ObservedIsExact, Past, With, Warmth, Working
<1>4. CASE ProjectDynamicSpectra
  <2>1. spectral' = With({"rhs", "project"})
    <3>1. [statics |-> Canon(policy, n), done |-> {"rhs"}] \in Updates
      BY <1>0, CanonProperties DEF Updates, Operations
    <3>2. Past \in States
      BY <1>0, ReferenceProperties DEF Past
    <3>3. Mark(With({"rhs"}), "project") = With({"rhs", "project"})
      BY <3>1, <3>2, MarkLast DEF With, Operations
    <3> QED BY <1>4, <3>3 DEF ProjectDynamicSpectra, ExactInv, FieldsInv
  <2> QED BY <1>4, <2>1 DEF ProjectDynamicSpectra, ExactInv, FieldsInv,
             SolveInv, CheckpointIsExact, ObservedIsExact, Past, With, Warmth,
             Working
<1>5. CASE InverseDynamicSpectra
  <2>1. ~RefreshDue => With({"rhs", "project"})
          = Reference(policy, progress.interval, n + 1)
    BY <1>0, ReferenceProperties, DueByClock
    DEF With, Past, Last, IInv, StepInv
  <2> QED BY <1>5, <2>1 DEF InverseDynamicSpectra, ExactInv, FieldsInv,
             SolveInv, CheckpointIsExact, ObservedIsExact, Past, With, Warmth,
             Working, RefreshDue
<1>6. CASE RefreshDynamicSpectra
  <2>1. spectral' = With({"rhs", "project", "refresh"})
    <3>1. [statics |-> Canon(policy, n), done |-> {"rhs", "project"}]
            \in Updates
      BY <1>0, CanonProperties DEF Updates, Operations
    <3>2. Past \in States
      BY <1>0, ReferenceProperties DEF Past
    <3>3. Mark(With({"rhs", "project"}), "refresh")
            = With({"rhs", "project", "refresh"})
      BY <3>1, <3>2, MarkLast DEF With, Operations
    <3> QED BY <1>6, <3>3 DEF RefreshDynamicSpectra, ExactInv, FieldsInv,
               IInv, TypeInv, Refilled
  <2>2. With({"rhs", "project", "refresh"})
          = Reference(policy, progress.interval, n + 1)
    BY <1>0, <1>6, ReferenceProperties, DueByClock
    DEF RefreshDynamicSpectra, With, Past, Last, IInv, StepInv, ExactInv,
        FieldsInv
  <2> QED BY <1>6, <2>1, <2>2 DEF RefreshDynamicSpectra, ExactInv, FieldsInv,
             SolveInv, CheckpointIsExact, ObservedIsExact, Warmth, Working
<1>7. CASE CommitStep
  <2>1. progress'.done = n + 1 /\ progress'.interval = progress.interval
    BY <1>7 DEF CommitStep, IInv, TypeInv, TypeOK, Clocks
  <2>2. progress'.done - 1 = n
    BY <1>0, <2>1
  <2> QED BY <1>7, <2>1, <2>2 DEF CommitStep, ExactInv, FieldsInv, SolveInv,
             CheckpointIsExact, ObservedIsExact, Past, Warmth, Working, IInv,
             TypeInv, Refilled
<1> QED BY <1>1, <1>2, <1>3, <1>4, <1>5, <1>6, <1>7 DEF Step

\* A runtime that was just built stands at the start of the reference run.
LEMMA StartIsExact ==
    /\ \A i \in Nat : Reference(policy, i, 0) = <<>>
    /\ Built = Warmth(0 - 1)
<1>1. ASSUME NEW i \in Nat
      PROVE  Reference(policy, i, 0) = <<>>
  <2>1. Reference(policy, i, 0) \in Seq(Updates)
        /\ Len(Reference(policy, i, 0)) = 0
    BY ReferenceProperties DEF States
  <2> HIDE DEF Reference
  <2> QED BY <2>1, EmptySeq
<1>2. Built = Warmth(0 - 1)
  <2>1. CASE policy = "stateless"
    BY <2>1 DEF Built, Warm, Warmth
  <2>2. CASE policy # "stateless"
    <3>1. Canon(policy, -1) = <<-1>>
      BY <2>2, CanonProperties, 0 \in Nat
    <3>2. 0 - 1 = -1
      OBVIOUS
    <3>3. Warmth(0 - 1) = <<-1>>
      BY <2>2, <3>1, <3>2 DEF Warmth
    <3> QED BY <2>2, <3>3 DEF Built, Warm
  <2> QED BY <2>1, <2>2
<1> QED BY <1>1, <1>2

LEMMA ExactFail ==
    ASSUME ExactInv, Fail
    PROVE  ExactInv'
BY DEF Fail, PrepareFails, RHSFails, UpdateInterrupted, ProjectFails,
   InverseFails, RefreshFails, Faulty, AbortGeneration, ExactInv, FieldsInv,
   SolveInv, CheckpointIsExact, ObservedIsExact, Working

WorkflowOnlyRuns == Liberties \subseteq {"interrupt"}

\* A solve between steps leaves the static fields of the reference run, and
\* the warm start the next step expects.
LEMMA SynchronizeExact ==
    ASSUME IInv, ExactInv, pc = "idle", policy = "shielded" => ~current,
           NEW g \in {Warmed, LiveGuess}, SynchronizeKeeping(g)
    PROVE  /\ statics' = Canon(policy, progress.done)
           /\ policy # "shielded" =>
                guess' = Warmth(IF current' THEN progress.done
                                ELSE progress.done - 1)
           /\ ~Skips => Warmed = Warmth(progress.done)
<1>1. policy \in {"stateless", "memo", "shielded"} /\ current \in BOOLEAN
      /\ progress.done \in Nat
  BY DEF IInv, TypeInv, TypeOK, Clocks
<1>2. CASE Skips
  BY <1>2 DEF Skips, SynchronizeKeeping, solve, ExactInv, SolveInv,
     ObservedIsExact
<1>3. CASE ~Skips
  <2>1. policy = "stateless" \/ ~current
    BY <1>1, <1>3 DEF Skips, ExactInv, SolveInv
  <2>2. /\ Solved = Canon(policy, progress.done)
        /\ Warmed = Warmth(progress.done)
        /\ policy = "stateless" => guess = <<>>
    BY <2>1, SolvedIsExact
  <2>3. /\ statics' = Solved /\ guess' = g
        /\ current' = (policy = "memo" \/ current)
    BY <1>3 DEF SynchronizeKeeping
  <2>4. CASE policy = "stateless"
    BY <2>2, <2>3, <2>4 DEF Warmth, LiveGuess
  <2>5. CASE policy = "memo"
    BY <2>2, <2>3, <2>5 DEF LiveGuess
  <2>6. CASE policy = "shielded"
    BY <2>2, <2>3, <2>6
  <2> QED BY <1>1, <2>4, <2>5, <2>6
<1> QED BY <1>2, <1>3

LEMMA ExactBetween ==
    ASSUME WorkflowOnlyRuns, IInv, ExactInv, Between
    PROVE  ExactInv'
<1> DEFINE n == progress.done
<1> USE DEF fields, clocks, world
<1>0. n \in Nat /\ progress.interval \in Nat
      /\ policy \in {"stateless", "memo", "shielded"}
  BY DEF IInv, TypeInv, TypeOK, Clocks
<1>1. CASE Observe
  <2>1. policy # "shielded"
    BY <1>1 DEF Observe, MayObserve, WorkflowOnlyRuns
  <2>2. /\ statics' = Canon(policy, n)
        /\ guess' = Warmth(IF current' THEN n ELSE n - 1)
    BY <1>1, <2>1, SynchronizeExact DEF Observe, SynchronizeForObservation
  <2> QED BY <1>1, <2>1, <2>2 DEF Observe, ExactInv, FieldsInv, SolveInv,
             CheckpointIsExact, ObservedIsExact, Past, Warmth, Working
<1>2. CASE ObserveFails
  BY <1>2 DEF ObserveFails, Faulty, ExactInv, FieldsInv, SolveInv,
     CheckpointIsExact, ObservedIsExact, Working
<1>3. CASE Checkpoint
  <2>1. Skips \/ ~current
    BY <1>3 DEF Checkpoint, MayCheckpoint, WorkflowOnlyRuns
  <2>2. SynchronizeKeeping(LiveGuess) /\ pc = "idle"
    BY <1>3 DEF Checkpoint
  <2>3. /\ statics' = Canon(policy, n)
        /\ ~Skips => Warmed = Warmth(n)
    BY <2>1, <2>2, SynchronizeExact DEF Skips
  <2>4. guess' = Warmth(IF current' THEN n ELSE n - 1)
    <3>1. CASE policy = "shielded"
      BY <2>1, <2>2, <3>1 DEF SynchronizeKeeping, LiveGuess, Skips, ExactInv,
         SolveInv
    <3>2. CASE policy # "shielded"
      BY <2>2, <3>2, SynchronizeExact
    <3> QED BY <3>1, <3>2
  <2>5. policy = "shielded" /\ current' => current
    BY <2>2 DEF SynchronizeKeeping, Skips, solve
  <2>6. /\ Snapshot.spectral = Past /\ Snapshot.physical = Past
        /\ Snapshot.progress = progress
        /\ Snapshot.statics = Canon(policy, n)
        /\ policy # "stateless" => Snapshot.guess = Canon(policy, n)
    <3>1. Skips => guess = Warmth(n)
      BY <2>2 DEF Skips, ExactInv, SolveInv
    <3> QED BY <2>2, <2>3, <3>1 DEF Snapshot, ExactInv, FieldsInv, Warmth
  <2>7. CheckpointIsExact'
    BY <1>3, <2>6 DEF Checkpoint, CheckpointIsExact, ExactInv, Past
  <2> QED BY <1>3, <2>3, <2>4, <2>7, <2>5 DEF Checkpoint, ExactInv, FieldsInv,
             SolveInv, ObservedIsExact, Past, Warmth, Working
<1>4. CASE CheckpointFails
  BY <1>4 DEF CheckpointFails, Faulty, ExactInv, FieldsInv, SolveInv,
     CheckpointIsExact, ObservedIsExact, Working
<1>5. CASE Finish
  <2>1. statics' = Canon(policy, n)
    <3>1. policy = "shielded" => ~current
      BY <1>0, <1>5 DEF Finish, ExactInv, SolveInv
    <3> QED BY <1>5, <3>1, SynchronizeExact
            DEF Finish, SynchronizeForObservation
  <2> QED BY <1>5, <2>1 DEF Finish, ExactInv, FieldsInv, SolveInv,
             CheckpointIsExact, ObservedIsExact, Past, Working
<1>6. CASE Kill
  BY <1>6 DEF Kill, ExactInv, FieldsInv, SolveInv, CheckpointIsExact,
     ObservedIsExact, Working
<1>7. CASE StartAgain
  <2>1. progress'.done = 0 /\ progress'.interval \in Nat
    BY <1>7, SteppingAssumption DEF StartAgain, Configured, Counters
  <2>2. Reference(policy, progress'.interval, 0) = <<>>
        /\ Built = Warmth(0 - 1)
    BY <2>1, StartIsExact
  <2> QED BY <1>7, <2>1, <2>2 DEF StartAgain, ExactInv, FieldsInv,
             SolveInv, CheckpointIsExact, ObservedIsExact, Past, Warmth,
             Working
<1>8. ASSUME NEW c \in store, Restore(c)
      PROVE  ExactInv'
  <2>1. /\ c.progress.done \in Nat /\ c.progress.interval \in Nat
        /\ c.progress.done < MaxSteps
    BY <1>8 DEF IInv, TypeInv, TypeOK, Clocks, Restore, Compatible
  <2>2. /\ progress'.done = c.progress.done
        /\ progress'.interval = c.progress.interval
    BY <1>8 DEF Restore, Counters
  <2>3. /\ spectral' = Past' /\ physical' = Past'
    BY <1>8, <2>2 DEF Restore, ExactInv, CheckpointIsExact, Past
  <2>4. Len(c.spectral) = c.progress.done
    <3>1. c.spectral
            = Reference(policy, c.progress.interval, c.progress.done)
      BY DEF ExactInv, CheckpointIsExact
    <3>2. Len(Reference(policy, c.progress.interval, c.progress.done))
            = c.progress.done
      BY <2>1, ReferenceProperties
    <3> QED BY <3>1, <3>2
  <2>5. statics' = Canon(policy, progress'.done)
        /\ guess' = Warmth(progress'.done)
    <3>1. CASE policy = "stateless"
      BY <1>8, <2>2, <2>4, <3>1 DEF Restore, Warm, Canon, Warmth
    <3>2. CASE policy # "stateless"
      BY <1>8, <2>2, <3>2 DEF Restore, Warm, Warmth, ExactInv,
         CheckpointIsExact
    <3> QED BY <3>1, <3>2
  <2> QED BY <1>8, <2>1, <2>2, <2>3, <2>5 DEF Restore, ExactInv, FieldsInv,
             SolveInv, CheckpointIsExact, ObservedIsExact, Warmth, Working
<1>9. ~(Retry \/ SetRefreshInterval \/ Reset)
  BY DEF Retry, SetRefreshInterval, Reset, WorkflowOnlyRuns
<1> QED BY <1>1, <1>2, <1>3, <1>4, <1>5, <1>6, <1>7, <1>8, <1>9 DEF Between

LEMMA ExactInit == Init => ExactInv
<1> SUFFICES ASSUME Init PROVE ExactInv
  OBVIOUS
<1>1. progress.done = 0 /\ progress.interval \in Nat
  BY SteppingAssumption DEF Init, Counters
<1>2. Reference(policy, progress.interval, 0) = <<>>
      /\ Built = Warmth(0 - 1)
  BY <1>1, StartIsExact
<1> QED BY <1>1, <1>2 DEF Init, ExactInv, FieldsInv, SolveInv,
           CheckpointIsExact, ObservedIsExact, Past, Warmth, Working

----------------------------------------------------------------------------
\* The theorems for the workflows.

\* The inductive invariant, relative to IInv.
THEOREM Exactness ==
    ASSUME WorkflowOnlyRuns
    PROVE  Spec => []ExactInv
<1>1. Init => ExactInv
  BY ExactInit
<1>2. IInv /\ ExactInv /\ [Next]_vars => ExactInv'
  <2> SUFFICES ASSUME IInv, ExactInv, [Next]_vars
               PROVE  ExactInv'
    OBVIOUS
  <2>1. CASE UNCHANGED vars
    BY <2>1 DEF vars, fields, solve, clocks, world, ExactInv, FieldsInv,
       SolveInv, CheckpointIsExact, ObservedIsExact, Past, With, Warmth,
       Working, RefreshDue
  <2> QED BY <2>1, NextSplits, ExactStep, ExactFail, ExactBetween
<1> QED BY <1>1, <1>2, Invariance, PTL DEF Spec

\* The state after n steps is that of the undisturbed run, across failures,
\* checkpoints and restarts (workflows/channel_checkpoint.py:437,
\* workflows/plane_checkpoint.py:524, integrators/state_backed.py:259).
THEOREM ExactTrajectory ==
    ASSUME WorkflowOnlyRuns
    PROVE  Spec => []TrajectoryIsExact
<1>1. ExactInv => TrajectoryIsExact
  BY DEF ExactInv, FieldsInv, TrajectoryIsExact, Past
<1> QED BY <1>1, Exactness, PTL

\* The static fields that a right-hand side, a callback or an observation
\* reads are those of the undisturbed run (solver.py:137,
\* runtime/channel_beris_edwards.py:359).
THEOREM ExactObservation ==
    ASSUME WorkflowOnlyRuns
    PROVE  Spec => []ObservedIsExact
<1>1. ExactInv => ObservedIsExact
  BY DEF ExactInv, SolveInv
<1> QED BY <1>1, Exactness, PTL

\* Every checkpoint holds the undisturbed run's state and warm start
\* (workflows/channel_checkpoint.py:303, workflows/plane_checkpoint.py:470).
THEOREM ExactCheckpoint ==
    ASSUME WorkflowOnlyRuns
    PROVE  Spec => []CheckpointIsExact
<1>1. ExactInv => CheckpointIsExact
  BY DEF ExactInv
<1> QED BY <1>1, Exactness, PTL

----------------------------------------------------------------------------
\* The workflows' runs are restartable runs.

LEMMA QuotientUnique ==
    ASSUME NEW n \in Nat, NEW q \in Nat, NEW r \in Nat, NEW i \in Nat,
           r < i, n = q * i + r
    PROVE  n \div i = q
BY SMT

\* A coherent clock is the one its step count and interval imply, so that the
\* restore of a checkpoint does not refuse it.
LEMMA CoherentIsCounted ==
    ASSUME progress \in Clocks, ClockCoherent
    PROVE  progress = Counters(progress.done, progress.interval)
<1> DEFINE i == progress.interval
           n == progress.done
           k == progress.step
           m == progress.count
<1>1. i \in Nat /\ n \in Nat /\ k \in Nat /\ m \in Nat
  BY DEF Clocks
<1>2. progress = [interval |-> i, done |-> n, step |-> k, count |-> m]
  BY DEF Clocks
<1>3. CASE i = 0
  BY <1>2, <1>3 DEF ClockCoherent, Counters
<1>4. CASE i # 0
  <2>1. k < i /\ n = m * i + k
    BY <1>4 DEF ClockCoherent
  <2>2. n % i = k /\ n \div i = m
    <3> HIDE DEF i, n, k, m
    <3> QED BY <1>1, <2>1, DivisionUnique, QuotientUnique
  <2> QED BY <1>2, <1>4, <2>2 DEF Counters
<1> QED BY <1>3, <1>4

\* The run stays within its plan and its last step, and what it has stored
\* can be resumed.
Resumable(c) ==
    /\ c.progress.done \in 1 .. MaxSteps
    /\ c.progress.interval \in Configured
    /\ c.progress = Counters(c.progress.done, c.progress.interval)

RunInv ==
    /\ policy \in Policies /\ progress.interval \in Configured
    /\ progress.done \in 0 .. MaxSteps
    /\ pc \in Working => progress.done < MaxSteps
    /\ \A c \in store : Resumable(c)

LEMMA RunInvInit == Init => RunInv
<1> SUFFICES ASSUME Init PROVE RunInv
  OBVIOUS
<1>1. PICK i \in {j \in Intervals : policy = "memo" => j = 0} :
        progress = Counters(0, i)
  BY DEF Init
<1>2. progress.done = 0 /\ progress.interval = i
  BY <1>1 DEF Counters
<1> QED BY <1>1, <1>2, SteppingAssumption
        DEF Init, RunInv, Configured, Working

LEMMA RunInvNext ==
    ASSUME WorkflowOnlyRuns, IInv, RunInv, [Next]_vars
    PROVE  RunInv'
<1> USE DEF RunInv, Resumable, Configured, Working, fields, solve, clocks,
        world
<1>0. MaxSteps \in Nat /\ progress.done \in Nat
  BY SteppingAssumption
<1>1. CASE BeginGeneration
  BY <1>1, <1>0 DEF BeginGeneration
<1>2. CASE CommitStep
  <2>1. progress'.done = progress.done + 1
        /\ progress'.interval = progress.interval
    BY <1>2 DEF CommitStep, IInv, TypeInv, TypeOK, Clocks
  <2> QED BY <1>0, <1>2, <2>1 DEF CommitStep
<1>3. CASE Step /\ ~BeginGeneration /\ ~CommitStep
  BY <1>3 DEF Step, PrepareAlgebraic, UpdateSpectral, ProjectDynamicSpectra,
     InverseDynamicSpectra, RefreshDynamicSpectra
<1>4. CASE Fail
  BY <1>4 DEF Fail, PrepareFails, RHSFails, UpdateInterrupted, ProjectFails,
     InverseFails, RefreshFails, Faulty, AbortGeneration
<1>5. CASE Checkpoint
  <2>1. progress = Counters(progress.done, progress.interval)
    BY CoherentIsCounted DEF IInv, TypeInv, TypeOK, StepInv
  <2>2. Snapshot.progress = progress /\ progress.done > 0
    BY <1>5 DEF Checkpoint, MayCheckpoint, Snapshot
  <2>3. Resumable(Snapshot)
    BY <1>0, <2>1, <2>2
  <2> QED BY <1>5, <2>3 DEF Checkpoint
<1>6. CASE StartAgain
  <2>1. PICK i \in Configured : progress' = Counters(0, i)
    BY <1>6 DEF StartAgain
  <2>2. progress'.done = 0 /\ progress'.interval = i
    BY <2>1 DEF Counters
  <2> QED BY <1>0, <1>6, <2>1, <2>2 DEF StartAgain
<1>7. ASSUME NEW c \in store, Restore(c)
      PROVE  RunInv'
  <2>1. progress' = c.progress
    BY <1>7 DEF Restore
  <2> QED BY <1>7, <2>1 DEF Restore
<1>8. CASE Observe \/ ObserveFails \/ CheckpointFails \/ Finish \/ Kill
  BY <1>8 DEF Observe, ObserveFails, CheckpointFails, Finish, Kill, Faulty
<1>9. ~(Retry \/ SetRefreshInterval \/ Reset)
  BY DEF Retry, SetRefreshInterval, Reset, WorkflowOnlyRuns
<1>10. CASE UNCHANGED vars
  BY <1>10 DEF vars
<1> QED BY <1>1, <1>2, <1>3, <1>4, <1>5, <1>6, <1>7, <1>8, <1>9, <1>10,
           NextSplits DEF Between

LEMMA SubSeqOfAppend ==
    ASSUME NEW S, NEW s \in Seq(S), NEW e \in S
    PROVE  SubSeq(Append(s, e), 1, Len(s)) = s /\ SubSeq(s, 1, Len(s)) = s
OBVIOUS

\* Before its commit, a step shows the state it started from.
PresentIsExact == Phase # "down" => Present = <<Past, Past>>

LEMMA PresentIsPast ==
    ASSUME IInv, ExactInv
    PROVE  PresentIsExact
<1> DEFINE n == progress.done
           i == progress.interval
<1>0. n \in Nat /\ i \in Nat
  BY DEF IInv, TypeInv, TypeOK, Clocks
<1>1. Past \in States /\ Len(Past) = n
  BY <1>0, ReferenceProperties DEF Past
<1>2. ASSUME NEW u \in Updates
      PROVE  Before(Append(Past, u)) = Past
  BY <1>1, SubSeqOfAppend DEF Before, States
<1>3. Canon(policy, n) \in Seq(Int)
  BY <1>0, CanonProperties
<1>4. CASE pc \in {"idle", "prepare", "rhs", "finished"}
  BY <1>4 DEF ExactInv, FieldsInv, Present, Phase, fields, PresentIsExact
<1>5. CASE pc \in {"project", "inverse", "refresh"}
  <2>1. \E d \in SUBSET Operations : spectral = With(d)
    BY <1>5 DEF ExactInv, FieldsInv, Operations
  <2>2. Before(spectral) = Past
    BY <1>2, <1>3, <2>1 DEF With, Updates
  <2> QED BY <1>5, <2>2 DEF Present, Phase, PresentIsExact
<1>6. CASE pc = "commit"
  <2>1. spectral = Append(Past, Last(policy, i, n))
    BY <1>0, <1>6, ReferenceProperties DEF ExactInv, FieldsInv, Past
  <2>2. Last(policy, i, n) \in Updates
    BY <1>3 DEF Last, Updates, Operations
  <2>3. Before(spectral) = Past
    BY <1>2, <2>1, <2>2
  <2> QED BY <1>6, <2>3 DEF Present, Phase, PresentIsExact
<1> QED BY <1>4, <1>5, <1>6 DEF IInv, TypeInv, TypeOK, PresentIsExact, Phase


Plan == [policy |-> policy, interval |-> progress.interval]

\* The trajectory that a run under a plan goes through.
LEMMA Trajectory ==
    ASSUME NEW p \in Plans, NEW n \in 0 .. MaxSteps
    PROVE  /\ RunFields[p][n] = <<Reference(p.policy, p.interval, n),
                                  Reference(p.policy, p.interval, n)>>
           /\ RunSaved[p][n].statics = Canon(p.policy, n)
           /\ RunSaved[p][n] =
                [statics |-> Canon(p.policy, n),
                 guess   |-> Warmly(p.policy, Canon(p.policy, n))]
BY DEF RunFields, RunSaved

LEMMA PlanIsPlanned ==
    ASSUME RunInv
    PROVE  /\ Plan \in Plans /\ progress.done \in 0 .. MaxSteps
           /\ <<Past, Past>> = RunFields[Plan][progress.done]
<1>1. Plan \in Plans
  BY SteppingAssumption DEF RunInv, Configured, Plan, Plans
<1> QED BY <1>1, Trajectory DEF RunInv, Past, Plan

Correct == IInv /\ ExactInv /\ RunInv /\ PresentIsExact

LEMMA RunInit ==
    ASSUME Init, Correct
    PROVE  Run!Init
<1>1. progress.done = 0 /\ Phase = "up" /\ store = {}
  BY DEF Init, Counters, Phase
<1>2. Present = RunFields[Plan][0]
  BY <1>1, PlanIsPlanned DEF Correct, PresentIsExact
<1> QED BY <1>1, <1>2, PlanIsPlanned DEF Run!Init, Correct, Plan

\* Steps that neither commit nor save nor change the phase cannot be seen.
LEMMA HiddenStep ==
    ASSUME Correct, Correct', UNCHANGED <<policy, progress, store, Phase>>
    PROVE  UNCHANGED Run!runVars
<1>1. UNCHANGED Past
  BY DEF Past
<1>2. UNCHANGED Present
  <2>1. CASE Phase = "down"
    BY <2>1 DEF Present
  <2>2. CASE Phase # "down"
    BY <1>1, <2>2 DEF Correct, PresentIsExact
  <2> QED BY <2>1, <2>2
<1>3. UNCHANGED {Save(c) : c \in store}
  BY DEF Save
<1> QED BY <1>2, <1>3 DEF Run!runVars

LEMMA BrokenStep ==
    ASSUME Correct, UNCHANGED <<policy, progress, store>>,
           pc # "finished", pc' \in {"failed", "dead"}
    PROVE  [Run!Break]_(Run!runVars)
<1>1. Phase' = "down" /\ Present' = <<>>
  BY DEF Phase, Present
<1>2. UNCHANGED {Save(c) : c \in store}
  BY DEF Save
<1>3. CASE Phase = "up"
  BY <1>1, <1>2, <1>3 DEF Run!Break
<1>4. CASE Phase # "up"
  <2>1. Phase = "down" /\ Present = <<>>
    BY <1>4 DEF Phase, Present
  <2> QED BY <1>1, <1>2, <2>1 DEF Run!runVars
<1> QED BY <1>3, <1>4

\* The state of a run that is up is the trajectory's.
LEMMA StandsOnTrajectory ==
    ASSUME Correct, Phase # "down"
    PROVE  Present = RunFields[Plan][progress.done]
BY PlanIsPlanned DEF Correct, PresentIsExact

LEMMA RunNext ==
    ASSUME WorkflowOnlyRuns, Correct, Correct', [Next]_vars
    PROVE  [Run!Next]_(Run!runVars)
<1> DEFINE n == progress.done
<1> USE DEF fields, solve, clocks, world
<1>0. /\ progress \in Clocks /\ MaxSteps \in Nat
      /\ n \in Nat /\ n <= MaxSteps
  BY SteppingAssumption DEF Correct, RunInv, IInv, TypeInv, TypeOK
<1>s. ASSUME UNCHANGED <<policy, store>>
      PROVE  UNCHANGED {Save(c) : c \in store}
  BY <1>s DEF Save
<1>p. (Phase' # "down") => Present' = RunFields[Plan'][progress'.done]
  <2>1. Plan' \in Plans /\ progress'.done \in 0 .. MaxSteps
        /\ (<<Past, Past>>)' = RunFields[Plan'][progress'.done]
    <3>1. RunInv'
      BY DEF Correct
    <3>2. Plan' \in Plans /\ progress'.done \in 0 .. MaxSteps
      BY <3>1, SteppingAssumption DEF RunInv, Configured, Plan, Plans
    <3> QED BY <3>2, Trajectory DEF Past, Plan
  <2> QED BY <2>1 DEF Correct, PresentIsExact
<1>1. CASE CommitStep
  <2>1. progress'.done = n + 1 /\ Plan' = Plan /\ pc = "commit"
        /\ UNCHANGED store /\ pc' = "idle" /\ UNCHANGED policy
    BY <1>0, <1>1 DEF CommitStep, Clocks, Plan
  <2>2. n < MaxSteps
    BY <2>1 DEF Correct, RunInv, Working
  <2>3. Phase = "up" /\ Phase' = "up"
    BY <2>1 DEF Phase
  <2>4. Present' = RunFields[Plan][n + 1]
    BY <1>p, <2>1, <2>3
  <2> QED BY <1>s, <2>1, <2>2, <2>3, <2>4 DEF Run!Advance, Run!At, Run!Next,
             Plan
<1>2. CASE Step /\ ~CommitStep
  <2>1. UNCHANGED <<policy, progress, store>>
    BY <1>2 DEF Step, BeginGeneration, PrepareAlgebraic, UpdateSpectral,
       ProjectDynamicSpectra, InverseDynamicSpectra, RefreshDynamicSpectra
  <2>2. Phase = "up" /\ Phase' = "up"
    <3>1. CASE BeginGeneration
      <4>1. ledger.spectral = ledger.gen /\ ~active
        BY <3>1 DEF BeginGeneration, Correct, IInv, StepInv, Working
      <4> QED BY <3>1, <4>1 DEF BeginGeneration, Phase
    <3>2. CASE ~BeginGeneration
      BY <1>2, <3>2 DEF Step, PrepareAlgebraic, UpdateSpectral,
         ProjectDynamicSpectra, InverseDynamicSpectra, RefreshDynamicSpectra,
         Phase
    <3> QED BY <3>1, <3>2
  <2> QED BY <2>1, <2>2, HiddenStep
<1>3. CASE Fail \/ ObserveFails \/ CheckpointFails \/ Kill
  <2>1. UNCHANGED <<policy, progress, store>> /\ pc # "finished"
        /\ pc' \in {"failed", "dead"}
    BY <1>3 DEF Fail, PrepareFails, RHSFails, UpdateInterrupted, ProjectFails,
       InverseFails, RefreshFails, ObserveFails, CheckpointFails, Kill,
       Faulty, AbortGeneration
  <2> QED BY <2>1, BrokenStep DEF Run!Next
<1>4. CASE Observe
  <2>1. UNCHANGED <<policy, progress, store, Phase>>
    BY <1>4 DEF Observe, Phase
  <2> QED BY <2>1, HiddenStep
<1>5. CASE Checkpoint
  <2>1. /\ UNCHANGED <<policy, progress, spectral, physical, pc>>
        /\ pc = "idle" /\ n > 0
        /\ store' = store \cup {Snapshot}
    BY <1>5 DEF Checkpoint, MayCheckpoint
  <2>2. Phase = "up" /\ UNCHANGED Phase
    BY <2>1 DEF Phase
  <2>3. Present = <<spectral, physical>> /\ UNCHANGED Present
    BY <2>1, <2>2 DEF Present, Phase
  <2>4. Save(Snapshot) = [plan |-> Plan, step |-> n, state |-> Present,
                          rest |-> RunSaved[Plan][n]]
    <3>1. Snapshot \in store'
      BY <2>1
    <3>2. Snapshot.progress = progress /\ Snapshot.spectral = spectral
          /\ Snapshot.physical = physical
      BY DEF Snapshot
    <3>3. /\ Snapshot.statics = Canon(policy, n)
          /\ policy # "stateless" => Snapshot.guess = Snapshot.statics
      BY <2>1, <3>1, <3>2 DEF Correct, ExactInv, CheckpointIsExact
    <3>4. RunSaved[Plan][n] = [statics |-> Snapshot.statics,
                               guess   |-> Warmly(policy, Snapshot.guess)]
      <4>1. RunSaved[Plan][n] =
              [statics |-> Canon(policy, n),
               guess   |-> Warmly(policy, Canon(policy, n))]
        <5>1. Plan \in Plans /\ n \in 0 .. MaxSteps
          BY PlanIsPlanned DEF Correct
        <5> HIDE DEF n
        <5> QED BY <5>1, Trajectory DEF Plan
      <4> QED BY <3>3, <4>1 DEF Warmly
    <3> QED BY <2>3, <3>2, <3>4 DEF Save, Plan
  <2>5. {Save(c) : c \in store}' = {Save(c) : c \in store} \cup {Save(Snapshot)}
    BY <2>1 DEF Save
  <2> QED BY <2>1, <2>2, <2>3, <2>4, <2>5 DEF Run!Save, Run!Next, Plan
<1>6. CASE Finish
  <2>1. UNCHANGED <<policy, progress, store, spectral, physical>>
        /\ pc = "idle" /\ pc' = "finished" /\ n = MaxSteps
    BY <1>6 DEF Finish
  <2>2. Phase = "up" /\ Phase' = "finished" /\ UNCHANGED Present
    BY <2>1 DEF Phase, Present
  <2> QED BY <1>s, <2>1, <2>2 DEF Run!Finish, Run!Next
<1>7. CASE StartAgain
  <2>1. /\ UNCHANGED <<policy, store>> /\ progress'.done = 0
        /\ Phase = "down" /\ Phase' = "up"
    BY <1>7 DEF StartAgain, Phase, Counters
  <2>2. Present' = RunFields[Plan'][0]
    BY <1>p, <2>1
  <2>3. Plan' \in Plans /\ Plan'.policy = policy
    <3>1. RunInv'
      BY DEF Correct
    <3> QED BY <2>1, <3>1, SteppingAssumption
            DEF RunInv, Configured, Plan, Plans
  <2> QED BY <1>s, <2>1, <2>2, <2>3 DEF Run!Afresh, Run!At, Run!Next, Plan
<1>8. ASSUME NEW c \in store, Restore(c)
      PROVE  Run!Next
  <2>1. /\ progress' = c.progress /\ c.progress.done < MaxSteps
        /\ spectral' = c.spectral /\ physical' = c.physical
        /\ UNCHANGED <<policy, store>> /\ Phase = "down" /\ pc' = "idle"
    <3>1. c.progress = Counters(c.progress.done, c.progress.interval)
      BY DEF Correct, RunInv, Resumable
    <3> QED BY <1>8, <3>1 DEF Restore, Compatible, Phase
  <2>2. Phase' = "up" /\ Present' = Save(c).state
    BY <2>1 DEF Phase, Present, Save
  <2>3. Save(c).plan = Plan' /\ Save(c).step = progress'.done
    BY <2>1 DEF Save, Plan
  <2>4. Present' = RunFields[Save(c).plan][Save(c).step]
    BY <1>p, <2>2, <2>3
  <2>5. Save(c) \in {Save(d) : d \in store} /\ Save(c).step < MaxSteps
    BY <2>1, <2>3
  <2> HIDE DEF n
  <2> QED BY <1>s, <2>1, <2>2, <2>3, <2>4, <2>5
          DEF Run!Resume, Run!At, Run!Next, Plan
<1>9. ~(Retry \/ SetRefreshInterval \/ Reset)
  BY DEF Retry, SetRefreshInterval, Reset, WorkflowOnlyRuns
<1>10. CASE UNCHANGED vars
  BY <1>10, HiddenStep DEF vars, Phase
<1> QED BY <1>1, <1>2, <1>3, <1>4, <1>5, <1>6, <1>7, <1>8, <1>9, <1>10,
           NextSplits DEF Between

\* A workflow's run is a restartable run: its steps are that run's steps, or
\* cannot be seen in it (workflows/channel_active_nematics.py:151,
\* workflows/plane_checkpoint.py:524, integrators/step_program.py:42).
THEOREM RunsAreRestartable ==
    ASSUME WorkflowOnlyRuns
    PROVE  Spec => ImplementsRun
<1>1. Spec => []RunInv
  <2>1. RunInv /\ IInv /\ [Next]_vars => RunInv'
    BY RunInvNext
  <2> QED BY <2>1, RunInvInit, Invariance, PTL DEF Spec
<1>2. IInv /\ ExactInv => PresentIsExact
  BY PresentIsPast
<1>3. Spec => []Correct
  BY <1>1, <1>2, Invariance, Exactness, PTL DEF Correct
<1>4. Init /\ Correct => Run!Init
  BY RunInit
<1>5. Correct /\ Correct' /\ [Next]_vars => [Run!Next]_(Run!runVars)
  BY RunNext
<1> QED BY <1>3, <1>4, <1>5, PTL DEF Spec, ImplementsRun, Run!Spec

====
