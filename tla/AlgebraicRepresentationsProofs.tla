------------------ MODULE AlgebraicRepresentationsProofs ------------------
(***************************************************************************)
(* The algebraic evaluations, for any evolved components, any systems      *)
(* whose dependencies come before them, and any bounds.  The inductive     *)
(* invariant has                                                           *)
(*   HeapInv    the tensors there are;                                     *)
(*   CacheInv   when the representation cache is open, and what for;       *)
(*   SolvingInv the tensors of the evaluation under way, with the pairs    *)
(*              of the cache, good until one of the two is written into;   *)
(*   EpochInv   of which evolved state tensors, stored outputs and         *)
(*              transients are, as long as no solver writes in place;      *)
(*   CallInv    what the call under way has: static fields that are not    *)
(*              current, or an adapter to evaluate, and no transients      *)
(*              where a reset that raised left no adapter.                 *)
(***************************************************************************)
EXTENDS AlgebraicRepresentations, TLAPS

HeapInv ==
    /\ Fields \cup {Temp} \subseteq DOMAIN heap
    /\ \A t \in DOMAIN heap : heap[t].version \in Nat
    /\ turn \in Nat \ {0} /\ generation \in Nat \ {0} /\ writes \in Nat
    /\ mode \in Modes
    /\ evaluating \in {"no", "begin", "solving", "rhs", "advance"}
    /\ transients \in {"none", IF Lazy THEN "view" ELSE "mapping"}
    /\ lazyState <=> transients = "view"

CacheInv ==
    /\ ~Reuse => ~open /\ pairs = <<>>
    /\ evaluating = "solving" => (open <=> Reuse) /\ transients # "view"
    /\ unpublished => open /\ evaluating # "solving"
    /\ evaluating # "solving" /\ ~unpublished => ~open /\ pairs = <<>>

\* The components that are given or solved.
Known == Evolved \cup {Outputs[i] : i \in 1..turn - 1}

\* A tensor of the heap other than the temporary of a solver.
Held(t) == t \in DOMAIN heap /\ t # Temp

GoodPair(n, pair) ==
    /\ pair.physical.name = n /\ pair.physical.kind = "physical"
    /\ pair.spectral.name = n /\ pair.spectral.kind = "spectral"
    /\ Held(pair.physical) /\ Held(pair.spectral)
    /\ pair.physicalVersion \in Nat /\ pair.spectralVersion \in Nat
    /\ pair.physicalVersion <= heap[pair.physical].version
    /\ pair.spectralVersion <= heap[pair.spectral].version
    /\ Unchanged(pair) =>
          heap[pair.physical].content = heap[pair.spectral].content

SolvingInv ==
    evaluating = "solving" =>
        /\ turn <= Len(Outputs) + 1
        /\ DOMAIN spectra = Known /\ DOMAIN physicals \subseteq Known
        /\ DOMAIN pairs \subseteq Known
        /\ \A n \in Known : /\ spectra[n].kind = "spectral"
                            /\ spectra[n].name = n /\ Held(spectra[n])
        /\ \A n \in DOMAIN physicals : /\ physicals[n].kind = "physical"
                                       /\ physicals[n].name = n
                                       /\ Held(physicals[n])
        /\ \A n \in DOMAIN pairs : GoodPair(n, pairs[n])
        /\ ~Lazy => \A i \in 1..turn - 1 :
                       Outputs[i] \in Transient =>
                           Outputs[i] \in DOMAIN physicals

\* A tensor of an output, made by some evaluation.
Made(t) == t \in DOMAIN heap /\ t \notin Fields /\ t # Temp

EpochInv ==
    writes = 0 =>
        /\ \A t \in Fields : EpochOf(t) = epoch
        /\ evaluating = "solving" => \A t : Held(t) => EpochOf(t) = epoch
        /\ ~torn /\ transients = "view" =>
              \A t, m : Made(t) /\ m \in Stored => EpochOf(t) = statics[m]
        /\ ~torn /\ transients = "mapping" =>
              \A n \in Transient, m \in Stored : mapped[n] = statics[m]
        /\ ~torn /\ models = "both"
           /\ (fresh \/ evaluating \in {"rhs", "advance"}) =>
              \A m \in Stored : statics[m] = epoch

ViewInv ==
    transients = "view" =>
        /\ \A n \in Transient : n \in DOMAIN spectra /\ Made(spectra[n])
        /\ \A n \in Transient \cap DOMAIN physicals : Made(physicals[n])

CallInv ==
    /\ evaluating \in {"rhs", "advance"} => ~fresh
    /\ evaluating \in {"begin", "solving"} /\ purpose = "step" => ~fresh
    /\ evaluating \in {"begin", "solving"} => AdapterSet
    /\ models \in {"none", "zero"} => transients = "none"

RepresentationInv ==
    /\ HeapInv /\ CacheInv /\ SolvingInv /\ EpochInv /\ ViewInv /\ CallInv
    /\ ServedTransformsAreExact /\ RhsReadsItsState

----------------------------------------------------------------------------
\* The tensors and the components.

LEMMA TensorsApart ==
    /\ \A n, k, g : /\ Tensor(n, k, g).name = n /\ Tensor(n, k, g).kind = k
                    /\ Tensor(n, k, g).born = g
    /\ \A n \in Evolved : /\ FieldOf(n) \in Fields /\ SpectrumOf(n) \in Fields
                          /\ FieldOf(n) # Temp /\ SpectrumOf(n) # Temp
                          /\ FieldOf(n).name = n /\ SpectrumOf(n).name = n
                          /\ FieldOf(n).kind = "physical"
                          /\ SpectrumOf(n).kind = "spectral"
    /\ Temp \notin Fields
    /\ Temp.name = "temp"
    /\ \A t \in Fields : t.name \in Evolved /\ t.born = 0
<1>1. \A n, k, g : /\ Tensor(n, k, g).name = n /\ Tensor(n, k, g).kind = k
                   /\ Tensor(n, k, g).born = g
  BY DEF Tensor
<1>2. \A t \in Fields : t.name \in Evolved /\ t.born = 0
  BY <1>1 DEF Fields, FieldOf, SpectrumOf
<1>3. Temp.name = "temp" /\ "temp" \notin Evolved
  BY <1>1, RepresentationAssumption DEF Temp
<1>4. Temp \notin Fields
  BY <1>2, <1>3
<1>5. \A n \in Evolved : FieldOf(n) \in Fields /\ SpectrumOf(n) \in Fields
  BY DEF Fields
<1> QED BY <1>1, <1>2, <1>3, <1>4, <1>5 DEF FieldOf, SpectrumOf

\* A tensor of an evaluation is neither a field nor the temporary.
LEMMA MadeApart ==
    ASSUME NEW n \in Evolved \cup Produced, NEW k, NEW g \in Nat \ {0}
    PROVE  Tensor(n, k, g) \notin Fields /\ Tensor(n, k, g) # Temp
BY TensorsApart, RepresentationAssumption

\* The systems read what is known, and solve what is not known yet.
LEMMA SystemsInOrder ==
    ASSUME turn \in Nat \ {0}, turn <= Len(Outputs)
    PROVE  /\ Outputs[turn] \in Produced /\ Outputs[turn] \notin Known
           /\ Reads[Outputs[turn]] \subseteq Known
           /\ Known \subseteq Evolved \cup Produced
           /\ "temp" \notin Known /\ Outputs[turn] # "temp"
<1> DEFINE N == Len(Outputs)
<1>0. N \in Nat /\ turn \in 1..N
  BY RepresentationAssumption
<1>1. Outputs[turn] \in Produced
  BY <1>0 DEF Produced
<1>2. Outputs[turn] \notin Known
  <2>1. Outputs[turn] \notin Evolved
    BY <1>1, RepresentationAssumption
  <2>2. \A i \in 1..turn - 1 : Outputs[i] # Outputs[turn]
    BY <1>0, RepresentationAssumption
  <2> QED BY <2>1, <2>2 DEF Known
<1>3. Known \subseteq Evolved \cup Produced
  BY <1>0 DEF Known, Produced
<1>4. Reads[Outputs[turn]] \subseteq Known
  BY <1>0, RepresentationAssumption DEF Known
<1> QED BY <1>1, <1>2, <1>3, <1>4, RepresentationAssumption

\* Everything is known once all systems are solved.
LEMMA AllKnown ==
    ASSUME turn \in Nat \ {0}, turn = Len(Outputs) + 1
    PROVE  Known = Evolved \cup Produced
BY RepresentationAssumption DEF Known, Produced

LEMMA LazyReuses == (Lazy => Reuse) /\ (Lazy' <=> mode' \in {"lazy_componentwise", "batched_physical_islands"})
BY DEF Lazy, Reuse

\* What With and Without do.
LEMMA FunctionChanges ==
    ASSUME NEW f, NEW n, NEW x
    PROVE  /\ DOMAIN With(f, n, x) = DOMAIN f \cup {n}
           /\ With(f, n, x)[n] = x
           /\ \A m \in DOMAIN f : m # n => With(f, n, x)[m] = f[m]
           /\ DOMAIN Without(f, n) = DOMAIN f \ {n}
           /\ \A m \in DOMAIN f \ {n} : Without(f, n)[m] = f[m]
BY DEF With, Without

LEMMA PrunedHeap ==
    /\ DOMAIN Pruned(heap) = Fields \cup {Temp}
    /\ \A t \in Fields \cup {Temp} : Pruned(heap)[t] = heap[t]
BY DEF Pruned

----------------------------------------------------------------------------
\* The steps.

LEMMA RepresentationInitInv == RepresentationInit => RepresentationInv
<1> SUFFICES ASSUME RepresentationInit PROVE RepresentationInv
  OBVIOUS
<1> DEFINE made == {Tensor(n, "physical", 1) : n \in Transient}
                   \cup {Tensor(n, "spectral", 1) : n \in Produced}
<1>1. /\ mode \in Modes /\ epoch = 0 /\ generation = 1
      /\ heap = [t \in Fields \cup {Temp} \cup made |->
                    Fresh([of |-> t.name, epoch |-> 0])]
      /\ pairs = <<>> /\ open = FALSE /\ lazyState = Lazy
      /\ transients = (IF Lazy THEN "view" ELSE "mapping")
      /\ mapped = [n \in Transient |-> 0]
      /\ evaluating = "no" /\ turn = 1 /\ purpose = "reset"
      /\ fresh = TRUE /\ statics = [n \in Stored |-> 0] /\ models = "both"
      /\ served = <<>> /\ seen = {} /\ torn = FALSE /\ unpublished = FALSE
      /\ writes = 0
  BY DEF RepresentationInit
<1>2. \A t \in DOMAIN heap : heap[t].version = 0 /\ EpochOf(t) = 0
  BY <1>1 DEF Fresh, EpochOf
<1>3. HeapInv
  <2>1. Fields \cup {Temp} \subseteq DOMAIN heap
    BY <1>1
  <2>2. lazyState <=> transients = "view"
    BY <1>1
  <2>3. /\ mode \in Modes /\ generation \in Nat \ {0} /\ turn \in Nat \ {0}
        /\ writes \in Nat /\ evaluating = "no"
        /\ transients \in {"none", IF Lazy THEN "view" ELSE "mapping"}
    BY <1>1
  <2> QED BY <1>2, <2>1, <2>2, <2>3 DEF HeapInv
<1>4. CacheInv /\ SolvingInv /\ CallInv /\ ServedTransformsAreExact
      /\ RhsReadsItsState
  BY <1>1 DEF CacheInv, SolvingInv, CallInv, AdapterSet,
              ServedTransformsAreExact, RhsReadsItsState
<1>5. EpochInv
  <2>1. \A t \in Fields : EpochOf(t) = epoch
    BY <1>1, <1>2
  <2>2. \A m \in Stored : statics[m] = 0
    BY <1>1
  <2>3. \A n \in Transient : mapped[n] = 0
    BY <1>1
  <2> QED BY <1>1, <1>2, <2>1, <2>2, <2>3 DEF EpochInv, Made
<1>6. ViewInv
  <2> SUFFICES ASSUME Lazy PROVE ViewInv
    BY <1>1 DEF ViewInv
  <2>1. /\ physicals = [n \in Evolved \cup Transient |->
                          IF n \in Evolved THEN FieldOf(n)
                          ELSE Tensor(n, "physical", 1)]
        /\ spectra = [n \in Evolved \cup Produced |->
                          IF n \in Evolved THEN SpectrumOf(n)
                          ELSE Tensor(n, "spectral", 1)]
    BY DEF RepresentationInit
  <2>2. ASSUME NEW n \in Transient
        PROVE  Made(Tensor(n, "physical", 1)) /\ Made(Tensor(n, "spectral", 1))
               /\ n \notin Evolved /\ n \in Produced
    <3>1. n \in Produced /\ n \notin Evolved
      BY <2>2, RepresentationAssumption DEF Transient
    <3>2. Tensor(n, "physical", 1) \in made /\ Tensor(n, "spectral", 1) \in made
      BY <2>2, <3>1
    <3> QED BY <1>1, <3>1, <3>2, MadeApart DEF Made
  <2> QED BY <2>1, <2>2 DEF ViewInv
<1> QED BY <1>3, <1>4, <1>5, <1>6 DEF RepresentationInv

\* Calls that leave the tensors alone.
LEMMA QuietInv ==
    ASSUME RepresentationInv, evaluating # "solving",
           evaluating' \in {"no", "begin", "rhs", "advance"},
           UNCHANGED <<tensorVars, reuseVars, adapterVars, epoch, models, torn,
                       recordVars, turn>>,
           statics' = statics \/ models = "zero",
           evaluating' \in {"rhs", "advance"} => ~fresh', fresh' => fresh,
           evaluating' = "rhs" =>
               fresh \/ evaluating = "rhs" \/ models = "zero",
           evaluating' = "advance" => models # "both",
           evaluating' = "begin" => AdapterSet /\ (purpose' = "step" => ~fresh')
    PROVE  RepresentationInv'
<1> USE DEF RepresentationInv, tensorVars, reuseVars, adapterVars, recordVars
<1>1. HeapInv' /\ CacheInv'
  BY DEF HeapInv, CacheInv, Lazy, Reuse
<1>2. SolvingInv' /\ CallInv' /\ ServedTransformsAreExact' /\ RhsReadsItsState'
  BY DEF SolvingInv, CallInv, ServedTransformsAreExact, RhsReadsItsState,
         AdapterSet
<1>3. EpochInv'
  <2>1. CASE models = "zero"
    BY <2>1 DEF EpochInv, CallInv, AdapterSet, EpochOf
  <2>2. CASE statics' = statics /\ models # "zero"
    BY <2>2 DEF EpochInv, Made, Held, EpochOf
  <2> QED BY <2>1, <2>2
<1>4. ViewInv'
  BY DEF ViewInv, Made
<1> QED BY <1>1, <1>2, <1>3, <1>4

LEMMA StepRuntimeInv ==
    ASSUME RepresentationInv, StepRuntime PROVE RepresentationInv'
<1>1. /\ evaluating = "no" /\ fresh' = FALSE /\ UNCHANGED turn
      /\ \/ evaluating' = "rhs" /\ fresh /\ UNCHANGED statics
         \/ evaluating' = "rhs" /\ models = "zero"
         \/ evaluating' = "begin" /\ AdapterSet /\ UNCHANGED statics
      /\ UNCHANGED <<tensorVars, reuseVars, adapterVars, epoch, models, torn,
                     recordVars>>
  BY DEF StepRuntime, Call, StartRhs, StoreZeros
<1> QED BY <1>1, QuietInv

LEMMA SynchronizeInv ==
    ASSUME RepresentationInv, SynchronizeForObservation
    PROVE  RepresentationInv'
<1>1. /\ evaluating = "no" /\ UNCHANGED <<turn, fresh>>
      /\ \/ /\ evaluating' = "begin" /\ purpose' = "observe" /\ AdapterSet
            /\ UNCHANGED statics
         \/ evaluating' = "no" /\ models = "zero"
      /\ UNCHANGED <<tensorVars, reuseVars, adapterVars, epoch, models, torn,
                     recordVars>>
  BY DEF SynchronizeForObservation, Call, StoreZeros, callVars
<1> QED BY <1>1, QuietInv

\* A pair that has not been written into gives what a transform would.
LEMMA GivenIsExact ==
    ASSUME RepresentationInv, evaluating = "solving", NEW n, NEW t,
           NEW side \in {"physical", "spectral"}
    PROVE  /\ Given(n, t, side) = heap[t].content
           /\ Hit(n, t, side) =>
                 /\ n \in DOMAIN pairs /\ GoodPair(n, pairs[n])
                 /\ heap[pairs[n].physical].content
                       = heap[pairs[n].spectral].content
<1>1. CASE ~Hit(n, t, side)
  BY <1>1 DEF Given
<1>2. CASE Hit(n, t, side)
  <2>1. n \in DOMAIN pairs /\ Unchanged(pairs[n])
    BY <1>2 DEF Hit
  <2>2. GoodPair(n, pairs[n])
    BY <2>1 DEF RepresentationInv, SolvingInv
  <2>3. heap[pairs[n].physical].content = heap[pairs[n].spectral].content
    BY <2>1, <2>2 DEF GoodPair
  <2>4. CASE side = "physical"
    <3>1. t = pairs[n].physical /\ Given(n, t, side) = heap[pairs[n].spectral].content
      BY <1>2, <2>4 DEF Hit, Given
    <3> QED BY <2>1, <2>2, <2>3, <3>1
  <2>5. CASE side = "spectral"
    <3>1. t = pairs[n].spectral /\ Given(n, t, side) = heap[pairs[n].physical].content
      BY <1>2, <2>5 DEF Hit, Given
    <3> QED BY <2>1, <2>2, <2>3, <3>1
  <2> QED BY <2>4, <2>5
<1> QED BY <1>1, <1>2

LEMMA AskTransformInv ==
    ASSUME RepresentationInv, AskTransform PROVE RepresentationInv'
<1>1. /\ evaluating = "solving"
      /\ UNCHANGED <<tensorVars, reuseVars, adapterVars, callVars, solverVars,
                     seen, unpublished, writes, faults, mode>>
  BY DEF AskTransform
<1>2. \E n, t, side : /\ side \in {"physical", "spectral"}
                      /\ served' = [asked |-> heap[t].content,
                                    got |-> Given(n, t, side)]
  BY DEF AskTransform
<1>3. ServedTransformsAreExact'
  BY <1>1, <1>2, GivenIsExact DEF ServedTransformsAreExact
<1> USE <1>1 DEF RepresentationInv, tensorVars, reuseVars, adapterVars,
                 callVars, solverVars
<1>4. HeapInv' /\ CacheInv' /\ CallInv' /\ RhsReadsItsState'
  BY DEF HeapInv, CacheInv, CallInv, AdapterSet, RhsReadsItsState, Lazy, Reuse
<1>5. SolvingInv'
  BY DEF SolvingInv, Known, Held, GoodPair, Unchanged, Lazy
<1>6. EpochInv' /\ ViewInv'
  BY DEF EpochInv, ViewInv, Made, Held, EpochOf
<1> QED BY <1>3, <1>4, <1>5, <1>6

LEMMA BeginInv ==
    ASSUME RepresentationInv, BeginEvaluation PROVE RepresentationInv'
<1>1. /\ evaluating = "begin" /\ Synchronized /\ lazyState' = FALSE
      /\ transients' = (IF lazyState THEN "none" ELSE transients)
      /\ turn' = 1 /\ UNCHANGED <<mapped, generation, purpose, solverVars,
                                  recordVars>>
  BY DEF BeginEvaluation
<1>2. transients' # "view" /\ (transients' = "mapping" => transients = "mapping")
      /\ transients' \in {"none", IF Lazy THEN "view" ELSE "mapping"}
  BY <1>1 DEF RepresentationInv, HeapInv
<1>3. ViewInv'
  BY <1>2 DEF ViewInv
<1>4. ServedTransformsAreExact'
  BY <1>1 DEF RepresentationInv, ServedTransformsAreExact, recordVars
<1> USE <1>1, <1>2, <1>3, <1>4 DEF solverVars, recordVars
<1>5. CASE open
  <2>1. /\ evaluating' = "no" /\ UNCHANGED <<pairs, open, heap>>
    BY <1>5 DEF BeginEvaluation
  <2>2. HeapInv' /\ CacheInv'
    BY <1>5, <2>1 DEF RepresentationInv, HeapInv, CacheInv, Lazy, Reuse
  <2>3. SolvingInv' /\ CallInv' /\ RhsReadsItsState'
    BY <2>1 DEF RepresentationInv, SolvingInv, CallInv, AdapterSet,
                  RhsReadsItsState
  <2>4. EpochInv'
    BY <2>1 DEF RepresentationInv, EpochInv, EpochOf
  <2> QED BY <2>2, <2>3, <2>4 DEF RepresentationInv
<1>6. CASE ~open
  <2>1. /\ evaluating' = "solving" /\ physicals' = Seeds
        /\ spectra' = SpectralSeeds /\ open' = Reuse
        /\ pairs' = (IF Reuse
                     THEN [n \in Evolved |->
                             Pair(heap, FieldOf(n), SpectrumOf(n))]
                     ELSE <<>>)
        /\ heap' = Pruned(heap)
    BY <1>6 DEF BeginEvaluation
  <2>2. /\ DOMAIN heap' = Fields \cup {Temp}
        /\ \A t \in Fields \cup {Temp} : t \in DOMAIN heap /\ heap'[t] = heap[t]
    BY <2>1, PrunedHeap DEF RepresentationInv, HeapInv
  <2>3. HeapInv'
    BY <2>1, <2>2 DEF RepresentationInv, HeapInv, Lazy
  <2>4. ~unpublished
    BY <1>6 DEF RepresentationInv, CacheInv
  <2>5. CacheInv'
    BY <2>1, <2>4 DEF CacheInv, Reuse
  <2>6. Known' = Evolved
    BY DEF Known
  <2>7. \A n \in Evolved : GoodPair(n, Pair(heap, FieldOf(n), SpectrumOf(n)))'
    <3> SUFFICES ASSUME NEW n \in Evolved
                 PROVE  GoodPair(n, Pair(heap, FieldOf(n), SpectrumOf(n)))'
      OBVIOUS
    <3> DEFINE p == FieldOf(n)
               q == SpectrumOf(n)
    <3>1. /\ p \in Fields /\ q \in Fields /\ p # Temp /\ q # Temp
          /\ p.name = n /\ q.name = n /\ p.kind = "physical"
          /\ q.kind = "spectral"
      BY TensorsApart
    <3>2. heap[p].content = heap[q].content
      BY DEF Synchronized
    <3>3. heap'[p].version \in Nat /\ heap'[q].version \in Nat
      BY <2>3, <3>1 DEF HeapInv
    <3> HIDE DEF p, q
    <3>4. Pair(heap', p, q) = [physical |-> p, physicalVersion |-> heap'[p].version,
                               spectral |-> q, spectralVersion |-> heap'[q].version]
      BY DEF Pair
    <3>5. GoodPair(n, Pair(heap, p, q))'
      BY <2>2, <3>1, <3>2, <3>3, <3>4 DEF GoodPair, Held
    <3> QED BY <3>5 DEF p, q
  <2>8. \A n \in Evolved : Pair(heap, FieldOf(n), SpectrumOf(n))
                           = Pair(heap', FieldOf(n), SpectrumOf(n))
    BY <2>2, TensorsApart DEF Pair
  <2>9. SolvingInv'
    <3>1. DOMAIN spectra' = Evolved /\ DOMAIN physicals' = Evolved
          /\ \A n \in Evolved : /\ spectra'[n] = SpectrumOf(n)
                                /\ physicals'[n] = FieldOf(n)
      BY <2>1 DEF Seeds, SpectralSeeds
    <3>2. \A n \in Evolved : Held(SpectrumOf(n))' /\ Held(FieldOf(n))'
      BY <2>2, TensorsApart DEF Held
    <3>3. DOMAIN pairs' \subseteq Evolved
          /\ \A n \in DOMAIN pairs' : GoodPair(n, pairs[n])'
      <4>1. CASE Reuse
        BY <2>1, <2>7, <2>8, <4>1
      <4>2. CASE ~Reuse
        BY <2>1, <4>2
      <4> QED BY <4>1, <4>2
    <3>4. turn' <= Len(Outputs) + 1
      BY RepresentationAssumption
    <3> QED BY <2>6, <3>1, <3>2, <3>3, <3>4, TensorsApart DEF SolvingInv
  <2>10. EpochInv'
    <3> SUFFICES ASSUME writes = 0 PROVE EpochInv'
      BY DEF EpochInv
    <3>1. \A t \in Fields : EpochOf(t) = epoch
      BY DEF RepresentationInv, EpochInv
    <3>2. \A t \in Fields : EpochOf(t)' = epoch
      BY <2>2, <3>1 DEF EpochOf
    <3>3. \A t : Held(t)' => EpochOf(t)' = epoch
      BY <2>2, <3>2 DEF Held
    <3> QED
      BY <2>1, <3>2, <3>3 DEF RepresentationInv, EpochInv
  <2>11. CallInv' /\ RhsReadsItsState'
    BY <2>1 DEF RepresentationInv, CallInv, AdapterSet, RhsReadsItsState
  <2> QED BY <2>3, <2>5, <2>9, <2>10, <2>11 DEF RepresentationInv
<1> QED BY <1>5, <1>6

\* A pair stays good while its two tensors stay what they are.
LEMMA GoodPairStays ==
    ASSUME NEW n, NEW pair, GoodPair(n, pair),
           pair.physical \in DOMAIN heap', pair.spectral \in DOMAIN heap',
           heap'[pair.physical] = heap[pair.physical],
           heap'[pair.spectral] = heap[pair.spectral]
    PROVE  GoodPair(n, pair)'
BY DEF GoodPair, Held, Unchanged

LEMMA MaterializeInv ==
    ASSUME RepresentationInv, MaterializeDependency PROVE RepresentationInv'
<1>1. /\ evaluating = "solving" /\ turn <= Len(Outputs) /\ Lazy
      /\ UNCHANGED <<spectra, open, adapterVars, callVars, solverVars, seen,
                     unpublished, writes, faults, mode>>
  BY DEF MaterializeDependency
<1>2. PICK n \in Reads[Outputs[turn]] \ DOMAIN physicals :
         LET p == Tensor(n, "physical", generation + 1)
         IN /\ physicals' = With(physicals, n, p)
            /\ heap' = With(heap, p, Fresh(Given(n, spectra[n], "spectral")))
            /\ pairs' = With(pairs, n, Pair(heap', p, spectra[n]))
            /\ served' = [asked |-> heap[spectra[n]].content,
                          got |-> heap'[p].content]
  BY DEF MaterializeDependency
<1> DEFINE p == Tensor(n, "physical", generation + 1)
           q == spectra[n]
<1>3. /\ HeapInv /\ CacheInv /\ EpochInv /\ CallInv /\ SolvingInv
      /\ turn \in Nat \ {0} /\ generation + 1 \in Nat \ {0}
      /\ DOMAIN spectra = Known /\ DOMAIN physicals \subseteq Known
      /\ DOMAIN pairs \subseteq Known
  BY <1>1 DEF RepresentationInv, HeapInv, SolvingInv
<1>4. n \in Known /\ n \in Evolved \cup Produced /\ n # "temp"
  BY <1>1, <1>2, <1>3, SystemsInOrder
<1>5. /\ p \notin Fields /\ p # Temp /\ p.name = n /\ p.kind = "physical"
  BY <1>3, <1>4, MadeApart, TensorsApart
<1>6. /\ q.kind = "spectral" /\ q.name = n /\ Held(q) /\ q # p
  BY <1>1, <1>3, <1>4, <1>5 DEF SolvingInv
<1>7. Given(n, q, "spectral") = heap[q].content
  BY <1>1, GivenIsExact
<1>a. /\ physicals' = With(physicals, n, p)
      /\ heap' = With(heap, p, Fresh(heap[q].content))
      /\ pairs' = With(pairs, n, Pair(heap', p, q))
      /\ served' = [asked |-> heap[q].content, got |-> heap'[p].content]
  BY <1>2, <1>7
<1> HIDE DEF p, q
<1>8. /\ DOMAIN heap' = DOMAIN heap \cup {p}
      /\ heap'[p] = Fresh(heap[q].content)
      /\ \A t \in DOMAIN heap : t # p => heap'[t] = heap[t]
  BY <1>a DEF With
<1>9. heap'[p].version = 0 /\ heap'[p].content = heap[q].content
  BY <1>8 DEF Fresh
<1>10. heap'[q] = heap[q] /\ q \in DOMAIN heap'
  BY <1>6, <1>8 DEF Held
<1>11. /\ DOMAIN physicals' = DOMAIN physicals \cup {n} /\ physicals'[n] = p
       /\ \A m \in DOMAIN physicals : physicals'[m] = physicals[m]
  BY <1>2, <1>3, <1>a DEF With
<1>12. /\ DOMAIN pairs' = DOMAIN pairs \cup {n}
       /\ pairs'[n] = [physical |-> p, physicalVersion |-> heap'[p].version,
                       spectral |-> q, spectralVersion |-> heap'[q].version]
       /\ \A m \in DOMAIN pairs : m # n => pairs'[m] = pairs[m]
  BY <1>a DEF With, Pair
<1> USE DEF adapterVars, callVars, solverVars
<1>13. HeapInv'
  <2>1. \A t \in DOMAIN heap' : heap'[t].version \in Nat
    BY <1>3, <1>8, <1>9 DEF HeapInv
  <2> QED BY <1>1, <1>3, <1>8, <2>1 DEF HeapInv, Lazy
<1>14. CacheInv'
  BY <1>1, <1>3, LazyReuses DEF CacheInv, Reuse
<1>15. SolvingInv'
  <2>1. Known' = Known
    BY <1>1 DEF Known
  <2>2. \A m \in Known : spectra[m] \in DOMAIN heap'
                         /\ heap'[spectra[m]] = heap[spectra[m]]
    BY <1>1, <1>3, <1>5, <1>8 DEF SolvingInv, Held
  <2>3. \A m \in DOMAIN physicals' : /\ physicals'[m].kind = "physical"
                                     /\ physicals'[m].name = m
                                     /\ Held(physicals[m])'
    BY <1>1, <1>3, <1>5, <1>8, <1>11 DEF SolvingInv, Held
  <2>4. ASSUME NEW m \in DOMAIN pairs' PROVE GoodPair(m, pairs[m])'
    <3>1. CASE m = n
      <4> DEFINE r == pairs'[n]
      <4>1. /\ r.physical = p /\ r.physicalVersion = heap'[p].version
            /\ r.spectral = q /\ r.spectralVersion = heap'[q].version
        BY <1>12
      <4>2. heap'[p].version \in Nat /\ heap'[q].version \in Nat
        BY <1>3, <1>6, <1>9, <1>10 DEF HeapInv, Held
      <4>3. /\ p \in DOMAIN heap' /\ p # Temp
            /\ q \in DOMAIN heap' /\ q # Temp
        BY <1>5, <1>6, <1>8, <1>10 DEF Held
      <4> HIDE DEF r
      <4>4. pairs'[m] = r
        BY <3>1 DEF r
      <4> QED
        BY <1>5, <1>6, <1>9, <1>10, <3>1, <4>1, <4>2, <4>3, <4>4
        DEF GoodPair, Held
    <3>2. CASE m # n
      <4>1. m \in DOMAIN pairs /\ pairs'[m] = pairs[m]
        BY <1>12, <3>2
      <4>2. GoodPair(m, pairs[m])
        BY <1>1, <1>3, <4>1 DEF SolvingInv
      <4>3. pairs[m].physical # p /\ pairs[m].spectral # p
        BY <1>5, <3>2, <4>2 DEF GoodPair
      <4>4. GoodPair(m, pairs[m])' \/ pairs'[m] # pairs[m]
        BY <1>8, <4>1, <4>2, <4>3 DEF GoodPair, Held, Unchanged
      <4> QED BY <4>1, <4>4
    <3> QED BY <3>1, <3>2
  <2>5. \A m \in Known : Held(spectra[m])'
    BY <1>1, <1>3, <2>2 DEF SolvingInv, Held
  <2> QED
    BY <1>1, <1>3, <1>4, <1>11, <1>12, <2>1, <2>3, <2>4, <2>5
    DEF SolvingInv, Lazy
<1>16. EpochInv'
  <2> SUFFICES ASSUME writes = 0 PROVE EpochInv'
    BY <1>1 DEF EpochInv
  <2>1. \A t \in Fields : t \in DOMAIN heap /\ t # p
    BY <1>3, <1>5 DEF HeapInv
  <2>2. \A t \in Fields : EpochOf(t)' = epoch
    BY <1>3, <1>8, <2>1 DEF EpochInv, EpochOf
  <2>3. EpochOf(q) = epoch
    BY <1>1, <1>3, <1>6 DEF EpochInv
  <2>4. \A t : Held(t)' => EpochOf(t)' = epoch
    BY <1>1, <1>3, <1>8, <1>9, <2>3 DEF EpochInv, EpochOf, Held
  <2>5. transients # "view"
    BY <1>1, <1>3 DEF CacheInv
  <2> QED BY <1>1, <1>3, <2>2, <2>4, <2>5 DEF EpochInv
<1>17. ViewInv'
  BY <1>1, <1>3 DEF CacheInv, ViewInv
<1>18. CallInv' /\ RhsReadsItsState'
  BY <1>1, <1>3 DEF CallInv, AdapterSet, RhsReadsItsState
<1>19. ServedTransformsAreExact'
  BY <1>a, <1>9 DEF ServedTransformsAreExact
<1> QED BY <1>13, <1>14, <1>15, <1>16, <1>17, <1>18, <1>19
        DEF RepresentationInv

\* A solver writes into a tensor: no pair with it is good any more.
LEMMA WriteInv ==
    ASSUME RepresentationInv, WriteInPlace PROVE RepresentationInv'
<1>1. /\ evaluating = "solving" /\ writes' = writes + 1
      /\ UNCHANGED <<physicals, spectra, reuseVars, adapterVars, callVars,
                     solverVars, served, seen, unpublished, faults, mode>>
  BY DEF WriteInPlace
<1>2. PICK t, x : /\ heap' = [heap EXCEPT ![t] = x]
                   /\ x.version = heap[t].version + 1
  <2>1. PICK t, c : heap' = [heap EXCEPT ![t] =
                               [version |-> heap[t].version + 1, content |-> c]]
    BY DEF WriteInPlace
  <2> DEFINE x == [version |-> heap[t].version + 1, content |-> c]
  <2>2. x.version = heap[t].version + 1
    OBVIOUS
  <2> QED BY <2>1, <2>2
<1>3. /\ HeapInv /\ CacheInv /\ SolvingInv /\ CallInv
      /\ ServedTransformsAreExact
  BY DEF RepresentationInv
<1>4. /\ DOMAIN heap' = DOMAIN heap
      /\ \A u \in DOMAIN heap : u # t => heap'[u] = heap[u]
      /\ t \in DOMAIN heap => heap'[t].version = heap[t].version + 1
  BY <1>2
<1> USE DEF adapterVars, callVars, solverVars, reuseVars
<1>5. HeapInv'
  <2>1. \A u \in DOMAIN heap' : heap'[u].version \in Nat
    BY <1>3, <1>4 DEF HeapInv
  <2> QED BY <1>1, <1>3, <1>4, <2>1 DEF HeapInv, Lazy
<1>6. CacheInv' /\ CallInv' /\ ServedTransformsAreExact' /\ RhsReadsItsState'
  BY <1>1, <1>3 DEF CacheInv, CallInv, AdapterSet, ServedTransformsAreExact,
                    RhsReadsItsState, Reuse
<1>7. SolvingInv'
  <2>1. ASSUME NEW n \in DOMAIN pairs PROVE GoodPair(n, pairs[n])'
    <3>1. GoodPair(n, pairs[n])
      BY <1>1, <1>3 DEF SolvingInv
    <3>2. \A u \in DOMAIN heap : /\ heap[u].version \in Nat
                                 /\ heap'[u].version \in Nat
                                 /\ heap[u].version <= heap'[u].version
                                 /\ heap'[u].version = heap[u].version =>
                                       heap'[u] = heap[u]
      BY <1>3, <1>4 DEF HeapInv
    <3> DEFINE r == pairs[n]
    <3>3. pairs'[n] = r
      BY <1>1
    <3> HIDE DEF r
    <3>4. r.physical \in DOMAIN heap /\ r.spectral \in DOMAIN heap
          /\ r.physicalVersion \in Nat /\ r.spectralVersion \in Nat
          /\ r.physicalVersion <= heap[r.physical].version
          /\ r.spectralVersion <= heap[r.spectral].version
      BY <3>1 DEF GoodPair, Held, r
    <3>5. /\ r.physicalVersion <= heap'[r.physical].version
          /\ r.spectralVersion <= heap'[r.spectral].version
          /\ heap'[r.physical].version = r.physicalVersion =>
                heap'[r.physical] = heap[r.physical]
          /\ heap'[r.spectral].version = r.spectralVersion =>
                heap'[r.spectral] = heap[r.spectral]
      BY <3>2, <3>4
    <3>6. GoodPair(n, r)'
      BY <1>4, <3>1, <3>3, <3>4, <3>5 DEF GoodPair, Held, Unchanged, r
    <3> QED BY <3>3, <3>6 DEF r
  <2>2. Known' = Known
    BY <1>1 DEF Known
  <2> QED BY <1>1, <1>3, <1>4, <2>1, <2>2 DEF SolvingInv, Held, Lazy
<1>8. EpochInv'
  BY <1>1, <1>3 DEF EpochInv, HeapInv
<1>9. ViewInv'
  BY <1>1, <1>3 DEF CacheInv, ViewInv
<1> QED BY <1>5, <1>6, <1>7, <1>8, <1>9 DEF RepresentationInv

\* A system is solved from tensors of the present evolved state.
LEMMA ComputedNow ==
    ASSUME RepresentationInv, evaluating = "solving", turn <= Len(Outputs),
           writes = 0, NEW source \in [Reads[Outputs[turn]] -> DOMAIN heap],
           \A d \in Reads[Outputs[turn]] : source[d] \in Sources(d)
    PROVE  Computed({EpochOf(source[d]) : d \in Reads[Outputs[turn]]}) = epoch
<1>1. turn \in Nat \ {0} /\ SolvingInv /\ EpochInv
  BY DEF RepresentationInv, HeapInv
<1>2. \A d \in Reads[Outputs[turn]] : Held(source[d])
  <2> SUFFICES ASSUME NEW d \in Reads[Outputs[turn]] PROVE Held(source[d])
    OBVIOUS
  <2>1. d \in Known
    BY <1>1, SystemsInOrder
  <2>2. source[d] = spectra[d] \/ (d \in DOMAIN physicals /\ source[d] = physicals[d])
    BY DEF Sources
  <2> QED BY <1>1, <2>1, <2>2 DEF SolvingInv
<1>3. \A d \in Reads[Outputs[turn]] : EpochOf(source[d]) = epoch
  BY <1>1, <1>2 DEF EpochInv
<1> QED BY <1>3 DEF Computed

LEMMA SolveInv ==
    ASSUME RepresentationInv, SolveSystem PROVE RepresentationInv'
<1>0. PICK n, s, p : /\ n = Outputs[turn]
                     /\ s = Tensor(n, "spectral", generation + 1)
                     /\ p = Tensor(n, "physical", generation + 1)
  OBVIOUS
<1>1. /\ evaluating = "solving" /\ turn <= Len(Outputs) /\ turn' = turn + 1
      /\ served' = <<>>
      /\ UNCHANGED <<open, adapterVars, evaluating, purpose, solverVars, seen,
                     unpublished, writes, faults, mode>>
  BY DEF SolveSystem
<1> DEFINE Solved(from, e) ==
         /\ \A d \in Reads[n] : from[d] \in Sources(d)
         /\ e = Computed({EpochOf(from[d]) : d \in Reads[n]})
         /\ LET made == With(heap, s, Fresh([of |-> n, epoch |-> e]))
            IN /\ spectra' = With(spectra, n, s)
               /\ IF Lazy \/ ~NeedsPhysical(n)
                  THEN /\ physicals' = Without(physicals, n)
                       /\ heap' = made /\ UNCHANGED pairs
                  ELSE /\ physicals' = With(physicals, n, p)
                       /\ heap' = With(made, p, made[s])
                       /\ pairs' = IF Reuse
                                   THEN With(pairs, n, Pair(heap', p, s))
                                   ELSE pairs
<1>s. PICK source \in [Reads[n] -> DOMAIN heap] : \E e : Solved(source, e)
  BY <1>0 DEF SolveSystem
<1>2. PICK e : Solved(source, e)
  BY <1>s
<1>3. /\ HeapInv /\ CacheInv /\ EpochInv /\ CallInv /\ SolvingInv
      /\ turn \in Nat \ {0} /\ generation + 1 \in Nat \ {0}
      /\ DOMAIN spectra = Known /\ DOMAIN physicals \subseteq Known
      /\ DOMAIN pairs \subseteq Known
  BY <1>1 DEF RepresentationInv, HeapInv, SolvingInv
<1>4. n \in Produced /\ n \notin Known /\ n # "temp"
  BY <1>0, <1>1, <1>3, SystemsInOrder
<1>5. writes = 0 => e = epoch
  BY <1>0, <1>1, <1>2, ComputedNow
<1>6. /\ p \notin Fields /\ p # Temp /\ p.name = n /\ p.kind = "physical"
      /\ s \notin Fields /\ s # Temp /\ s.name = n /\ s.kind = "spectral"
  BY <1>0, <1>3, <1>4, MadeApart, TensorsApart
<1>7. Known' = Known \cup {n}
  BY <1>0, <1>1, <1>3 DEF Known
<1>a. /\ Len(Outputs) \in Nat /\ (n \in Transient => NeedsPhysical(n))
  BY RepresentationAssumption DEF NeedsPhysical
<1> DEFINE c == [of |-> n, epoch |-> e]
           made == With(heap, s, Fresh(c))
<1>8. c.epoch = e
  OBVIOUS
<1>9. /\ spectra' = With(spectra, n, s)
      /\ \/ /\ Lazy \/ n \notin Transient
            /\ physicals' = Without(physicals, n)
            /\ heap' = made /\ UNCHANGED pairs
         \/ /\ ~Lazy /\ physicals' = With(physicals, n, p)
            /\ heap' = With(made, p, made[s])
            /\ pairs' = IF Reuse THEN With(pairs, n, Pair(heap', p, s))
                        ELSE pairs
  BY <1>2, <1>a
<1> HIDE DEF c
<1>10. /\ DOMAIN made = DOMAIN heap \cup {s} /\ made[s] = Fresh(c)
       /\ \A t \in DOMAIN heap : t # s => made[t] = heap[t]
  BY DEF With
<1>11. Fresh(c).version = 0 /\ Fresh(c).content = c
  BY DEF Fresh
<1> HIDE DEF made
<1>12. /\ DOMAIN spectra' = Known \cup {n} /\ spectra'[n] = s
       /\ \A m \in Known : spectra'[m] = spectra[m]
  BY <1>3, <1>4, <1>9 DEF With
\* The heap gains the new tensors, which no known component has.
<1>13. /\ DOMAIN heap \cup {s} \subseteq DOMAIN heap'
       /\ DOMAIN heap' \subseteq DOMAIN heap \cup {s, p}
       /\ heap'[s] = Fresh(c) /\ (p \in DOMAIN heap' /\ p \notin DOMAIN heap =>
                                     heap'[p] = Fresh(c))
       /\ \A t \in DOMAIN heap : t # s /\ t # p => heap'[t] = heap[t]
       /\ \A t \in DOMAIN heap' :
             heap'[t] = Fresh(c) \/ (t \in DOMAIN heap /\ heap'[t] = heap[t])
  <2>1. s # p
    BY <1>6
  <2>2. CASE heap' = made
    BY <1>10, <2>1, <2>2
  <2>3. CASE heap' = With(made, p, made[s])
    <3>1. /\ DOMAIN heap' = DOMAIN made \cup {p} /\ heap'[p] = Fresh(c)
          /\ \A t \in DOMAIN made : t # p => heap'[t] = made[t]
      BY <1>10, <2>3 DEF With
    <3> QED BY <1>10, <2>1, <3>1
  <2> QED BY <1>9, <2>2, <2>3
<1>14. /\ DOMAIN physicals' \subseteq Known \cup {n}
       /\ \A m \in DOMAIN physicals' : m # n =>
             m \in DOMAIN physicals /\ physicals'[m] = physicals[m]
       /\ \A m \in DOMAIN physicals : m \in DOMAIN physicals'
       /\ n \in DOMAIN physicals' =>
             physicals'[n] = p /\ p \in DOMAIN heap'
       /\ ~Lazy /\ n \in Transient => n \in DOMAIN physicals'
  <2>1. CASE (Lazy \/ n \notin Transient) /\ physicals' = Without(physicals, n)
    BY <1>3, <1>4, <2>1 DEF Without
  <2>2. CASE physicals' = With(physicals, n, p) /\ heap' = With(made, p, made[s])
    BY <1>3, <1>4, <2>2 DEF With
  <2> QED BY <1>9, <2>1, <2>2
<1> USE DEF adapterVars, solverVars
<1>15. HeapInv'
  <2>1. \A t \in DOMAIN heap' : heap'[t].version \in Nat
    BY <1>3, <1>11, <1>13 DEF HeapInv
  <2> QED BY <1>1, <1>3, <1>13, <2>1 DEF HeapInv, Lazy
<1>16. CacheInv'
  BY <1>1, <1>3, <1>9, LazyReuses DEF CacheInv, Reuse
<1>17. SolvingInv'
  <2>1. ASSUME NEW m, NEW t, m \in Known, t.name = m, Held(t)
        PROVE  heap'[t] = heap[t] /\ t \in DOMAIN heap' /\ t # Temp
    BY <1>4, <1>6, <1>13, <2>1 DEF Held
  <2>2. \A m \in Known' : /\ spectra'[m].kind = "spectral"
                          /\ spectra'[m].name = m /\ Held(spectra[m])'
    <3>1. s \in DOMAIN heap' /\ s # Temp
      BY <1>6, <1>13
    <3> QED BY <1>1, <1>3, <1>6, <1>7, <1>12, <2>1, <3>1 DEF SolvingInv, Held
  <2>3. \A m \in DOMAIN physicals' : /\ physicals'[m].kind = "physical"
                                     /\ physicals'[m].name = m
                                     /\ Held(physicals[m])'
    <3> QED BY <1>1, <1>3, <1>6, <1>14, <2>1 DEF SolvingInv, Held
  <2>4. ASSUME NEW m \in DOMAIN pairs PROVE GoodPair(m, pairs[m])'
                                            \/ pairs'[m] # pairs[m]
    <3>1. GoodPair(m, pairs[m]) /\ m \in Known
      BY <1>1, <1>3 DEF SolvingInv
    <3>2. /\ heap'[pairs[m].physical] = heap[pairs[m].physical]
          /\ heap'[pairs[m].spectral] = heap[pairs[m].spectral]
          /\ pairs[m].physical \in DOMAIN heap'
          /\ pairs[m].spectral \in DOMAIN heap'
      BY <2>1, <3>1 DEF GoodPair, Held
    <3> QED BY <3>1, <3>2 DEF GoodPair, Held, Unchanged
  <2>5. DOMAIN pairs' \subseteq Known'
        /\ \A m \in DOMAIN pairs' : GoodPair(m, pairs[m])'
    <3>1. CASE pairs' = pairs
      BY <1>3, <1>7, <2>4, <3>1
    <3>2. CASE /\ pairs' = With(pairs, n, Pair(heap', p, s))
               /\ heap' = With(made, p, made[s])
      <4>1. heap'[p] = Fresh(c) /\ p \in DOMAIN heap'
        BY <1>10, <3>2 DEF With
      <4>2. /\ DOMAIN pairs' = DOMAIN pairs \cup {n}
            /\ pairs'[n] = Pair(heap', p, s)
            /\ \A m \in DOMAIN pairs : pairs'[m] = pairs[m]
        BY <1>3, <1>4, <3>2 DEF With
      <4> DEFINE r == pairs'[n]
      <4>3. /\ r.physical = p /\ r.physicalVersion = 0
            /\ r.spectral = s /\ r.spectralVersion = 0
        BY <1>11, <1>13, <4>1, <4>2 DEF Pair
      <4> HIDE DEF r
      <4>4. pairs'[n] = r
        BY DEF r
      <4>5. GoodPair(n, pairs[n])'
        BY <1>6, <1>11, <1>13, <4>1, <4>3, <4>4 DEF GoodPair, Held
      <4> QED BY <1>3, <1>7, <2>4, <4>2, <4>5
    <3> QED BY <1>9, <3>1, <3>2
  <2>6. turn' <= Len(Outputs) + 1
    BY <1>1, <1>3, <1>a
  <2>7. ASSUME ~Lazy, NEW i \in 1..turn' - 1, Outputs[i] \in Transient
        PROVE  Outputs[i] \in DOMAIN physicals'
    <3>1. CASE i = turn
      BY <1>0, <1>14, <2>7, <3>1
    <3>2. CASE i # turn
      <4>1. i \in 1..turn - 1
        BY <1>1, <1>3, <3>2
      <4>2. Outputs[i] \in DOMAIN physicals
        BY <1>1, <1>3, <2>7, <4>1 DEF SolvingInv
      <4> QED BY <1>14, <4>2
    <3> QED BY <3>1, <3>2
  <2>8. Lazy' <=> Lazy
    BY <1>1 DEF Lazy
  <2>9. DOMAIN spectra' = Known' /\ DOMAIN physicals' \subseteq Known'
    BY <1>7, <1>12, <1>14
  <2> QED
    BY <2>2, <2>3, <2>5, <2>6, <2>7, <2>8, <2>9 DEF SolvingInv
<1>18. EpochInv'
  <2> SUFFICES ASSUME writes = 0 PROVE EpochInv'
    BY <1>1 DEF EpochInv
  <2>1. Fresh(c).content.epoch = epoch
    BY <1>5, <1>8, <1>11
  <2>2. \A t \in Fields : EpochOf(t)' = epoch
    BY <1>3, <1>6, <1>13 DEF EpochInv, EpochOf, HeapInv
  <2>3. \A t : Held(t)' => EpochOf(t)' = epoch
    BY <1>1, <1>3, <1>13, <2>1 DEF EpochInv, EpochOf, Held
  <2>4. transients # "view"
    BY <1>1, <1>3 DEF CacheInv
  <2> QED BY <1>1, <1>3, <2>2, <2>3, <2>4 DEF EpochInv
<1>19. ViewInv'
  BY <1>1, <1>3 DEF CacheInv, ViewInv
<1>20. CallInv' /\ RhsReadsItsState' /\ ServedTransformsAreExact'
  BY <1>1, <1>3 DEF CallInv, AdapterSet, RhsReadsItsState,
                    ServedTransformsAreExact
<1> QED BY <1>15, <1>16, <1>17, <1>18, <1>19, <1>20 DEF RepresentationInv

\* What is left of the heap when the tensors of an evaluation are dropped.
LEMMA PrunedInv ==
    ASSUME HeapInv, heap' = Pruned(heap), UNCHANGED <<turn, writes, mode>>
    PROVE  /\ Fields \cup {Temp} \subseteq DOMAIN heap'
           /\ \A t \in DOMAIN heap' : heap'[t].version \in Nat
           /\ \A t : ~Made(t)'
           /\ \A t \in Fields : EpochOf(t)' = EpochOf(t)
<1>1. DOMAIN heap' = Fields \cup {Temp}
      /\ \A t \in Fields \cup {Temp} : t \in DOMAIN heap /\ heap'[t] = heap[t]
  BY PrunedHeap DEF HeapInv
<1> QED BY <1>1 DEF HeapInv, Made, EpochOf

LEMMA FailEvaluationInv ==
    ASSUME RepresentationInv, FailEvaluation PROVE RepresentationInv'
<1>1. /\ evaluating = "solving" /\ evaluating' = "no" /\ open' = FALSE
      /\ pairs' = <<>> /\ physicals' = <<>> /\ spectra' = <<>>
      /\ heap' = Pruned(heap) /\ served' = <<>>
      /\ UNCHANGED <<lazyState, transients, mapped, generation, turn, purpose,
                     epoch, fresh, statics, models, torn, seen, unpublished,
                     writes, mode>>
  BY DEF FailEvaluation, adapterVars, solverVars
<1>2. HeapInv /\ CacheInv /\ EpochInv /\ CallInv /\ transients # "view"
  BY <1>1 DEF RepresentationInv, CacheInv
<1>3. HeapInv'
  BY <1>1, <1>2, PrunedInv DEF HeapInv, Lazy
<1>4. CacheInv' /\ SolvingInv' /\ ViewInv' /\ CallInv'
      /\ ServedTransformsAreExact' /\ RhsReadsItsState'
  BY <1>1, <1>2 DEF CacheInv, SolvingInv, ViewInv, CallInv, AdapterSet,
                    ServedTransformsAreExact, RhsReadsItsState
<1>5. EpochInv'
  BY <1>1, <1>2, PrunedInv DEF EpochInv
<1> QED BY <1>3, <1>4, <1>5 DEF RepresentationInv

\* What a complete evaluation hands over.
LEMMA ForwardedInv ==
    ASSUME RepresentationInv, evaluating = "solving", turn > Len(Outputs),
           Forwarded, evaluating' \in {"no", "rhs"},
           UNCHANGED <<turn, writes, mode, epoch, unpublished>>
    PROVE  /\ HeapInv' /\ ViewInv' /\ CacheInv' /\ SolvingInv'
           /\ writes = 0 =>
                /\ \A t \in Fields : EpochOf(t)' = epoch
                /\ \A t : Made(t)' => EpochOf(t)' = epoch
                /\ ~Lazy => \A n \in Transient : mapped'[n] = epoch
                /\ \A m \in Stored : EpochOf(spectra[m]) = epoch
<1>1. /\ open' = FALSE /\ pairs' = <<>> /\ (lazyState' <=> Lazy)
      /\ transients' = (IF Lazy THEN "view" ELSE "mapping")
      /\ mapped' = [n \in Transient |->
                      IF Lazy THEN 0 ELSE EpochOf(physicals[n])]
      /\ generation' = generation + 1
      /\ \/ Lazy /\ UNCHANGED tensorVars
         \/ /\ ~Lazy /\ physicals' = <<>> /\ spectra' = <<>>
            /\ heap' = Pruned(heap)
  BY DEF Forwarded
<1>2. /\ HeapInv /\ CacheInv /\ SolvingInv /\ EpochInv
      /\ turn = Len(Outputs) + 1 /\ turn \in Nat \ {0}
  <2>1. Len(Outputs) \in Nat
    BY RepresentationAssumption
  <2> QED BY <2>1 DEF RepresentationInv, HeapInv, SolvingInv
<1>3. Known = Evolved \cup Produced
  BY <1>2, AllKnown
<1>4. Transient \subseteq Known /\ Stored \subseteq Known
      /\ Transient \cap Evolved = {}
  BY <1>3, RepresentationAssumption DEF Transient
<1>5. Lazy' <=> Lazy
  BY DEF Lazy
<1>6. /\ Fields \cup {Temp} \subseteq DOMAIN heap'
      /\ \A t \in DOMAIN heap' : heap'[t].version \in Nat
      /\ \A t \in Fields : EpochOf(t)' = EpochOf(t)
      /\ \A t : Made(t)' => Lazy /\ Held(t) /\ EpochOf(t)' = EpochOf(t)
  <2>1. CASE Lazy /\ UNCHANGED tensorVars
    BY <1>2, <2>1 DEF HeapInv, EpochOf, Made, Held, tensorVars
  <2>2. CASE heap' = Pruned(heap)
    BY <1>2, <2>2, PrunedInv
  <2> QED BY <1>1, <2>1, <2>2
<1>7. HeapInv'
  <2>1. generation' \in Nat \ {0}
    BY <1>1, <1>2 DEF HeapInv
  <2>2. transients' \in {"none", IF Lazy THEN "view" ELSE "mapping"}
        /\ (lazyState' <=> transients' = "view")
    BY <1>1
  <2> QED BY <1>2, <1>5, <1>6, <2>1, <2>2 DEF HeapInv
<1>8. CacheInv' /\ SolvingInv'
  BY <1>1, <1>2 DEF CacheInv, SolvingInv
<1>9. ViewInv'
  <2> SUFFICES ASSUME Lazy PROVE ViewInv'
    BY <1>1 DEF ViewInv
  <2>1. UNCHANGED <<heap, physicals, spectra>>
    BY <1>1 DEF tensorVars
  <2>2. \A n \in Transient : n \in DOMAIN spectra /\ Held(spectra[n])
                             /\ spectra[n].name = n
    BY <1>2, <1>4 DEF SolvingInv
  <2>3. \A n \in DOMAIN physicals : Held(physicals[n]) /\ physicals[n].name = n
    BY <1>2 DEF SolvingInv
  <2> QED
    BY <1>4, <2>1, <2>2, <2>3, TensorsApart DEF ViewInv, Made, Held
<1>10. ASSUME writes = 0
       PROVE  /\ \A t \in Fields : EpochOf(t)' = epoch
              /\ \A t : Made(t)' => EpochOf(t)' = epoch
              /\ ~Lazy => \A n \in Transient : mapped'[n] = epoch
              /\ \A m \in Stored : EpochOf(spectra[m]) = epoch
  <2>1. \A t : Held(t) => EpochOf(t) = epoch
    BY <1>2, <1>10 DEF EpochInv
  <2>2. \A t \in Fields : EpochOf(t) = epoch
    BY <1>2, <1>10 DEF EpochInv
  <2>3. ASSUME ~Lazy, NEW n \in Transient PROVE mapped'[n] = epoch
    <3>1. PICK i \in 1..Len(Outputs) : n = Outputs[i]
      BY <2>3 DEF Transient, Produced
    <3>2. i \in 1..turn - 1
      BY <1>2, RepresentationAssumption
    <3>3. n \in DOMAIN physicals
      BY <1>2, <2>3, <3>1, <3>2 DEF SolvingInv
    <3>4. EpochOf(physicals[n]) = epoch
      BY <1>2, <2>1, <3>3 DEF SolvingInv
    <3> QED BY <1>1, <2>3, <3>4
  <2>4. \A m \in Stored : EpochOf(spectra[m]) = epoch
    BY <1>2, <1>4, <2>1 DEF SolvingInv
  <2> QED BY <1>6, <2>1, <2>2, <2>3, <2>4
<1> QED BY <1>7, <1>8, <1>9, <1>10

LEMMA PublishInv ==
    ASSUME RepresentationInv, PublishOutputs PROVE RepresentationInv'
<1>1. /\ evaluating = "solving" /\ turn > Len(Outputs) /\ Forwarded
      /\ evaluating' = (IF purpose = "step" THEN "rhs" ELSE "no")
      /\ fresh' = (IF purpose \in {"restore", "reset"} THEN TRUE ELSE fresh)
      /\ models' = (IF purpose = "reset" THEN "both" ELSE models)
      /\ statics' = [n \in Stored |-> EpochOf(spectra[n])]
      /\ torn' = FALSE
      /\ UNCHANGED <<turn, purpose, epoch, served, seen, unpublished, writes,
                     mode>>
  BY DEF PublishOutputs, Continue, recordVars
<1>2. /\ HeapInv' /\ ViewInv' /\ CacheInv' /\ SolvingInv'
      /\ writes = 0 =>
            /\ \A t \in Fields : EpochOf(t)' = epoch
            /\ \A t : Made(t)' => EpochOf(t)' = epoch
            /\ ~Lazy => \A n \in Transient : mapped'[n] = epoch
            /\ \A m \in Stored : EpochOf(spectra[m]) = epoch
  BY <1>1, ForwardedInv
<1>3. \A m \in Stored : statics'[m] = EpochOf(spectra[m])
  BY <1>1
<1>4. transients' = "mapping" => ~Lazy
  BY <1>1 DEF Forwarded
<1>5. EpochInv'
  BY <1>1, <1>2, <1>3, <1>4 DEF EpochInv
<1>6. CallInv' /\ ServedTransformsAreExact' /\ RhsReadsItsState'
  BY <1>1 DEF RepresentationInv, CallInv, AdapterSet, ServedTransformsAreExact,
              RhsReadsItsState
<1> QED BY <1>2, <1>5, <1>6 DEF RepresentationInv

LEMMA FailPublicationInv ==
    ASSUME RepresentationInv, FailPublication PROVE RepresentationInv'
<1>1. /\ evaluating = "solving" /\ turn > Len(Outputs) /\ evaluating' = "no"
      /\ UNCHANGED <<turn, purpose, epoch, fresh, models, served, seen,
                     writes, mode>>
  BY DEF FailPublication
<1>2. CallInv' /\ ServedTransformsAreExact' /\ RhsReadsItsState'
  BY <1>1 DEF RepresentationInv, CallInv, AdapterSet, ServedTransformsAreExact,
              RhsReadsItsState
<1>3. CASE /\ unpublished' = Reuse /\ physicals' = <<>> /\ spectra' = <<>>
           /\ UNCHANGED heap
           /\ UNCHANGED <<reuseVars, adapterVars, statics, torn>>
  <2>1. HeapInv' /\ CacheInv'
    BY <1>1, <1>3 DEF RepresentationInv, HeapInv, CacheInv, Lazy, Reuse,
                      adapterVars, reuseVars
  <2>2. SolvingInv'
    BY <1>1 DEF SolvingInv
  <2>3. EpochInv' /\ ViewInv'
    BY <1>1, <1>3 DEF RepresentationInv, CacheInv, EpochInv, ViewInv, EpochOf,
                      adapterVars
  <2> QED BY <1>2, <2>1, <2>2, <2>3 DEF RepresentationInv
<1>4. CASE Forwarded /\ torn' = TRUE /\ UNCHANGED unpublished
  <2>1. /\ HeapInv' /\ ViewInv' /\ CacheInv' /\ SolvingInv'
        /\ writes = 0 => \A t \in Fields : EpochOf(t)' = epoch
    BY <1>1, <1>4, ForwardedInv
  <2>2. EpochInv'
    BY <1>1, <1>4, <2>1 DEF EpochInv
  <2> QED BY <1>2, <2>1, <2>2 DEF RepresentationInv
<1> QED BY <1>3, <1>4 DEF FailPublication

\* The right-hand side reads outputs of one evolved state, the present one.
LEMMA EvaluateRhsInv ==
    ASSUME RepresentationInv, EvaluateRhs PROVE RepresentationInv'
<1>1. /\ evaluating = "rhs"
      /\ UNCHANGED <<spectra, reuseVars, adapterVars, turn, purpose,
                     solverVars, served, unpublished, writes, mode>>
  BY DEF EvaluateRhs
<1>2. CASE /\ \/ evaluating' = "no"
              \/ evaluating' = "advance" /\ models # "both"
           /\ UNCHANGED <<seen, physicals, heap, faults>>
  BY <1>1, <1>2, QuietInv
  DEF tensorVars, solverVars, recordVars, RepresentationInv, CallInv, AdapterSet
<1> DEFINE missing == IF Lazy THEN Transient \ DOMAIN physicals ELSE {}
           made == [n \in missing |-> Tensor(n, "physical", generation)]
           new  == {made[n] : n \in missing}
<1>3. CASE /\ ~(models # "both" \/ (Transient # {} /\ transients = "none"))
           /\ physicals' = [n \in DOMAIN physicals \cup missing |->
                              IF n \in missing THEN made[n] ELSE physicals[n]]
           /\ heap' = [t \in DOMAIN heap \cup new |->
                         IF t \in DOMAIN heap THEN heap[t]
                         ELSE Fresh(heap[spectra[t.name]].content)]
           /\ \/ /\ evaluating' = "advance"
                 /\ seen' = {statics[n] : n \in Stored}
                      \cup {IF Lazy THEN heap'[physicals'[n]].content.epoch
                            ELSE mapped[n] : n \in Transient}
              \/ evaluating' = "no" /\ UNCHANGED seen
  <2>1. /\ HeapInv /\ CacheInv /\ EpochInv /\ ViewInv /\ CallInv
        /\ generation \in Nat \ {0} /\ models = "both"
        /\ evaluating' \in {"no", "advance"}
    BY <1>3 DEF RepresentationInv, HeapInv
  <2>2. \A n \in missing : /\ made[n].name = n /\ made[n] \notin Fields
                           /\ made[n] # Temp /\ n \in Transient
    <3>1. \A n \in missing : n \in Evolved \cup Produced
      BY DEF Transient
    <3> QED BY <2>1, <3>1, MadeApart, TensorsApart
  <2> HIDE DEF made
  <2>3. /\ DOMAIN heap' = DOMAIN heap \cup new
        /\ \A t \in DOMAIN heap : heap'[t] = heap[t]
        /\ \A t \in DOMAIN heap' : t \in DOMAIN heap
              \/ (t \in new /\ heap'[t] = Fresh(heap[spectra[t.name]].content))
    BY <1>3
  <2>4. /\ DOMAIN physicals' = DOMAIN physicals \cup missing
        /\ \A n \in missing : physicals'[n] = made[n]
        /\ \A n \in DOMAIN physicals : n \notin missing =>
              physicals'[n] = physicals[n]
    BY <1>3
  <2>5. \A c : Fresh(c).version = 0 /\ Fresh(c).content = c
    BY DEF Fresh
  <2> HIDE DEF missing, new
  <2> USE DEF adapterVars, reuseVars, solverVars
  <2>6. HeapInv'
    <3>1. \A t \in DOMAIN heap' : heap'[t].version \in Nat
      BY <2>1, <2>3, <2>5 DEF HeapInv
    <3>2. Fields \cup {Temp} \subseteq DOMAIN heap'
      BY <2>1, <2>3 DEF HeapInv
    <3> QED BY <1>1, <2>1, <3>1, <3>2 DEF HeapInv, Lazy
  <2>7. CacheInv' /\ SolvingInv' /\ CallInv' /\ ServedTransformsAreExact'
    BY <1>1, <2>1 DEF RepresentationInv, CacheInv, SolvingInv, CallInv,
                      AdapterSet, ServedTransformsAreExact, Reuse
  <2>8. ViewInv'
    <3> SUFFICES ASSUME transients = "view" PROVE ViewInv'
      BY <1>1 DEF ViewInv
    <3>1. \A n \in Transient : n \in DOMAIN spectra /\ Made(spectra[n])
      BY <2>1 DEF ViewInv
    <3>2. \A n \in Transient \cap DOMAIN physicals' :
             physicals'[n] \in DOMAIN heap' /\ physicals'[n] \notin Fields
             /\ physicals'[n] # Temp
      <4> SUFFICES ASSUME NEW n \in Transient \cap DOMAIN physicals'
                   PROVE  physicals'[n] \in DOMAIN heap'
                          /\ physicals'[n] \notin Fields
                          /\ physicals'[n] # Temp
        OBVIOUS
      <4>1. CASE n \in missing
        BY <2>2, <2>3, <2>4, <4>1 DEF new
      <4>2. CASE n \notin missing
        BY <2>1, <2>3, <2>4, <4>2 DEF ViewInv, Made
      <4> QED BY <4>1, <4>2
    <3> QED BY <1>1, <2>3, <3>1, <3>2 DEF ViewInv, Made
  <2>9. ASSUME writes = 0, ~torn, transients = "view"
        PROVE  \A t, m : Made(t)' /\ m \in Stored => EpochOf(t)' = statics[m]
    <3> SUFFICES ASSUME NEW t, NEW m, Made(t)', m \in Stored
                 PROVE  heap'[t].content.epoch = statics[m]
      BY DEF EpochOf
    <3>1. \A u : Made(u) => EpochOf(u) = statics[m]
      BY <2>1, <2>9 DEF EpochInv
    <3>2. t \in DOMAIN heap' /\ t \notin Fields /\ t # Temp
      BY DEF Made
    <3>3. CASE t \in DOMAIN heap
      BY <2>3, <3>1, <3>2, <3>3 DEF Made, EpochOf
    <3>4. CASE t \notin DOMAIN heap
      <4>1. t \in new /\ heap'[t].content = heap[spectra[t.name]].content
        BY <2>3, <2>5, <3>2, <3>4
      <4>2. t.name \in Transient
        BY <2>2, <4>1 DEF new
      <4>3. Made(spectra[t.name])
        BY <2>1, <2>9, <4>2 DEF ViewInv
      <4> QED BY <3>1, <4>1, <4>3 DEF EpochOf
    <3> QED BY <3>3, <3>4
  <2>10. EpochInv'
    <3> SUFFICES ASSUME writes = 0 PROVE EpochInv'
      BY <1>1 DEF EpochInv
    <3>1. \A t \in Fields : EpochOf(t)' = epoch
      BY <2>1, <2>3 DEF EpochInv, HeapInv, EpochOf
    <3> QED BY <1>1, <2>1, <2>9, <3>1 DEF EpochInv
  <2>11. RhsReadsItsState'
    <3> SUFFICES ASSUME evaluating' = "advance", ~torn, writes = 0
                 PROVE  seen' = {epoch}
      BY <1>1 DEF RhsReadsItsState
    <3>1. \A m \in Stored : statics[m] = epoch
      BY <1>1, <2>1 DEF EpochInv
    <3>2. ASSUME NEW n \in Transient
          PROVE  (IF Lazy THEN heap'[physicals'[n]].content.epoch
                  ELSE mapped[n]) = epoch
      <4>0. PICK m \in Stored : TRUE
        BY RepresentationAssumption
      <4>1. transients = IF Lazy THEN "view" ELSE "mapping"
        BY <1>3, <2>1, <3>2 DEF HeapInv
      <4>2. CASE ~Lazy
        BY <2>1, <3>1, <3>2, <4>0, <4>1, <4>2 DEF EpochInv
      <4>3. CASE Lazy
        <5>1. n \in DOMAIN physicals'
          BY <2>4, <3>2, <4>3 DEF missing
        <5>2. Made(physicals[n])'
          BY <1>1, <2>8, <3>2, <4>1, <4>3, <5>1 DEF ViewInv
        <5>3. EpochOf(physicals[n])' = statics[m]
          BY <2>9, <4>0, <4>1, <4>3, <5>2
        <5> QED BY <3>1, <4>0, <4>3, <5>3 DEF EpochOf
      <4> QED BY <4>2, <4>3
    <3>3. seen' = {statics[n] : n \in Stored}
                  \cup {IF Lazy THEN heap'[physicals'[n]].content.epoch
                        ELSE mapped[n] : n \in Transient}
      BY <1>3
    <3>4. Stored # {}
      BY RepresentationAssumption
    <3> QED BY <3>1, <3>2, <3>3, <3>4
  <2> QED BY <2>6, <2>7, <2>8, <2>10, <2>11 DEF RepresentationInv
<1> QED
  <2>1. \/ /\ evaluating' = (IF models \in {"zero", "static"} THEN "advance"
                            ELSE "no")
           /\ UNCHANGED <<seen, physicals, heap, faults>>
        \/ /\ ~(models # "both" \/ (Transient # {} /\ transients = "none"))
           /\ physicals' = [n \in DOMAIN physicals \cup missing |->
                              IF n \in missing THEN made[n] ELSE physicals[n]]
           /\ heap' = [t \in DOMAIN heap \cup new |->
                         IF t \in DOMAIN heap THEN heap[t]
                         ELSE Fresh(heap[spectra[t.name]].content)]
           /\ \/ /\ evaluating' = "advance"
                 /\ seen' = {statics[n] : n \in Stored}
                      \cup {IF Lazy THEN heap'[physicals'[n]].content.epoch
                            ELSE mapped[n] : n \in Transient}
              \/ evaluating' = "no" /\ UNCHANGED seen
    BY Zenon DEF EvaluateRhs
  <2>2. models \in {"zero", "static"} => models # "both"
    OBVIOUS
  <2> QED BY <1>2, <1>3, <2>1, <2>2

\* The evolved fields after they are overwritten.
LEMMA OverwrittenHeap ==
    ASSUME HeapInv, NEW e
    PROVE  /\ DOMAIN Overwritten(e) = DOMAIN heap
           /\ \A t \in Fields : /\ Overwritten(e)[t].content.epoch = e
                                /\ Overwritten(e)[t].version \in Nat
           /\ \A t \in DOMAIN heap : t \notin Fields =>
                 Overwritten(e)[t] = heap[t]
<1>1. DOMAIN Overwritten(e) = DOMAIN heap
  BY DEF Overwritten
<1>2. \A t \in DOMAIN heap : t \notin Fields => Overwritten(e)[t] = heap[t]
  BY DEF Overwritten
<1>3. ASSUME NEW t \in Fields
      PROVE  /\ Overwritten(e)[t].content.epoch = e
             /\ Overwritten(e)[t].version \in Nat
  <2>1. t \in DOMAIN heap /\ heap[t].version + 1 \in Nat
    BY DEF HeapInv
  <2> DEFINE c == [of |-> t.name, epoch |-> e]
  <2>2. Overwritten(e)[t] = [version |-> heap[t].version + 1, content |-> c]
    BY <2>1 DEF Overwritten
  <2>3. c.epoch = e
    OBVIOUS
  <2> HIDE DEF c
  <2> QED BY <2>1, <2>2, <2>3
<1> QED BY <1>1, <1>2, <1>3

LEMMA AdvanceInv ==
    ASSUME RepresentationInv, AdvanceState PROVE RepresentationInv'
<1>1. /\ evaluating = "advance" /\ evaluating' = "no"
      /\ heap' = Overwritten(epoch')
      /\ UNCHANGED <<physicals, spectra, reuseVars, adapterVars, turn, purpose,
                     fresh, statics, models, torn, served, unpublished, writes,
                     mode>>
  BY DEF AdvanceState
<1>2. HeapInv /\ CacheInv /\ EpochInv /\ ViewInv /\ CallInv
  BY DEF RepresentationInv
<1>3. /\ DOMAIN heap' = DOMAIN heap
      /\ \A t \in Fields : EpochOf(t)' = epoch' /\ heap'[t].version \in Nat
      /\ \A t \in DOMAIN heap : t \notin Fields => heap'[t] = heap[t]
  BY <1>1, <1>2, OverwrittenHeap DEF EpochOf
<1> USE DEF reuseVars, adapterVars
<1>4. HeapInv'
  <2>1. \A t \in DOMAIN heap' : heap'[t].version \in Nat
    BY <1>2, <1>3 DEF HeapInv
  <2> QED BY <1>1, <1>2, <1>3, <2>1 DEF HeapInv, Lazy
<1>5. CacheInv' /\ SolvingInv' /\ CallInv' /\ RhsReadsItsState'
      /\ ServedTransformsAreExact'
  BY <1>1, <1>2 DEF RepresentationInv, CacheInv, SolvingInv, CallInv,
                    AdapterSet, RhsReadsItsState, ServedTransformsAreExact,
                    Reuse
<1>6. \A t : Made(t)' => Made(t) /\ EpochOf(t)' = EpochOf(t)
  BY <1>3 DEF Made, EpochOf
<1>7. ViewInv'
  BY <1>1, <1>2, <1>3 DEF ViewInv, Made
<1>8. EpochInv'
  BY <1>1, <1>2, <1>3, <1>6 DEF EpochInv, CallInv, AdapterSet
<1> QED BY <1>4, <1>5, <1>7, <1>8 DEF RepresentationInv

\* The outputs are cleared and the fields new.
LEMMA ClearedInv ==
    ASSUME RepresentationInv, ClearCachedOutputs,
           heap' = Pruned(heap) \/ heap' = Pruned(Overwritten(epoch')),
           evaluating' \in {"no", "begin"}, UNCHANGED <<writes, mode, turn>>
    PROVE  /\ HeapInv' /\ CacheInv' /\ SolvingInv' /\ ViewInv'
           /\ heap' = Pruned(heap) =>
                 \A t \in Fields : EpochOf(t)' = EpochOf(t)
           /\ heap' = Pruned(Overwritten(epoch')) =>
                 \A t \in Fields : EpochOf(t)' = epoch'
           /\ transients' = "none"
<1>0. HeapInv
  BY DEF RepresentationInv
<1>1. /\ lazyState' = FALSE /\ transients' = "none" /\ generation' = generation
      /\ pairs' = <<>> /\ open' = FALSE /\ unpublished' = FALSE
  BY DEF ClearCachedOutputs
<1>2. /\ DOMAIN heap' = Fields \cup {Temp}
      /\ \A t \in Fields \cup {Temp} :
            heap'[t] = heap[t] \/ heap'[t] = Overwritten(epoch')[t]
  BY DEF Pruned
<1>3. \A t \in Fields \cup {Temp} : heap'[t].version \in Nat
  BY <1>0, <1>2, OverwrittenHeap, TensorsApart DEF HeapInv
<1>4. HeapInv'
  BY <1>0, <1>1, <1>2, <1>3 DEF HeapInv, Lazy
<1>5. CacheInv' /\ SolvingInv' /\ ViewInv'
  BY <1>1 DEF CacheInv, SolvingInv, ViewInv
<1>6. ASSUME heap' = Pruned(heap)
      PROVE  \A t \in Fields : EpochOf(t)' = EpochOf(t)
  BY <1>0, <1>6, PrunedHeap DEF EpochOf
<1>7. ASSUME heap' = Pruned(Overwritten(epoch'))
      PROVE  \A t \in Fields : EpochOf(t)' = epoch'
  <2>1. \A t \in Fields : heap'[t] = Overwritten(epoch')[t]
    BY <1>7 DEF Pruned
  <2> QED BY <1>0, <2>1, OverwrittenHeap DEF EpochOf
<1> QED BY <1>1, <1>4, <1>5, <1>6, <1>7

LEMMA RestoreInv ==
    ASSUME RepresentationInv, RestoreRuntime PROVE RepresentationInv'
<1>1. /\ evaluating = "no"
      /\ \/ torn' = TRUE /\ UNCHANGED fresh
         \/ models = "zero" /\ evaluating' = "no"
      /\ evaluating' \in {"no", "begin"}
      /\ evaluating' = "begin" => purpose' = "restore" /\ AdapterSet
      /\ UNCHANGED <<turn, models, served, seen, writes, mode>>
  BY DEF RestoreRuntime, Call, callVars, StoreZeros
<1>2. HeapInv /\ CacheInv /\ EpochInv /\ ViewInv /\ CallInv
  BY DEF RepresentationInv
<1>3. RhsReadsItsState' /\ ServedTransformsAreExact'
  BY <1>1, <1>2 DEF RepresentationInv, RhsReadsItsState,
                    ServedTransformsAreExact
<1>4. CASE /\ heap' = Overwritten(epoch') /\ torn' = TRUE
           /\ UNCHANGED <<physicals, spectra, reuseVars, adapterVars, callVars,
                          unpublished>>
  <2>1. /\ DOMAIN heap' = DOMAIN heap
        /\ \A t \in Fields : EpochOf(t)' = epoch' /\ heap'[t].version \in Nat
        /\ \A t \in DOMAIN heap : t \notin Fields => heap'[t] = heap[t]
    BY <1>2, <1>4, OverwrittenHeap DEF EpochOf
  <2> USE DEF reuseVars, adapterVars, callVars
  <2>2. HeapInv'
    <3>1. \A t \in DOMAIN heap' : heap'[t].version \in Nat
      BY <1>2, <2>1 DEF HeapInv
    <3> QED BY <1>1, <1>2, <1>4, <2>1, <3>1 DEF HeapInv, Lazy
  <2>3. CacheInv' /\ SolvingInv'
    BY <1>1, <1>2, <1>4 DEF CacheInv, SolvingInv, Reuse
  <2>4. ViewInv'
    BY <1>2, <1>4, <2>1 DEF ViewInv, Made
  <2>5. EpochInv'
    BY <1>1, <1>4, <2>1 DEF EpochInv
  <2>6. CallInv'
    BY <1>1, <1>2, <1>4 DEF CallInv, AdapterSet
  <2> QED BY <1>3, <2>2, <2>3, <2>4, <2>5, <2>6 DEF RepresentationInv
<1>5. CASE ClearCachedOutputs /\ heap' = Pruned(Overwritten(epoch'))
  <2>1. /\ HeapInv' /\ CacheInv' /\ SolvingInv' /\ ViewInv'
        /\ \A t \in Fields : EpochOf(t)' = epoch'
        /\ transients' = "none"
    BY <1>1, <1>5, ClearedInv
  <2>2. EpochInv'
    BY <1>1, <2>1 DEF EpochInv
  <2>3. CallInv'
    BY <1>1, <2>1 DEF CallInv, AdapterSet
  <2> QED BY <1>3, <2>1, <2>2, <2>3 DEF RepresentationInv
<1> QED BY <1>4, <1>5 DEF RestoreRuntime

LEMMA ResetInv ==
    ASSUME RepresentationInv, ResetRuntime PROVE RepresentationInv'
<1>1. /\ evaluating = "no" /\ ClearCachedOutputs
      /\ models' \in {"none", "zero", "static"}
      /\ \/ heap' = Pruned(heap) /\ UNCHANGED epoch
         \/ heap' = Pruned(Overwritten(epoch'))
      /\ \/ evaluating' = "no"
         \/ /\ evaluating' = "begin" /\ purpose' = "reset"
            /\ models' = "static"
      /\ UNCHANGED <<turn, fresh, torn, served, seen, writes, mode>>
  BY DEF ResetRuntime, Call, callVars
<1>2. /\ HeapInv' /\ CacheInv' /\ SolvingInv' /\ ViewInv'
      /\ writes = 0 => \A t \in Fields : EpochOf(t)' = epoch'
      /\ transients' = "none"
  <2>1. CASE heap' = Pruned(heap) /\ UNCHANGED epoch
    BY <1>1, <2>1, ClearedInv DEF RepresentationInv, EpochInv
  <2>2. CASE heap' = Pruned(Overwritten(epoch'))
    BY <1>1, <2>2, ClearedInv
  <2> QED BY <1>1, <2>1, <2>2
<1>3. EpochInv'
  BY <1>1, <1>2 DEF EpochInv
<1>4. CallInv' /\ RhsReadsItsState' /\ ServedTransformsAreExact'
  BY <1>1, <1>2 DEF RepresentationInv, CallInv, RhsReadsItsState,
                    ServedTransformsAreExact, AdapterSet
<1> QED BY <1>2, <1>3, <1>4 DEF RepresentationInv

LEMMA RepresentationInvStep ==
    RepresentationInv /\ [RepresentationNext]_representationVars
        => RepresentationInv'
<1>1. ASSUME RepresentationInv, RepresentationNext PROVE RepresentationInv'
  BY <1>1, BeginInv, MaterializeInv, AskTransformInv, WriteInv, SolveInv,
     FailEvaluationInv, PublishInv, FailPublicationInv, StepRuntimeInv,
     EvaluateRhsInv, AdvanceInv, SynchronizeInv, RestoreInv, ResetInv
  DEF RepresentationNext
<1>2. ASSUME RepresentationInv, UNCHANGED representationVars
      PROVE  RepresentationInv'
  <2> USE <1>2 DEF representationVars, tensorVars, reuseVars, adapterVars,
                   callVars, solverVars, recordVars
  <2>1. HeapInv' /\ CacheInv' /\ CallInv' /\ RhsReadsItsState'
        /\ ServedTransformsAreExact'
    BY DEF RepresentationInv, HeapInv, CacheInv, CallInv, AdapterSet,
           RhsReadsItsState, ServedTransformsAreExact, Lazy, Reuse
  <2>2. SolvingInv'
    BY DEF RepresentationInv, SolvingInv, Known, Held, GoodPair, Unchanged, Lazy
  <2>3. EpochInv' /\ ViewInv'
    BY DEF RepresentationInv, EpochInv, ViewInv, Made, Held, EpochOf
  <2> QED BY <2>1, <2>2, <2>3 DEF RepresentationInv
<1> QED BY <1>1, <1>2

LEMMA RepresentationAlways == RepresentationSpec => []RepresentationInv
BY RepresentationInitInv, RepresentationInvStep, PTL DEF RepresentationSpec

----------------------------------------------------------------------------
\* The theorems.

\* Whatever the systems, the modes and the tensors that solvers ask about or
\* write into, a transform taken from the representation cache is that of
\* the tensor as it is.
THEOREM ServedTransforms == RepresentationSpec => []ServedTransformsAreExact
<1>1. RepresentationInv => ServedTransformsAreExact
  BY DEF RepresentationInv
<1> QED BY <1>1, RepresentationAlways, PTL

\* The explicit right-hand side reads outputs of the state it advances.
THEOREM RhsReads == RepresentationSpec => []RhsReadsItsState
<1>1. RepresentationInv => RhsReadsItsState
  BY DEF RepresentationInv
<1> QED BY <1>1, RepresentationAlways, PTL

\* Stored outputs and the transients a caller can read are of one state.
THEOREM OutputsTogether == RepresentationSpec => []OutputsBelongTogether
<1>1. RepresentationInv => OutputsBelongTogether
  <2> SUFFICES ASSUME RepresentationInv, transients # "none", ~torn,
                      writes = 0, NEW n \in Transient, NEW m \in Stored
               PROVE  statics[m] = IF transients = "mapping" THEN mapped[n]
                                   ELSE EpochOf(spectra[n])
    BY DEF OutputsBelongTogether
  <2>1. EpochInv /\ ViewInv /\ transients \in {"view", "mapping"}
    BY DEF RepresentationInv, HeapInv
  <2> QED BY <2>1 DEF EpochInv, ViewInv
<1> QED BY <1>1, RepresentationAlways, PTL

\* Between evaluations the cache is closed and empty, unless the stacking of
\* the last one's outputs broke.
THEOREM CacheCloses == RepresentationSpec => []CacheIsClosed
<1>1. RepresentationInv => CacheIsClosed
  BY DEF RepresentationInv, CacheInv, CacheIsClosed
<1> QED BY <1>1, RepresentationAlways, PTL
==========================================================================
