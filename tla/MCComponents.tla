--------------------------- MODULE MCComponents ---------------------------
(***************************************************************************)
(* Four components that share no state, checked side by side: the initial  *)
(* state chooses which of them runs, and the others stay where they start. *)
(***************************************************************************)
EXTENDS RunDirectory, PressureControl, PrecisionScope,
        AlgebraicRepresentations

VARIABLE machine

TwoParts   == <<"Q", "u">>
TwoOutputs == <<"h", "u">>
TheReads   == [h |-> {"Q"}, u |-> {"Q", "h"}]

\* The choices a component's initial states leave open are made for the one
\* that runs only.
ComponentsInit ==
    /\ machine \in {"directory", "pressure", "precision", "representations"}
    /\ RunInit /\ PressureInit /\ PrecisionInit /\ RepresentationInit
    /\ machine # "directory" => family = "plane"
    /\ machine # "pressure" => fixedWork
    /\ machine # "precision" => flags.precision = "highest" /\ ~flags.cudnn
    /\ machine # "representations" => mode = "eager_componentwise"

ComponentsNext ==
    /\ UNCHANGED machine
    /\ \/ /\ machine = "directory" /\ RunNext
          /\ UNCHANGED <<pressureVars, precisionVars, representationVars>>
       \/ /\ machine = "pressure" /\ PressureNext
          /\ UNCHANGED <<runVars, precisionVars, representationVars>>
       \/ /\ machine = "precision" /\ PrecisionNext
          /\ UNCHANGED <<runVars, pressureVars, representationVars>>
       \/ /\ machine = "representations" /\ RepresentationNext
          /\ UNCHANGED <<runVars, pressureVars, precisionVars>>

componentsVars == <<machine, runVars, pressureVars, precisionVars,
                    representationVars>>
ComponentsSpec == ComponentsInit /\ [][ComponentsNext]_componentsVars
==========================================================================
