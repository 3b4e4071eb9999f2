----------------------------- MODULE MCSandcastle -----------------------------
(***************************************************************************)
(* The usage wait and the post-merge gate of the development pipeline, for *)
(* TLC.  They share no state: one of them moves in a behaviour, and the    *)
(* other stays where none of its fair actions is enabled, at a startup     *)
(* that was refused or a gate that is done.                                *)
(***************************************************************************)
EXTENDS UsageWait, Sequences

CONSTANTS p1, p2, opus, Gates, HealAttempts, MaxSignals   \* the last three: see PostMergeGate

ASSUME GateAssumption ==
    /\ Gates \in Seq(BOOLEAN) /\ Len(Gates) > 0
    /\ HealAttempts \in Nat /\ MaxSignals \in Nat

VARIABLES
    part,
    bad, docker, gatePc, gate, try, attempt, leader, kids, timer, listener, timedOut,
    interrupted, killing, abort, marker, result, warning, warnings, outcome, collected, told,
    verdict, blip, answering, ran, survivors, signals

Gate == INSTANCE PostMergeGate WITH pc <- gatePc

gateVars == <<bad, docker, gatePc, gate, try, attempt, leader, kids, timer, listener, timedOut,
              interrupted, killing, abort, marker, result, warning, warnings, outcome,
              collected, told, verdict, blip, answering, ran, survivors, signals>>
partVars == <<part, vars, gateVars>>

PartsInit ==
    \/ part = "wait" /\ Init /\ Gate!InitAt("done") /\ bad = {}
    \/ /\ part = "gate" /\ Gate!Init
       /\ InitAt("refused") /\ env = OffEnv /\ cli /\ tokenOk /\ up = [q \in Pairs |-> TRUE]

PartsNext ==
    /\ UNCHANGED part
    /\ \/ part = "wait" /\ Next /\ UNCHANGED gateVars
       \/ part = "gate" /\ Gate!Next /\ UNCHANGED vars

PartsSpec == PartsInit /\ [][PartsNext]_partVars /\ Fairness /\ Gate!Fairness

\* A build gate and a container-backed test gate, as sandcastle.config.mts has.
MCGates == <<FALSE, TRUE>>
MCPhases == {p1, p2}
MCModels == {opus}
MCModelOf == [p \in MCPhases |-> opus]

-----------------------------------------------------------------------------
\* Waits share one probe and last as long as the limit does (UsageWait), and a gate tells the
\* truth about HEAD (PostMergeGate).
PipelineTells == WaitSafe /\ Gate!GateTells

\* Survivors of a gate run are told of, where the code does not drop the warning (PostMergeGate).
SurvivorsTold == Gate!SurvivorsTold

\* Neither a limit that does not lift nor a gate that hangs holds the pipeline for ever.
PipelineEnds == WaitEnds /\ Gate!GateEnds
=============================================================================
