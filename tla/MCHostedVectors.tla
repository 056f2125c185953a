-------------------------- MODULE MCHostedVectors --------------------------
(***************************************************************************)
(* The constants of the hosted flow for the replay of the frozen vectors:  *)
(* exactly the requests, keys and fingerprints that occur in them.  Beside *)
(* it the cross-language runner, which puts some of these vectors to       *)
(* another implementation: what it does with its files, and source bundles *)
(* it is handed, one at a time.  A behaviour is about one of the three.    *)
(***************************************************************************)
EXTENDS HostedVectors, CrossInputs, SourceBundle

replayVars == <<vars, vector, observed>>
allVars == <<replayVars, inputVars, bundle>>

MCBoundFingerprint == <<"VERIFY", "bound">>

---------------------------------------------------------------------------
FirstVector == vector = Vectors[1] /\ observed = <<>>
Untouched == at = 1 /\ changes = 0 /\ exit = "none"
               /\ \A f \in InputFiles : disk[f] = "accepted"

ReplayVector == Untouched /\ bundle = <<>> /\ (Play \/ Stop) /\ UNCHANGED <<inputVars, bundle>>
UseInputs == FirstVector /\ bundle = <<>> /\ InputsNext /\ UNCHANGED <<replayVars, bundle>>
Ended == exit # "none" /\ UNCHANGED allVars

Hand == FirstVector /\ Untouched /\ HandBundle /\ UNCHANGED <<replayVars, inputVars>>
Return == ReturnBundle /\ UNCHANGED <<replayVars, inputVars>>

MCInit == VectorInit /\ InputsInit /\ bundle = <<>> /\ (FirstVector \/ Untouched)
MCNext == ReplayVector \/ UseInputs \/ Ended \/ Hand \/ Return
MCSpec == MCInit /\ [][MCNext]_allVars
=============================================================================
