------------------------------ MODULE Analysis ------------------------------
(* What an analysis of the language server reads and produces.             *)
(*                                                                         *)
(* analysis_inputs (snapshot.hh:31) freezes the editor's state at one      *)
(* revision; analysis_snapshot::build (snapshot.cc:37) is a function of    *)
(* those inputs: it reaches some modules from the known roots and produces *)
(* the diagnostics of each.  An element of Files stands for the pair       *)
(* (overlays, known roots) and Reached[f] for the modules that analysing   *)
(* it reaches, so a finished snapshot is identified with its inputs.       *)
EXTENDS Integers, Sequences

CONSTANTS Files,    \* states of the editor's files: overlays and known roots
          Modules,  \* files the client may be shown diagnostics for
          Reached,  \* the modules an analysis of a Files state reaches
          None      \* stdx::none

Inputs == [revision: Nat, files: Files]

ASSUME ReachedAssumption == Reached \in [Files -> SUBSET Modules]
ASSUME NoneAssumption == None \notin Nat /\ None \notin Inputs

Snapshots == Inputs

\* What a client has been told of each module by snapshot s: diagnostics as
\* of s's revision for a module s reached, an empty list (None) for others.
DiagnosticsOf(s) ==
    [m \in Modules |-> IF m \in Reached[s.files] THEN s.revision ELSE None]

NoDiagnostics == [m \in Modules |-> None]
=============================================================================
