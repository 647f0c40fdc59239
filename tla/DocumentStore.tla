---------------------------- MODULE DocumentStore ----------------------------
(* lsp::document_store (document_store.cc): the editor's files, the         *)
(* revision counter that every change bumps, the newest installed analysis  *)
(* and the diagnostics it queued for publication.  Only the main loop       *)
(* touches it, so every operation is one step.                              *)
EXTENDS Analysis

VARIABLES files,              \* loader_ and known_roots_
          revision,           \* revision_
          snapshot,           \* snapshot_
          pendingDiagnostics  \* pending_diagnostics_

storeVars == <<files, revision, snapshot, pendingDiagnostics>>

StoreTypeOK ==
    /\ files \in Files
    /\ revision \in Nat
    /\ snapshot \in Snapshots \cup {None}
    \* (module, diagnostics) pairs: a function on the modules queued
    /\ DOMAIN pendingDiagnostics \subseteq Modules
    /\ pendingDiagnostics \in [DOMAIN pendingDiagnostics -> Nat \cup {None}]

NothingPending == [m \in {} |-> None]

StoreInit ==
    /\ files \in Files
    /\ revision = 0
    /\ snapshot = None
    /\ pendingDiagnostics = NothingPending

StoreInputs == [revision |-> revision, files |-> files]

IsCurrent ==
    IF snapshot = None THEN revision = 0 ELSE snapshot.revision = revision

\* edit, add_known_roots and close: new files, and the analysis is stale.
Change(newFiles) ==
    /\ files' = newFiles
    /\ revision' = revision + 1
    /\ UNCHANGED <<snapshot, pendingDiagnostics>>

\* Is s newer than what is installed?
Newer(s) == snapshot = None \/ snapshot.revision < s.revision

\* Mutated form: modules no longer reached keep their diagnostics.
QueuedByKeepsOld(s) == [m \in Reached[s.files] |-> DiagnosticsOf(s)[m]]

\* The diagnostics s queues: its own, and an empty list for every module the
\* analysis it replaces reached and s does not.
QueuedBy(s) ==
    LET dropped == IF snapshot = None THEN {} ELSE Reached[snapshot.files]
    IN  [m \in Reached[s.files] \cup dropped |-> DiagnosticsOf(s)[m]]

\* What is installed, and what is queued, once install(s) has run.
InstalledAfter(s) == IF Newer(s) THEN s ELSE snapshot
QueuedAfter(s) == IF Newer(s) THEN QueuedBy(s) ELSE pendingDiagnostics

\* What a client that was shown `shown` is shown once `queued` is published.
Publish(queued, shown) ==
    [m \in Modules |-> IF m \in DOMAIN queued THEN queued[m] ELSE shown[m]]
=============================================================================
