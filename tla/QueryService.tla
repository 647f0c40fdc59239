---------------------------- MODULE QueryService ----------------------------
(* What the language server promises the client, with no thread, queue,     *)
(* revision counter or worker in sight: edits make a new text, a request    *)
(* gets at most one reply, a query's answer is of a text at least as new as *)
(* the one it was asked about (server.hh:67), the diagnostics of that       *)
(* analysis reach the client no later than the answer (server.cc:418), and  *)
(* analyses are published in the order of the texts they are of.            *)
EXTENDS Analysis

CONSTANTS QueryIds, DirectIds

VARIABLES asked,        \* per request: the text it was sent at, or None
          cancelAsked,  \* the requests the client asked to cancel
          textVersion,  \* how many times the text changed
          published,    \* the analysis the client's diagnostics are of
          shown,        \* the diagnostics the client shows
          replies       \* per request: its replies

qvars == <<asked, cancelAsked, textVersion, published, shown, replies>>

RequestIds == QueryIds \cup DirectIds

QInit ==
    /\ asked = [i \in RequestIds |-> None]
    /\ cancelAsked = {}
    /\ textVersion = 0
    /\ published = None
    /\ shown = NoDiagnostics
    /\ replies = [i \in RequestIds |-> <<>>]

Edit ==
    /\ textVersion' = textVersion + 1
    /\ UNCHANGED <<asked, cancelAsked, published, shown, replies>>

Ask(i) ==
    /\ asked[i] = None
    /\ asked' = [asked EXCEPT ![i] = textVersion]
    /\ UNCHANGED <<cancelAsked, textVersion, published, shown, replies>>

AskCancel(i) ==
    /\ asked[i] # None
    /\ cancelAsked' = cancelAsked \cup {i}
    /\ UNCHANGED <<asked, textVersion, published, shown, replies>>

\* Is r a reply request i may get, given what the client shows by then?
Acceptable(i, r) ==
    \/ r.kind = "cancelled" /\ i \in cancelAsked
    \/ r.kind = "direct" /\ i \in DirectIds
    \/ /\ r.kind = "answer"
       /\ i \in QueryIds
       /\ r.snapshot = published'
       /\ asked[i] <= r.snapshot.revision
       /\ r.snapshot.revision <= textVersion
       /\ r.shown = DiagnosticsOf(r.snapshot)

\* The server publishes a newer analysis or none, and replies to any requests.
Serve ==
    /\ \/ published' = published /\ shown' = shown
       \/ /\ published' \in Snapshots
          /\ published = None \/ published.revision < published'.revision
          /\ published'.revision <= textVersion
          /\ shown' = DiagnosticsOf(published')
    /\ DOMAIN replies' = RequestIds
    /\ \A i \in RequestIds :
          \/ replies'[i] = replies[i]
          \/ /\ asked[i] # None
             /\ replies[i] = <<>>
             /\ Len(replies'[i]) = 1
             /\ Acceptable(i, replies'[i][1])
    /\ UNCHANGED <<asked, cancelAsked, textVersion>>

QNext == Edit \/ Serve \/ \E i \in RequestIds : Ask(i) \/ AskCancel(i)

QSpec == QInit /\ [][QNext]_qvars
=============================================================================
