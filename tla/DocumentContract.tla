-------------------------- MODULE DocumentContract --------------------------
(***************************************************************************)
(* What a client of PDF Bridge may rely on: the lifecycle diagram of a     *)
(* document, and when it can be found and when its content is kept.        *)
(* Several documents may move in one step (a replacement moves two).       *)
(***************************************************************************)
CONSTANT Documents

VARIABLES
    state,       \* lifecycle state of each document
    searchable,  \* some point of the document is visible to search
    stored       \* its source, artifacts or content rows are still kept

contractVars == <<state, searchable, stored>>

Terminal == {"REJECTED", "CANCELLED", "DELETED"}

\* DocumentState transitions.
Edge ==
    {<<"PREFLIGHTING", "PREFLIGHT_FAILED">>, <<"PREFLIGHT_FAILED", "PREFLIGHTING">>,
     <<"PREFLIGHTING", "REVIEW_REQUIRED">>, <<"PREFLIGHTING", "PUBLISHING">>,
     <<"REVIEW_REQUIRED", "PUBLISHING">>, <<"PUBLISHING", "PUBLISH_FAILED">>,
     <<"PUBLISH_FAILED", "PUBLISHING">>, <<"DELETING", "DELETE_FAILED">>,
     <<"DELETE_FAILED", "DELETING">>}
        \cup ({"PREFLIGHTING", "REVIEW_REQUIRED", "PREFLIGHT_FAILED",
               "PUBLISH_FAILED", "READY"} \X {"DELETING"})

Init ==
    /\ state = [d \in Documents |-> "ABSENT"]
    /\ searchable = [d \in Documents |-> FALSE]
    /\ stored = [d \in Documents |-> FALSE]

Same(d) ==
    /\ state'[d] = state[d] /\ searchable'[d] = searchable[d] /\ stored'[d] = stored[d]

\* An upload is accepted with its source stored.
Admit(d) ==
    /\ state[d] = "ABSENT" /\ state'[d] = "PREFLIGHTING"
    /\ stored'[d] /\ ~searchable'[d]

\* The document moves along the diagram; content and visibility do not change.
Move(d) ==
    /\ <<state[d], state'[d]>> \in Edge
    /\ searchable'[d] = searchable[d] /\ stored'[d] = stored[d]

\* Publication opens (or, repeating an interrupted attempt, closes) the gate.
Gate(d) ==
    /\ state[d] = "PUBLISHING" /\ state'[d] = "PUBLISHING"
    /\ searchable'[d] # searchable[d] /\ stored'[d] = stored[d]

Finish(d) ==
    /\ state[d] = "PUBLISHING" /\ state'[d] = "READY"
    /\ searchable[d] /\ searchable'[d] /\ stored[d] /\ stored'[d]

\* Deletion first hides the document, then purges it, then says so.
Hide(d) ==
    /\ state[d] = "DELETING" /\ state'[d] = "DELETING"
    /\ searchable[d] /\ ~searchable'[d] /\ stored'[d] = stored[d]

Purge(d) ==
    /\ state[d] = "DELETING" /\ state'[d] = "DELETING"
    /\ stored[d] /\ ~stored'[d] /\ ~searchable[d] /\ ~searchable'[d]

Tombstone(d) ==
    /\ state[d] = "DELETING" /\ state'[d] \in Terminal
    /\ ~searchable[d] /\ ~searchable'[d] /\ ~stored[d] /\ ~stored'[d]

DocumentStep(d) ==
    \/ Same(d) \/ Admit(d) \/ Move(d) \/ Gate(d) \/ Finish(d)
    \/ Hide(d) \/ Purge(d) \/ Tombstone(d)

Next == \A d \in Documents : DocumentStep(d)

Spec == Init /\ [][Next]_contractVars
=============================================================================
