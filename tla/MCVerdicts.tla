------------------------------- MODULE MCVerdicts ------------------------------
(***************************************************************************)
(* The decisions of the program that read their input and keep no state, on *)
(* every input of a small set.  The one variable is the question asked; a      *)
(* behaviour turns to a topic, and each action asks all the questions of one   *)
(* kind.                                                                    *)
(***************************************************************************)
EXTENDS MergeGateCases, PatchPolicyCases, WorkflowGraphCases, DiscoveryCases,
        IncidentReadsCases, ClientCases, SessionCases

Topics == {"gate", "patches", "settings", "rules", "graphs", "lists", "reads", "texts", "requests"}

Turn == asked.kind = "nothing" /\ asked' \in [kind : {"about"}, topic : Topics]

About(topic) == asked.kind = "about" /\ asked.topic = topic

Next ==
    \/ Turn
    \/ About("gate") /\ (AskAssess \/ AskGate)
    \/ About("patches") /\ (AskPatch \/ AskApply)
    \/ About("settings") /\ (AskEnforce \/ AskTrust \/ AskDeclared)
    \/ About("rules") /\ AskPolicy
    \/ About("graphs") /\ (AskGraph \/ AskDocument)
    \/ About("lists") /\ (AskList \/ AskGet \/ AskShown \/ AskInputs)
    \/ About("reads") /\ (AskFull \/ AskNotes \/ AskSearch \/ AskSimilar \/ AskActions)
    \/ About("texts") /\ (AskText \/ AskHidden \/ AskMapping)
    \/ About("requests") /\ (AskFailure \/ AskAnswer \/ AskCall \/ AskPing \/ AskTokens \/ AskRequest \/ AskRequests)

Spec == Init /\ [][Next]_asked

Caps == [tasks |-> 4, artifacts |-> 4, comments |-> 3, attachments |-> 2]

\* What a tool answers is all there is of it, in order and whole, or says what is missing: lists of
\* SOAR's configuration page by page, single objects, the objects among an incident's rows and
\* notes (SOAR's rows that are no objects are left out and not told of), its actions, what a
\* search is sent as and the incidents like one.
ReadsAreWhole ==
    /\ PagesAreWhole /\ ShownAndCounted
    /\ OnlyTheNamed
    /\ ListsAreWhole /\ BudgetIsKept /\ NotesInOrder /\ SearchAsAsked /\ SimilarAreRanked /\ ActionsAreWhole
================================================================================
