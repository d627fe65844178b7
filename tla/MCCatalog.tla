------------------------------- MODULE MCCatalog -------------------------------
(***************************************************************************)
(* The catalog: the callers that share it (CatalogCache), or one load of it  *)
(* in its parts (CatalogLoad).                                              *)
(***************************************************************************)
EXTENDS CatalogCache, CatalogLoad, TLC

VARIABLE subject

Object(id) == [id |-> id, name |-> id, missing |-> {}, type |-> "none"]

\* Two functions, five playbooks on three pages, a field of each type and one thing of
\* everything else.
MCRows ==
    [s \in {"scripts", "message_destinations", "incident_types", "phases", "datatables", "rules", "groups", "workflows"} |->
        <<Object(1)>>]
    @@ [functions |-> <<Object(1), Object(2)>>,
        fields |-> [i \in 1..3 |-> [Object(i) EXCEPT !.type = FIELD_TYPES[i]]],
        playbooks |-> [i \in 1..5 |-> Object(i)]]

\* What people may add: a function, two playbooks and one that misses a key.
MCNewRows ==
    [functions |-> {Object(3)},
     playbooks |-> {Object(6), [Object(7) EXCEPT !.missing = {"status"}]}]

onCache == <<vars>>
onLoad  == <<loadVars>>

\* What a behaviour is not about stays as it began.
MCInit ==
    /\ Init /\ LoadInit
    /\ subject \in {"cache", "load"}
    /\ subject = "load" => \A c \in Callers : ask[c] = "get"

AboutCache == subject = "cache" /\ Next /\ UNCHANGED <<subject, onLoad>>
AboutLoad  == subject = "load" /\ LoadNext /\ UNCHANGED <<subject, onCache>>

MCNext == AboutCache \/ AboutLoad

all == <<subject, onCache, onLoad>>

MCSpec ==
    /\ MCInit /\ [][MCNext]_all
    /\ \A c \in Callers :
         /\ WF_all(subject = "cache" /\ (Serve(c) \/ BeginLoad(c)) /\ UNCHANGED <<subject, onLoad>>)
         /\ WF_all(subject = "cache" /\ (LoadSucceeds(c) \/ LoadFails(c)) /\ UNCHANGED <<subject, onLoad>>)
================================================================================
