---------------------------- MODULE MergeGateCases -----------------------------
(* Pull requests put to the merge gate, and what its verdicts must be worth. *)
EXTENDS MergeGate, Question

(* Snapshots of a pull request. *)

Codex == [id |-> "codex", type |-> "Bot", login |-> "codex"]
Lookalike == [id |-> "someone", type |-> "User", login |-> "codex"]
Owner == [id |-> "owner", type |-> "User", login |-> "owner"]

CodexComment == [user |-> Codex, app |-> "codex", pr |-> "this", association |-> "NONE",
                 receipt |-> FALSE, names |-> None, state |-> None, approves |-> {}]

Flags == {TRUE, FALSE, None}

StateBlocks ==
    {Malformed} \cup
    [code : [commit : {"head", "other"}, status : {"completed", "running"}, any : Flags, unresolved : Flags],
     security : {NoReview, [NoReview EXCEPT !.commit = "head", !.status = "completed", !.unresolved = TRUE]}]

StateComments == {{}} \cup {{[CodexComment EXCEPT !.state = b]} : b \in StateBlocks}

ReceiptComments ==
    {{}} \cup {{[CodexComment EXCEPT !.receipt = TRUE, !.names = n]} : n \in {"head", "other", None}}

CodexReview == [id |-> 1, user |-> Codex, pr |-> "this", receipt |-> TRUE, names |-> "head", commit |-> "head"]

ReviewSets ==
    {{}} \cup {{[CodexReview EXCEPT !.commit = c, !.names = n]} : c, n \in {"head", "other"}}

Inline == [id |-> 1, user |-> Codex, pr |-> "this", reply |-> FALSE, review |-> 1, original |-> "head"]

InlineSets == {{}, {Inline}, {Inline, [Inline EXCEPT !.id = 2]},
               {[Inline EXCEPT !.id = 2, !.review = 9, !.original = "other"]}}

ThreadSets == {[i \in S |-> f[i]] : S \in SUBSET {1, 2}, f \in [{1, 2} -> {"open", "resolved"}]}

Green == [id |-> 1, commit |-> "head", trusted |-> TRUE, number |-> 1, attempt |-> 1,
          status |-> "completed", conclusion |-> "success",
          jobs |-> [j \in {"test", "audit"} |-> [commit |-> "head", conclusion |-> "success"]]]

Pull == [state |-> "open", draft |-> FALSE, base |-> "main", baseHere |-> TRUE, headHere |-> TRUE,
         branch |-> "approved", author |-> "OWNER", labels |-> {}, changed |-> 1]

Snapshots ==
    [pr : {Pull}, files : {<<[now |-> "plain", before |-> None]>>}, ciRuns : {{Green}},
     reviews : ReviewSets, inline : InlineSets, threads : ThreadSets,
     comments : {a \cup b : a \in StateComments, b \in ReceiptComments}]

AskAssess == asked' \in [kind : {"assess"}, s : Snapshots]

\* Artefacts that look like Codex's: by another account of that name, by Codex's account
\* through no App or on another pull request.
Strangers(s) ==
    LET said == [code : {[commit |-> "head", status |-> "completed", any |-> FALSE, unresolved |-> FALSE]},
                 security : {NoReview}]
        comments == {[CodexComment EXCEPT !.receipt = TRUE, !.names = n, !.state = b] :
                        n \in {"head", None}, b \in said \cup {None}}
    IN  [s EXCEPT !.comments = @ \cup {[c EXCEPT !.user = Lookalike] : c \in comments}
                                 \cup {[c EXCEPT !.app = None] : c \in comments}
                                 \cup {[c EXCEPT !.pr = "another"] : c \in comments},
                  !.reviews = @ \cup {[CodexReview EXCEPT !.user = Lookalike, !.id = 7],
                                      [CodexReview EXCEPT !.pr = "another", !.id = 8, !.names = "other"]},
                  !.inline = @ \cup {[Inline EXCEPT !.user = Lookalike, !.id = 7],
                                     [Inline EXCEPT !.reply = TRUE, !.id = 8]}]

\* Nothing anybody but Codex writes, and nothing of another pull request, moves the verdict
\* (codex.py: "A login alone never passes").  And once Codex's own summary says that findings
\* are open, no page of reviews, comments or threads that is missing from the snapshot turns
\* "findings" into "clean" (assess, "Every doubt fails closed").
VerdictStands ==
    asked.kind = "assess" =>
        LET s == asked.s
        IN  /\ assess(Strangers(s)) = assess(s)
            /\ assess(s).status = "findings" /\ (\A c \in States(s) : c.state.code.unresolved = TRUE) =>
                 \A R \in SUBSET s.reviews, I \in SUBSET s.inline, T \in SUBSET DOMAIN s.threads :
                   assess([s EXCEPT !.reviews = R, !.inline = I,
                                    !.threads = [i \in T |-> s.threads[i]]]).status # "clean"

--------------------------------------------------------------------------------
(* Snapshots that the gate lets pass or nearly so. *)

CleanBlock == [code |-> [commit |-> "head", status |-> "completed", any |-> FALSE, unresolved |-> FALSE],
               security |-> NoReview]

CleanComment == [CodexComment EXCEPT !.receipt = TRUE, !.names = "head", !.state = CleanBlock]

Approval == [user |-> Owner, app |-> None, pr |-> "this", association |-> "OWNER",
             receipt |-> FALSE, names |-> None, state |-> None, approves |-> {"head"}]

RunSets ==
    {{Green}} \cup
    {{Green, [Green EXCEPT !.id = 2, !.number = n, !.attempt = a, !.status = st, !.conclusion = c]} :
        n, a \in 1..2, st \in {"completed", "in_progress"}, c \in {"success", "failure"}}

GateSnapshots ==
    [pr : [state : {"open", "closed"}, draft : BOOLEAN, base : {"main"}, baseHere : {TRUE}, headHere : BOOLEAN,
           branch : {"approved", "main"}, author : {"OWNER", "NONE"}, labels : {{}, {"halted"}}, changed : {1, 2}],
     files : {<<[now |-> k, before |-> None]>> : k \in {"plain", "sensitive"}},
     ciRuns : RunSets, reviews : {{}}, inline : {{}}, threads : {<<>>},
     comments : {{CleanComment}, {CleanComment, Approval}, {CleanComment, [Approval EXCEPT !.user = Codex]}}]

Jobs == {"test", "audit"}

AskGate == asked' \in [kind : {"gate"}, s : GateSnapshots]

\* The same artefacts, when the head they speak of is no longer the head.
MovedRuns(s) == [s EXCEPT !.ciRuns = {[r EXCEPT !.commit = "other"] : r \in @}]

MovedComments(s, C) ==
    [s EXCEPT !.comments = (@ \ C) \cup
        {[c EXCEPT !.names = IF @ = "head" THEN "other" ELSE @,
                   !.state = IF @ = None THEN None ELSE [@ EXCEPT !.code.commit = "other"],
                   !.approves = {}] : c \in C}]

\* A newer run of CI, or a rerun of the last, that is not green closes the gate; one of another
\* workflow, event or fork does not.
NewestRunDecides(s) ==
    \A i \in {0, 9}, rerun \in BOOLEAN :
      LET r    == latest_ci_run(s)
          next == [r EXCEPT !.id = i, !.status = "in_progress",
                            !.number = IF rerun THEN @ ELSE @ + 1,
                            !.attempt = IF rerun THEN @ + 1 ELSE 1]
      IN  /\ ~gate([s EXCEPT !.ciRuns = @ \cup {next}], Jobs)
          /\ gate([s EXCEPT !.ciRuns = @ \cup {[next EXCEPT !.trusted = FALSE]}], Jobs)

\* A push closes the gate until CI, Codex and, for sensitive files, the owner have each
\* spoken of the new head: none of them may be the old one's (evaluate.gate).  Of CI it is the
\* newest run of the head that speaks (latest_ci_run).
EachProofIsOfTheHead ==
    asked.kind = "gate" =>
        LET s == asked.s
        IN  /\ ~gate(MovedRuns(s), Jobs)
            /\ ~gate(MovedComments(s, {CleanComment}), Jobs)
            /\ s.files[1].now = "sensitive" => ~gate(MovedComments(s, {Approval}), Jobs)
            /\ gate(s, Jobs) => NewestRunDecides(s)
================================================================================
