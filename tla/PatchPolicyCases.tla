--------------------------- MODULE PatchPolicyCases ----------------------------
(* Patches, as git writes them, put to the parser and the policy. *)
EXTENDS PatchPolicy, Question

--------------------------------------------------------------------------------
(* The patches.  A changed file is its status, its path and its hunks; a hunk is a *)
(* sequence of lines.  Content can look like a header of another file.             *)

AllowedDirs   == {<<"src">>, <<"tests">>}
ProtectedDirs == {<<"src", "security">>}

Source == [parts |-> <<"src", "a.py">>, odd |-> 0, plain |-> TRUE, test |-> FALSE]
Test   == [parts |-> <<"tests", "test_a.py">>, odd |-> 0, plain |-> TRUE, test |-> TRUE]
Guard  == [parts |-> <<"src", "security", "tiers.py">>, odd |-> 0, plain |-> TRUE, test |-> FALSE]

Files == {Source, [Source EXCEPT !.odd = 2], Guard, [Guard EXCEPT !.odd = 2], Test}

Line(of, head, tag) == [of |-> of, head |-> head, tag |-> tag]

BodyLines ==
    {Line("body", "other", t) : t \in {" ", "-", "+"}} \cup
    {[of |-> "body", head |-> h, tag |-> "-", path |-> Source] : h \in {"---"}} \cup
    {[of |-> "body", head |-> h, tag |-> "+", path |-> Source] : h \in {"+++"}}

\* "\ No newline at end of file": the line before it is the last one of its side.
NoNewline == Line("mark", "no newline", "\\")

Hunks ==
    {<<l>> : l \in BodyLines} \cup {<<l, k>> : l, k \in BodyLines}
    \cup {<<l, NoNewline>> : l \in BodyLines}
    \cup {<<l, NoNewline, k, NoNewline>> : l \in {b \in BodyLines : b.tag = "-"}, k \in {b \in BodyLines : b.tag = "+"}}

Count(hunk, tags) == Cardinality({i \in DOMAIN hunk : hunk[i].tag \in tags})

HunkText(hunk) ==
    <<[of |-> "hunk", head |-> "@@", tag |-> "@",
       old |-> Count(hunk, {" ", "-"}), new |-> Count(hunk, {" ", "+"})]>> \o hunk

ModeLines(status, mode) ==
    CASE status = "add"    -> <<[of |-> "entry", head |-> "extended", tag |-> "n", name |-> "new file mode", value |-> mode]>>
      [] status = "delete" -> <<[of |-> "entry", head |-> "extended", tag |-> "d", name |-> "deleted file mode", value |-> mode]>>
      [] status = "modify" -> <<[of |-> "entry", head |-> "extended", tag |-> "i", name |-> "index", value |-> mode]>>

FileText(f) ==
    <<[of |-> "entry", head |-> "diff", tag |-> "d", old |-> f.path, new |-> f.path]>>
    \o ModeLines(f.status, f.mode)
    \o <<[of |-> "names", head |-> "---", tag |-> "-", path |-> IF f.status = "add" THEN None ELSE f.path],
         [of |-> "names", head |-> "+++", tag |-> "+", path |-> IF f.status = "delete" THEN None ELSE f.path]>>
    \o FlattenSeq([i \in DOMAIN f.hunks |-> HunkText(f.hunks[i])])

Text(patch) == FlattenSeq([i \in DOMAIN patch |-> FileText(patch[i])])

\* What parse_patch should make of it.
Meaning(f) ==
    [Entry(f.path, f.path) EXCEPT
        !.status = f.status,
        !.newMode = IF f.status = "add" THEN f.mode ELSE None,
        !.oldMode = IF f.status = "delete" THEN f.mode ELSE None,
        !.indexMode = IF f.status = "modify" THEN f.mode ELSE None,
        !.added = Count(FlattenSeq(f.hunks), {"+"}),
        !.removed = Count(FlattenSeq(f.hunks), {"-"})]

Change(path, status, mode, hunks) == [path |-> path, status |-> status, mode |-> mode, hunks |-> hunks]

AddsALine == Line("body", "other", "+")

Patches ==
    {<<Change(Source, st, Regular, <<h>>), Change(Test, "modify", Regular, <<g>>)>> :
        st \in {"modify", "add", "delete"}, h \in Hunks, g \in Hunks}
    \cup {<<Change(Test, "modify", Regular, <<h, g>>)>> : h, g \in Hunks}

AskPatch == asked' \in [kind : {"patch"}, patch : Patches]

\* What git would make of the text is what the policy is shown: a line of content that looks
\* like the header of another file is content, whatever the files and hunks around it.  And a
\* patch cut off in the middle of a hunk or between its file names is refused.
RoundTrip ==
    asked.kind = "patch" =>
        LET text == Text(asked.patch)
        IN  /\ parse_patch(text) = [i \in DOMAIN asked.patch |-> Meaning(asked.patch[i])]
            /\ \A k \in 1..Len(text) - 1 :
                 parse_patch(SubSeq(text, 1, k)) # None => text[k + 1].of # "body" /\ text[k].of # "names"

--------------------------------------------------------------------------------
(* The patch, the checkout it meets and what git staged.  The checkout and the index *)
(* may be anything; that git and the policy read one patch alike is what is checked.  *)

\* A file in the checkout.
Blob(mode, attributes) == [mode |-> mode, attributes |-> attributes]

TreeOf(paths, mode) == [p \in paths |-> Blob(mode, {})]

Staged(change) == [oldMode |-> change[1], newMode |-> change[2]]

\* Trees with nothing of the patch, with its file, with its file in another case or in both,
\* and with another file of a directory that is spelt otherwise there.
Neighbour == [Source EXCEPT !.parts = <<"src", "b.py">>, !.odd = 1]

Trees == {{}, {Source}, {Guard}, {[Source EXCEPT !.odd = 2]}, {Source, [Source EXCEPT !.odd = 2]}, {Neighbour}}

\* From a mode to a mode: a new file, an edit, a mode that was not regular, a link, a deletion.
StagedChanges == {<<None, Regular>>, <<Regular, Regular>>, <<"100755", Regular>>, <<None, "120000">>, <<Regular, None>>}

Submitted ==
    {<<Change(p, st, m, <<<<AddsALine>>>>), Change(Test, "modify", Regular, <<<<AddsALine>>>>)>> :
        p \in Files, st \in {"modify", "add", "delete"}, m \in {Regular, "120000"}}

AskApply ==
    asked' \in [kind : {"apply"}, patch : Submitted,
                verdicts : {<<[id |-> "f", verdict |-> v]>> : v \in {"fixed", "not_applicable", "needs_human"}},
                read : {Files \cap {q, Test} : q \in Files},
                tree : {TreeOf(t \cup {Test}, m) : t \in Trees, m \in {Regular, "120000"}},
                index : {(q :> Staged(c)) @@ (Test :> Staged(d)) : q \in Files, c \in StagedChanges,
                                                               d \in {<<None, Regular>>, <<Regular, Regular>>}}]

Applies(a) ==
    cmd_apply(Text(a.patch), a.verdicts, {"f"}, TRUE,
              [paths |-> a.read, binary |-> FALSE, clean |-> TRUE], a.tree, a.index, {})

\* A new path differs only in case from no directory and no file of the checkout, unless
\* that is there in the case of the path as well.
SpelledAsTracked(p, tree) ==
    \A k \in 1..Len(p.parts) :
      Tracked(p, k, tree) # {} => \E t \in Tracked(p, k, tree) : Spelled(t, k) = Spelled(p, k)

\* What is pushed after cmd_apply, an edit or a new file, is a change of regular files that
\* nobody has to review: nothing under a protected directory in whatever case the name is
\* written, no link and no change of a mode, no new spelling of what the checkout has
\* (docs/runbooks/review-loop.md:228), and not a file that the patch did not name.
AppliedIsAllowed ==
    asked.kind = "apply" /\ Applies(asked) =>
        \A p \in DOMAIN asked.index :
          /\ \A d \in ProtectedDirs : ~IsPrefix(d, p.parts)
          /\ asked.index[p].newMode = Regular /\ asked.index[p].oldMode \in {None, Regular}
          /\ p \in DOMAIN asked.tree => asked.tree[p].mode = Regular
          /\ SpelledAsTracked(p, asked.tree)
          /\ \E i \in DOMAIN asked.patch : asked.patch[i].path = p /\ asked.patch[i].mode = Regular
================================================================================
