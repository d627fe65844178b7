------------------------------ MODULE PatchPolicy ------------------------------
(***************************************************************************)
(* What an automated fix may change (automation/review_loop/patch_policy.py  *)
(* and gitcheck.py).  A patch is a sequence of lines; a line is what its      *)
(* beginning makes of it: as a header it has a kind and what it names, as a   *)
(* line of a hunk it has a tag, its first character.  A removed line can look *)
(* like a "--- a/path" header and an added one like "+++ b/path".             *)
(***************************************************************************)
EXTENDS Integers, Sequences, FiniteSets, SequencesExt, Values

CONSTANTS
    Allowed,       \* ALLOWED_PREFIXES, as sequences of names
    Protected,     \* FIX_FORBIDDEN_PATH_PREFIXES
    Steering,      \* the names has_sensitive_name knows
    MaxFiles,      \* MAX_PATCH_FILES
    MaxLines       \* MAX_PATCH_CHANGED_LINES

Regular == "100644"

\* A path is its names in lower case, the one of them that is written with capitals (0 if
\* none), whether it is a tests/test_*.py, and whether it is plain: ASCII names, none of
\* them "." or ".." or ending in a dot.
Twin(a, b) == a.parts = b.parts

\* A slip: what protects a path is compared as written.
PathAllowedAsWritten(p) ==
    /\ p.plain
    /\ \A q \in Protected : IsPrefix(q, p.parts) => p.odd \in 1..Len(q)
    /\ \E q \in Allowed : IsPrefix(q, p.parts) /\ p.odd \notin 1..Len(q)

\* path_allowed.  What protects a path is compared without case, what allows it is not.
path_allowed(p) ==
    /\ p.plain
    /\ \A i \in DOMAIN p.parts : p.parts[i] # ".git" /\ p.parts[i] \notin Steering
    /\ \A q \in Protected : ~IsPrefix(q, p.parts)
    /\ \E q \in Allowed : IsPrefix(q, p.parts) /\ p.odd \notin 1..Len(q)

--------------------------------------------------------------------------------
(* parse_patch.  The state of the parser: how many lines are read, the entries  *)
(* so far, what is left of the current hunk, what may come next.                *)

Entry(old, new) ==
    [old |-> old, new |-> new, status |-> "modify", oldMode |-> None, newMode |-> None,
     indexMode |-> None, binary |-> FALSE, added |-> 0, removed |-> 0]

Parser == [files |-> <<>>, at |-> "start", oldLeft |-> 0, newLeft |-> 0]

Broken == [files |-> <<>>, at |-> "broken", oldLeft |-> 0, newLeft |-> 0]

Current(p) == Last(p.files)

Amend(p, entry) == [p EXCEPT !.files = Append(Front(@), entry)]

\* Adding, deleting and modifying keep the name of the file.
Nameable(e) == e.status \in {"modify", "add", "delete"} => e.old = e.new

\* A slip: the end of the text ends a hunk.
MayEndAnywhere(p) == p.at \in {"start", "header", "in hunk", "hunk", "hunk ended", "binary"}

\* An entry may end here: after its header, a whole hunk, or a binary body.
MayEnd(p) ==
    \/ p.at \in {"start", "hunk", "hunk ended", "binary"}
    \/ p.at = "header" /\ Nameable(Current(p))

\* _extended
Extended(p, line) ==
    LET e == Current(p)
    IN  CASE line.name = "old mode"          -> Amend(p, [e EXCEPT !.oldMode = line.value])
          [] line.name = "new mode"          -> Amend(p, [e EXCEPT !.newMode = line.value])
          [] line.name = "deleted file mode" -> Amend(p, [e EXCEPT !.status = "delete", !.oldMode = line.value])
          [] line.name = "new file mode"     -> Amend(p, [e EXCEPT !.status = "add", !.newMode = line.value])
          [] line.name = "index"             -> Amend(p, [e EXCEPT !.indexMode = line.value])
          [] line.name \in {"rename from", "copy from"} ->
               IF line.value # e.old THEN Broken
               ELSE Amend(p, [e EXCEPT !.status = IF line.name = "rename from" THEN "rename" ELSE "copy"])
          [] line.name \in {"rename to", "copy to"} ->
               IF line.value # e.new THEN Broken
               ELSE Amend(p, [e EXCEPT !.status = IF line.name = "rename to" THEN "rename" ELSE "copy"])
          [] line.name = "similarity index"    -> p

\* _file_lines: /dev/null (None) on the side the status says, and on no other.
OldFile(p, line) ==
    LET e == Current(p)
    IN  IF Nameable(e) /\ line.path = (IF e.status = "add" THEN None ELSE e.old)
        THEN [p EXCEPT !.at = "new file"] ELSE Broken

NewFile(p, line) ==
    LET e == Current(p)
    IN  IF line.head = "+++" /\ line.path = (IF e.status = "delete" THEN None ELSE e.new)
        THEN [p EXCEPT !.at = "no hunk yet"] ELSE Broken

\* A slip: the lines of a hunk are told by how they begin and not by its counts.
HunkLineByHead(p, line) ==
    IF line.head = "---" THEN OldFile(p, line)
    ELSE [p EXCEPT !.at = IF p.oldLeft + p.newLeft <= 2 THEN "hunk" ELSE "in hunk",
                   !.oldLeft = IF line.tag # "+" /\ @ > 0 THEN @ - 1 ELSE @,
                   !.newLeft = IF line.tag # "-" /\ @ > 0 THEN @ - 1 ELSE @]

\* _hunk: its header says how many lines it has; they are consumed by that count.
HunkHeader(p, line) ==
    IF line.old + line.new = 0 THEN Broken
    ELSE [p EXCEPT !.at = "in hunk", !.oldLeft = line.old, !.newLeft = line.new]

HunkLine(p, line) ==
    LET e == Current(p)
        Left(o, n) == [p EXCEPT !.oldLeft = o, !.newLeft = n,
                                !.at = IF o = 0 /\ n = 0 THEN "hunk" ELSE "in hunk"]
    IN  IF line.tag = " " /\ p.oldLeft > 0 /\ p.newLeft > 0 THEN Left(p.oldLeft - 1, p.newLeft - 1)
        ELSE IF line.tag = "-" /\ p.oldLeft > 0
        THEN Amend(Left(p.oldLeft - 1, p.newLeft), [e EXCEPT !.removed = @ + 1])
        ELSE IF line.tag = "+" /\ p.newLeft > 0
        THEN Amend(Left(p.oldLeft, p.newLeft - 1), [e EXCEPT !.added = @ + 1])
        ELSE IF line.head = "no newline" THEN p
        ELSE Broken

Header(p, line) ==
    IF ~MayEnd(p) THEN Broken
    ELSE [p EXCEPT !.files = Append(@, Entry(line.old, line.new)), !.at = "header"]

\* One line, where the parser stands.
Step(p, line) ==
    IF p.at = "broken" THEN p
    ELSE IF p.at = "in hunk" THEN HunkLine(p, line)
    ELSE IF p.at = "new file" THEN NewFile(p, line)
    ELSE IF line.head = "diff" THEN Header(p, line)
    ELSE IF p.at = "binary" THEN p
    ELSE IF p.at = "header" /\ line.head = "binary"
    THEN Amend([p EXCEPT !.at = "binary"], [Current(p) EXCEPT !.binary = TRUE])
    ELSE IF p.at = "header" /\ line.head = "extended" THEN Extended(p, line)
    ELSE IF p.at = "header" /\ line.head = "---" THEN OldFile(p, line)
    ELSE IF p.at \in {"no hunk yet", "hunk", "hunk ended"} /\ line.head = "@@" THEN HunkHeader(p, line)
    ELSE IF p.at = "hunk" /\ line.head = "no newline" THEN [p EXCEPT !.at = "hunk ended"]
    ELSE Broken

\* The parser after each number of lines, if it begins as p.
Walk(p, lines) ==
    LET After[n \in 0..Len(lines)] == IF n = 0 THEN p ELSE Step(After[n - 1], lines[n])
    IN  After

\* None when the patch is not exactly of the format.
parse_patch(lines) ==
    LET p == Walk(Parser, lines)[Len(lines)] IN IF MayEnd(p) THEN p.files ELSE None

--------------------------------------------------------------------------------
(* check_patch and check_verdicts. *)

Paths(e) == {e.old, e.new}

ChangedLines(files) == FoldSeq(LAMBDA e, n : n + e.added + e.removed, 0, files)

AllPaths(files) == UNION {Paths(files[i]) : i \in DOMAIN files}

EntryAllowed(e) ==
    /\ \A p \in Paths(e) : path_allowed(p)
    /\ ~e.binary
    /\ e.status \in {"modify", "add"}
    /\ {e.oldMode, e.newMode, e.indexMode} \subseteq {None, Regular}
    /\ e.status = "modify" => /\ e.oldMode = None \/ e.newMode = None
                             /\ e.added + e.removed > 0

\* A patch with any change adds lines to a test; no file is changed twice, whatever its case.
check_patch(files) ==
    /\ \A i \in DOMAIN files : EntryAllowed(files[i])
    /\ \A i, j \in DOMAIN files : Twin(files[i].new, files[j].new) => i = j
    /\ Cardinality(AllPaths(files)) <= MaxFiles
    /\ ChangedLines(files) <= MaxLines
    /\ files # <<>> => \E i \in DOMAIN files : files[i].new.test /\ files[i].added > 0

\* Every finding has one verdict of the known ones, and "fixed" goes with a patch.
check_verdicts(rows, findings, files) ==
    /\ \A i \in DOMAIN rows : rows[i].id \in findings /\ rows[i].verdict # "unknown"
    /\ \A i, j \in DOMAIN rows : rows[i].id = rows[j].id => i = j
    /\ findings \subseteq {rows[i].id : i \in DOMAIN rows}
    /\ (\E i \in DOMAIN rows : rows[i].verdict = "fixed") <=> files # <<>>

--------------------------------------------------------------------------------
(* gitcheck and cmd_apply.  git is a parser of its own: reading is what it makes  *)
(* of the patch, tree is the checkout (path to mode and attributes), and index    *)
(* is what was staged.                                                            *)

\* The first k names of a path as they are written: which of them has capitals.
Spelled(path, k) == IF path.odd \in 1..k THEN path.odd ELSE 0

\* The tracked files in the directory, or of the name, that the first k names are but for case.
Tracked(path, k, tree) == {t \in DOMAIN tree : IsPrefix(SubSeq(path.parts, 1, k), t.parts)}

\* The order of git ls-files, by bytes: capitals come before small letters.
ListedBefore(a, b) == a # 0 /\ (b = 0 \/ a < b)

\* A slip: only the whole path is looked up, not its directories.
CollidesByFile(path, tree) ==
    LET k == Len(path.parts)
    IN  \E t \in Tracked(path, k, tree) :
          /\ Spelled(t, k) # Spelled(path, k)
          /\ \A u \in Tracked(path, k, tree) : ~ListedBefore(Spelled(u, k), Spelled(t, k))

\* case_collisions.  Of a directory or file tracked in several spellings, known.setdefault
\* keeps the first; a path collides that is not written as that one is.
Collides(path, tree) ==
    \E k \in 1..Len(path.parts) : \E t \in Tracked(path, k, tree) :
      /\ Spelled(t, k) # Spelled(path, k)
      /\ \A u \in Tracked(path, k, tree) : ~ListedBefore(Spelled(u, k), Spelled(t, k))

Transforming(attribute) ==
    \/ attribute.name \in {"filter", "working-tree-encoding", "ident"} /\ attribute.value \notin {"unspecified", "unset"}
    \/ attribute.name \in {"diff", "merge"} /\ attribute.value \notin {"unspecified", "set", "unset"}
    \/ attribute.name = "binary" /\ attribute.value = "set"

\* pre_apply_problems = []
ReadAlike(files, reading, tree) ==
    /\ reading.paths = AllPaths(files)
    /\ ~reading.binary
    /\ reading.clean
    /\ \A p \in AllPaths(files) \cap DOMAIN tree :
         tree[p].mode = Regular /\ \A a \in tree[p].attributes : ~Transforming(a)
    /\ \A i \in DOMAIN files : ~Collides(files[i].new, tree)

\* What git diff --raw calls a staged change: a mode is None where there is no file.
StatusOf(old, new) ==
    IF old = None THEN "A"
    ELSE IF new = None THEN "D"
    ELSE IF (old = "120000") # (new = "120000") THEN "T"
    ELSE "M"

\* staged_problems = []
StagedAlike(files, index, untracked) ==
    /\ DOMAIN index = {files[i].new : i \in DOMAIN files}
    /\ \A p \in DOMAIN index :
         LET status == StatusOf(index[p].oldMode, index[p].newMode)
         IN  /\ status \in {"A", "M"}
             /\ index[p].newMode = Regular
             /\ status = "M" => index[p].oldMode = Regular
    /\ untracked = {}
    /\ Cardinality(DOMAIN index) <= MaxFiles

\* cmd_apply: 0 when the patch was checked, applied, and staged as it was checked.
cmd_apply(lines, rows, findings, digestMatches, reading, tree, index, untracked) ==
    LET files == parse_patch(lines)
    IN  /\ files # None /\ files # <<>>
        /\ check_patch(files) /\ check_verdicts(rows, findings, files)
        /\ \A i \in DOMAIN rows : rows[i].verdict # "needs_human"
        /\ digestMatches
        /\ ReadAlike(files, reading, tree)
        /\ StagedAlike(files, index, untracked)
================================================================================
