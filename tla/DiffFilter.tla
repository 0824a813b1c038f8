----------------------------- MODULE DiffFilter -----------------------------
(***************************************************************************)
(* Which functions --diff keeps: src/src/git_diff.rs reads the text of     *)
(* git diff --unified=0.  A change of a file is the sequence of its lines, *)
(* old and new in one, each "keep", "add" or "drop".                       *)
(***************************************************************************)
EXTENDS Naturals, Sequences, FiniteSets

\* A line of the diff; only what the parser looks at is told apart.
DiffLine(kind, path, start, len) == [kind |-> kind, path |-> path, start |-> start, len |-> len]

\* The lines of the new version among the first i of an edit.
NewLines(edit, i) == Cardinality({j \in 1..i : edit[j] # "drop"})

\* git: one hunk for every maximal run of changed lines; a hunk that only drops lines names
\* the line before it and the length 0.
HunkStarts(edit) == {i \in DOMAIN edit : edit[i] # "keep" /\ (i = 1 \/ edit[i - 1] = "keep")}

EndsHunk(edit, i, j) ==
    /\ \A k \in i..j : edit[k] # "keep"
    /\ j = Len(edit) \/ edit[j + 1] = "keep"

HunkEnd(edit, i) == CHOOSE j \in i..Len(edit) : EndsHunk(edit, i, j)

Hunk(path, edit, i) ==
    LET before == NewLines(edit, i - 1)
        len    == NewLines(edit, HunkEnd(edit, i)) - before
    IN DiffLine("@@", path, IF len = 0 THEN before ELSE before + 1, len)

\* The hunks that start in the first i lines.
Hunks(path, edit) ==
    LET Upto[i \in 0..Len(edit)] ==
            IF i = 0 THEN <<>>
            ELSE IF i \in HunkStarts(edit) THEN Append(Upto[i - 1], Hunk(path, edit, i))
            ELSE Upto[i - 1]
    IN Upto

\* The part of the diff for a file: status "new", "deleted", "changed", or "binary", which
\* shows no names and no hunks.
FileDiff(f) ==
    << DiffLine("diff --git", f.path, 0, 0) >> \o
    (IF f.status = "new" THEN << DiffLine("new file mode", f.path, 0, 0) >> ELSE <<>>) \o
    (IF f.status = "binary" THEN <<>>
     ELSE << DiffLine(IF f.status = "deleted" THEN "+++ /dev/null" ELSE "+++ b/", f.path, 0, 0) >> \o
          Hunks(f.path, f.edit)[Len(f.edit)])

\* The diff of the first i files.
DiffUpto(files) ==
    LET Upto[i \in 0..Len(files)] ==
            IF i = 0 THEN <<>> ELSE Upto[i - 1] \o FileDiff(files[i])
    IN Upto

GitDiff(files) == DiffUpto(files)[Len(files)]

-----------------------------------------------------------------------------

\* The length taken for the last line's distance.
HunkRangeTooFar(line) == line.start..line.start + line.len

\* parse_hunk_header: the new lines of a hunk, none for a pure deletion.
ParseHunkHeader(line) == line.start..line.start + line.len - 1

\* The files seen, each with its changed lines, or all for a new one; the file being read.
NothingRead == [files |-> <<>>, path |-> "", new |-> FALSE, lines |-> {}]

Finalized(r) ==
    IF r.path = "" THEN r
    ELSE [r EXCEPT !.files = Append(@, [path |-> r.path, all |-> r.new, lines |-> r.lines])]

ReadLine(r, line) ==
    CASE line.kind = "diff --git"    -> [Finalized(r) EXCEPT !.path = "", !.new = FALSE, !.lines = {}]
      [] line.kind = "+++ b/"        -> [r EXCEPT !.path = line.path]
      [] line.kind = "+++ /dev/null" -> [r EXCEPT !.path = ""]
      [] line.kind = "new file mode" -> [r EXCEPT !.new = TRUE]
      [] line.kind = "@@"            ->
            IF r.new THEN r ELSE [r EXCEPT !.lines = @ \cup ParseHunkHeader(line)]

\* What has been read after the first i lines.
ReadFrom(r, lines) ==
    LET Upto[i \in 0..Len(lines)] ==
            IF i = 0 THEN r ELSE ReadLine(Upto[i - 1], lines[i])
    IN Upto

ParseUnifiedDiff(lines) == Finalized(ReadFrom(NothingRead, lines)[Len(lines)]).files

FunctionIsTouched(filter, path, first, last) ==
    \E i \in DOMAIN filter : /\ filter[i].path = path
                             /\ filter[i].all \/ filter[i].lines \cap first..last # {}
=============================================================================
