----------------------------- MODULE AgentTools -----------------------------
(***************************************************************************)
(* Two tools of the agent that act on the host, apply_patch and the shell. *)
(*                                                                         *)
(* apply_patch (taugentic-agent/src/patch and                              *)
(* tools/apply_patch.rs): a text of lines is parsed into file operations,  *)
(* every operation is computed against the files as they are, and only     *)
(* then are the results written, one file after the other.  Another thread *)
(* may cancel the turn between any two of these stages.                    *)
(*                                                                         *)
(* A line of the patch is [k, t]: its kind and its text.  A file is Absent,*)
(* Folder, or its content split at the newlines: "a\n" is <<"a", "">>.     *)
(***************************************************************************)
EXTENDS Naturals, FiniteSets, Sequences, SequencesExt

CONSTANTS
    Texts,        \* the patches the model may send: sequences of lines
    Disks,        \* the files of the work directory: [path -> content]
    ParentPaths,  \* paths with a ".." component, or absolute ones
    LinkPaths,    \* paths that resolve outside the work directory
    MaxFaults     \* bound on the file system errors while writing

VARIABLES
    disk,      \* the files
    before,    \* the files when the tool was called
    text,      \* the patch
    patch,     \* its operations, or Bad
    changes,   \* the FileChange list apply_patch computed
    written,   \* number of changes completely written
    patching,  \* "called", "parsed", "applied", "writing", "done", "failed", "cancelled"
    stopped,   \* the cancellation token
    faults     \* file system errors that happened

patchVars == <<disk, before, text, patch, changes, written, patching, stopped, faults>>

Absent == <<"absent">>
Folder == <<"folder">>
Mismatch == <<"mismatch">>
Bad == [k |-> "bad", ops |-> <<>>]
BodyKinds == {"ctx", "plus", "minus", "blank"}
MarkerKinds == {"begin", "end", "add", "delete", "update", "move", "eof"}

-----------------------------------------------------------------------------
(* Parsing *)

\* parse_relative_path: a path that leaves the work directory by its spelling is refused.
Relative(p) == p # "" /\ p \notin ParentPaths

\* check_patch_boundaries.
Bounded(t) == Len(t) >= 2 /\ Head(t).k = "begin" /\ Last(t).k = "end"

\* A line that is empty once trimmed.
IsBlank(l) == l.k = "blank" \/ (l.k = "ctx" /\ l.t = "")

\* The first line at or after i that is not of one of the kinds.
Past(b, i, kinds) ==
    CHOOSE j \in i..Len(b) + 1 :
        /\ \A m \in i..j - 1 : b[m].k \in kinds
        /\ j <= Len(b) => b[j].k \notin kinds

\* A blank line inside a hunk is an empty context line.
HunkLine(l) == IF l.k = "blank" THEN [k |-> "ctx", t |-> ""] ELSE l

\* parse_hunk: the hunk whose @@ line is b[i]; its end-of-file marker belongs to it.
ParseHunk(b, i) ==
    LET j == Past(b, i + 1, BodyKinds)
        eof == j <= Len(b) /\ b[j].k = "eof"
    IN [ok |-> b[i].k = "at" /\ j > i + 1,
        hunk |-> [header |-> b[i].t, eof |-> eof,
                  lines |-> [m \in 1..j - i - 1 |-> HunkLine(b[i + m])]],
        next |-> IF eof THEN j + 1 ELSE j]

\* parse_update_file: an optional move line, then hunks up to the next "*** " line.
ParseUpdateFile(b, i) ==
    LET moves == i < Len(b) /\ b[i + 1].k = "move"
        H[j \in 1..Len(b) + 1] ==
            IF j > Len(b) \/ (j <= Len(b) /\ b[j].k \in MarkerKinds)
            THEN [ok |-> TRUE, hunks |-> <<>>, next |-> j]
            ELSE IF IsBlank(b[j]) THEN H[j + 1]
            ELSE LET h == ParseHunk(b, j) IN
                 IF ~h.ok THEN [ok |-> FALSE, hunks |-> <<>>, next |-> j]
                 ELSE [H[h.next] EXCEPT !.hunks = <<h.hunk>> \o @]
        r == H[IF moves THEN i + 2 ELSE i + 1]
        to == IF moves THEN b[i + 1].t ELSE ""
    IN [ok |-> r.ok /\ r.hunks # <<>> /\ Relative(b[i].t) /\ (moves => Relative(to)),
        op |-> [k |-> "update", path |-> b[i].t, to |-> to, hunks |-> r.hunks, lines |-> <<>>],
        next |-> r.next]

\* parse_file_op: the operation whose header is b[i].
ParseFileOp(b, i) ==
    CASE b[i].k = "add" ->
           LET j == Past(b, i + 1, {"plus"}) IN
           [ok |-> Relative(b[i].t),
            op |-> [k |-> "add", path |-> b[i].t, to |-> "", hunks |-> <<>>,
                    lines |-> [m \in 1..j - i - 1 |-> b[i + m].t]],
            next |-> j]
      [] b[i].k = "delete" ->
           [ok |-> Relative(b[i].t),
            op |-> [k |-> "delete", path |-> b[i].t, to |-> "", hunks |-> <<>>, lines |-> <<>>],
            next |-> i + 1]
      [] b[i].k = "update" -> ParseUpdateFile(b, i)
      [] OTHER -> [ok |-> FALSE, op |-> [k |-> "none"], next |-> i + 1]

\* parse_patch: the operations between the two boundary lines.
ParsePatch(t) ==
    IF ~Bounded(t) THEN Bad
    ELSE LET b == SubSeq(t, 2, Len(t) - 1)
             Ops[i \in 1..Len(b) + 1] ==
                 IF i > Len(b) THEN [k |-> "patch", ops |-> <<>>]
                 ELSE LET r == ParseFileOp(b, i) IN
                      IF ~r.ok \/ Ops[r.next] = Bad THEN Bad
                      ELSE [k |-> "patch", ops |-> <<r.op>> \o Ops[r.next].ops]
         IN Ops[1]

-----------------------------------------------------------------------------
(* Computing the new contents *)

\* split_lines: the newline at the end of a file starts no line.
SplitLines(content) == IF Last(content) = "" THEN Front(content) ELSE content

OldLines(h) == LET kept == SelectSeq(h.lines, LAMBDA l : l.k # "plus")
               IN [i \in DOMAIN kept |-> kept[i].t]
NewLines(h) == LET kept == SelectSeq(h.lines, LAMBDA l : l.k # "minus")
               IN [i \in DOMAIN kept |-> kept[i].t]

NotFound == 99

\* seek_sequence: where the pattern lies at or after start, the last place for eof.
SeekSequence(lines, pattern, start, eof) ==
    LET at == {c \in start..Len(lines) : /\ c + Len(pattern) <= Len(lines)
                                         /\ SubSeq(lines, c + 1, c + Len(pattern)) = pattern}
    IN IF pattern = <<>> \/ at = {} THEN NotFound
       ELSE CHOOSE c \in at : \A d \in at : IF eof THEN d <= c ELSE c <= d

EndsEmpty(s) == s # <<>> /\ Last(s) = ""

\* Mutant: the search for the next hunk starts where this one was found.
PlacedKeepsIndex(lines, h, from) ==
    LET at == IF h.header = "" THEN from ELSE SeekSequence(lines, <<h.header>>, from, FALSE) + 1
        found == SeekSequence(lines, OldLines(h), at, h.eof)
    IN IF OldLines(h) = <<>>
       THEN [ok |-> TRUE, start |-> Len(lines), len |-> 0, new |-> NewLines(h), index |-> at]
       ELSE [ok |-> found # NotFound, start |-> found, len |-> Len(OldLines(h)),
             new |-> NewLines(h), index |-> found]

\* A replacement of the pattern found at a place, and where the search goes on.
Replacement(found, pattern, new) ==
    [ok |-> found # NotFound, start |-> found, len |-> Len(pattern), new |-> new,
     index |-> found + Len(pattern)]

\* Old lines that end empty are sought again without that line.
Sought(lines, h, at, old, new) ==
    IF SeekSequence(lines, old, at, h.eof) = NotFound /\ EndsEmpty(old)
    THEN Replacement(SeekSequence(lines, Front(old), at, h.eof), Front(old),
                     IF EndsEmpty(new) THEN Front(new) ELSE new)
    ELSE Replacement(SeekSequence(lines, old, at, h.eof), old, new)

\* One hunk of compute_replacements: where it goes, from line `from` on.
Placed(lines, h, from) ==
    LET at == IF h.header = "" THEN from ELSE SeekSequence(lines, <<h.header>>, from, FALSE) + 1
    IN IF at > NotFound THEN [ok |-> FALSE]
       ELSE IF OldLines(h) = <<>>
       THEN [ok |-> TRUE, start |-> Len(lines), len |-> 0, new |-> NewLines(h), index |-> at]
       ELSE Sought(lines, h, at, OldLines(h), NewLines(h))

\* The hunks so far, and the place of one more.
WithPlace(r, p) ==
    IF ~p.ok THEN [r EXCEPT !.ok = FALSE]
    ELSE [ok |-> TRUE, index |-> p.index,
          found |-> Append(r.found, [start |-> p.start, len |-> p.len, new |-> p.new])]

\* compute_replacements: the places of all hunks.
ComputeReplacements(lines, hunks) ==
    FoldLeft(LAMBDA r, h : IF r.ok THEN WithPlace(r, Placed(lines, h, r.index)) ELSE r,
             [ok |-> TRUE, found |-> <<>>, index |-> 0], hunks)

\* The places in the order of their starts, those of one start in the order of their hunks.
ByStart(found) ==
    FoldLeft(LAMBDA acc, p : SelectSeq(acc, LAMBDA q : q.start <= p.start) \o <<p>>
                             \o SelectSeq(acc, LAMBDA q : q.start > p.start),
             <<>>, found)

\* The replacements spliced in, from the last one back.
Spliced(lines, found) ==
    FoldRight(LAMBDA p, acc : SubSeq(acc, 1, p.start) \o p.new
                              \o SubSeq(acc, p.start + p.len + 1, Len(acc)),
              found, lines)

WithLastNewline(lines) == IF EndsEmpty(lines) THEN lines ELSE Append(lines, "")

\* derive_new_content: the whole file after all hunks.
DeriveNewContent(content, hunks) ==
    LET r == ComputeReplacements(SplitLines(content), hunks)
    IN IF r.ok THEN WithLastNewline(Spliced(SplitLines(content), ByStart(r.found))) ELSE Mismatch

IsFile(p) == disk[p] \notin {Absent, Folder}

\* apply_file_op: the change an operation makes to the files as they are now.
ApplyFileOp(op) ==
    CASE op.k = "add" -> [k |-> "added", path |-> op.path, to |-> "", new |-> Append(op.lines, "")]
      [] op.k = "delete" ->
           IF IsFile(op.path) THEN [k |-> "deleted", path |-> op.path, to |-> "", new |-> Absent] ELSE Bad
      [] op.k = "update" ->
           LET new == IF IsFile(op.path) THEN DeriveNewContent(disk[op.path], op.hunks) ELSE Mismatch
           IN IF new = Mismatch THEN Bad
              ELSE [k |-> "updated", path |-> op.path, to |-> op.to, new |-> new]

\* ensure_contained, for both paths of every operation.
EnsureContained(ops) == \A i \in DOMAIN ops : {ops[i].path, ops[i].to} \cap LinkPaths = {}

-----------------------------------------------------------------------------
(* The tool *)

PatchInit ==
    /\ disk \in Disks
    /\ before = disk
    /\ text \in Texts
    /\ patch = Bad
    /\ changes = <<>>
    /\ written = 0
    /\ patching = "called"
    /\ stopped = FALSE
    /\ faults = 0

\* Another thread cancels the turn.
CancelPatch ==
    /\ ~stopped
    /\ patching \in {"called", "parsed", "applied", "writing"}
    /\ stopped' = TRUE
    /\ UNCHANGED <<disk, before, text, patch, changes, written, patching, faults>>

\* ApplyPatchTool::run, up to the first check after parsing.
ParsesPatch ==
    /\ patching = "called"
    /\ IF stopped THEN patching' = "cancelled" /\ UNCHANGED patch
       ELSE LET p == ParsePatch(text) IN
            /\ patch' = p
            /\ patching' = IF p = Bad \/ ~EnsureContained(p.ops) THEN "failed" ELSE "parsed"
    /\ UNCHANGED <<disk, before, text, changes, written, stopped, faults>>

\* apply_patch and validate_changes: every change is known before anything is written.
AppliesPatch ==
    /\ patching = "parsed"
    /\ IF stopped THEN patching' = "cancelled" /\ UNCHANGED changes
       ELSE LET all == [i \in DOMAIN patch.ops |-> ApplyFileOp(patch.ops[i])] IN
            IF patch.ops = <<>> \/ Bad \in ToSet(all)
            THEN patching' = "failed" /\ UNCHANGED changes
            ELSE patching' = "applied" /\ changes' = all
    /\ UNCHANGED <<disk, before, text, patch, written, stopped, faults>>

\* The last look at the token: from here on the patch is written whatever happens to it.
StartsWriting ==
    /\ patching = "applied"
    /\ patching' = IF stopped THEN "cancelled" ELSE "writing"
    /\ UNCHANGED <<disk, before, text, patch, changes, written, stopped, faults>>

\* write_file: it creates the folders on the way and replaces what is there.
WriteFile(d, p, content) == [d EXCEPT ![p] = content]

Writable(p) == disk[p] # Folder
Target(c) == IF c.to = "" THEN c.path ELSE c.to

\* The files after one change of write_applied_patch.
Written(d, c) ==
    CASE c.k = "added" -> WriteFile(d, c.path, c.new)
      [] c.k = "deleted" -> WriteFile(d, c.path, Absent)
      [] c.k = "updated" /\ c.to = "" -> WriteFile(d, c.path, c.new)
      [] OTHER -> WriteFile(WriteFile(d, c.to, c.new), c.path, Absent)

\* A change the file system can carry out: a folder takes no text, a missing file no removal.
CanWrite(c) ==
    /\ c.k # "deleted" => Writable(Target(c))
    /\ c.k = "deleted" => IsFile(c.path)
    /\ c.to \notin {"", c.path} => IsFile(c.path)

\* write_applied_patch: the next change.
WritesChange ==
    /\ patching = "writing"
    /\ CanWrite(changes[written + 1])
    /\ disk' = Written(disk, changes[written + 1])
    /\ written' = written + 1
    /\ patching' = IF written + 1 = Len(changes) THEN "done" ELSE "writing"
    /\ UNCHANGED <<before, text, patch, changes, stopped, faults>>

\* An error of the file system ends the patch where it is; a move may have written its target.
WriteFails ==
    /\ patching = "writing"
    /\ LET c == changes[written + 1] IN
       /\ faults' = IF CanWrite(c) THEN faults + 1 ELSE faults
       /\ faults' <= MaxFaults
       /\ disk' \in {disk} \cup (IF c.to # "" /\ Writable(c.to) THEN {WriteFile(disk, c.to, c.new)} ELSE {})
    /\ patching' = "failed"
    /\ UNCHANGED <<before, text, patch, changes, written, stopped>>

PatchNext ==
    \/ CancelPatch
    \/ ParsesPatch
    \/ AppliesPatch
    \/ StartsWriting
    \/ WritesChange
    \/ WriteFails

PatchSpec == PatchInit /\ [][PatchNext]_patchVars

-----------------------------------------------------------------------------
(* What the tool promises *)

\* A reference for an edit: every hunk lies on its own stretch of the old lines, the
\* stretches do not overlap, and the lines outside them are kept in their order.
IsEdit(old, new, hunks) ==
    LET lines == SplitLines(old)
        Matchable(i) == {OldLines(hunks[i])} \cup
                      (IF EndsEmpty(OldLines(hunks[i])) THEN {Front(OldLines(hunks[i]))} ELSE {})
        Rest(i, pattern) == IF pattern # OldLines(hunks[i]) /\ EndsEmpty(NewLines(hunks[i]))
                            THEN Front(NewLines(hunks[i])) ELSE NewLines(hunks[i])
    IN \E pos \in [DOMAIN hunks -> 0..Len(lines)] :
       \E pat \in [DOMAIN hunks -> UNION {Matchable(i) : i \in DOMAIN hunks}] :
          LET covered(i) == pos[i] + 1..pos[i] + Len(pat[i])
              Gap(k) == FlattenSeq([i \in DOMAIN hunks |-> IF pos[i] = k THEN Rest(i, pat[i]) ELSE <<>>])
              Kept(k) == IF k = 0 \/ \E i \in DOMAIN hunks : k \in covered(i) THEN <<>> ELSE <<lines[k]>>
              built == FlattenSeq([k \in 1..Len(lines) + 1 |-> Kept(k - 1) \o Gap(k - 1)])
          IN /\ \A i \in DOMAIN hunks :
                   /\ pat[i] \in Matchable(i)
                   /\ pos[i] + Len(pat[i]) <= Len(lines)
                   /\ SubSeq(lines, pos[i] + 1, pos[i] + Len(pat[i])) = pat[i]
                   /\ pat[i] = <<>> => pos[i] = Len(lines)
                   /\ hunks[i].eof /\ pat[i] # <<>> =>
                         \A c \in pos[i] + 1..Len(lines) - Len(pat[i]) :
                             SubSeq(lines, c + 1, c + Len(pat[i])) # pat[i]
                   /\ \A j \in DOMAIN hunks : i # j => covered(i) \cap covered(j) = {}
             /\ new = IF EndsEmpty(built) THEN built ELSE Append(built, "")

\* The paths an operation names.
Names(op) == {op.path, op.to} \ {""}

\* No path is named twice.
Separate(ops) ==
    /\ \A i, j \in DOMAIN ops : i # j => Names(ops[i]) \cap Names(ops[j]) = {}
    /\ \A i \in DOMAIN ops : ops[i].path # ops[i].to

\* The text of a patch, as the agent writes it.
Printed(ops) ==
    LET Line(k, t) == [k |-> k, t |-> t]
        Hunk(h) == <<Line("at", h.header)>> \o h.lines \o (IF h.eof THEN <<Line("eof", "")>> ELSE <<>>)
        Op(o) == <<Line(o.k, o.path)>> \o (IF o.to = "" THEN <<>> ELSE <<Line("move", o.to)>>)
                 \o [i \in DOMAIN o.lines |-> Line("plus", o.lines[i])]
                 \o FlattenSeq([i \in DOMAIN o.hunks |-> Hunk(o.hunks[i])])
    IN <<Line("begin", "")>> \o FlattenSeq([i \in DOMAIN ops |-> Op(ops[i])]) \o <<Line("end", "")>>

\* A patch that is refused or cancelled before it is written changes no file; a patch that
\* breaks off while it is written has carried out its first operations and nothing of the
\* later ones; a finished patch that names no path twice leaves, in every file it names,
\* exactly what its operation says of the file as it was, and leaves the others alone; and
\* what was parsed, printed again, is parsed the same (parser.rs, apply.rs, writer.rs).
PatchSound ==
    /\ patching = "cancelled" \/ changes = <<>> => disk = before
    /\ \A p \in DOMAIN disk : disk[p] # before[p] =>
          /\ p \notin ParentPaths \cup LinkPaths
          /\ \E i \in 1..Len(changes) : i <= written + 1 /\ p \in Names(patch.ops[i])
    /\ Separate(patch.ops) =>
          \A i \in 1..written :
             LET op == patch.ops[i] IN
             /\ op.k = "add" => disk[op.path] = Append(op.lines, "")
             /\ op.k = "delete" => disk[op.path] = Absent
             /\ op.k = "update" => IsEdit(before[op.path], disk[Target(op)], op.hunks)
             /\ op.k = "update" /\ op.to # "" => disk[op.path] = Absent
    /\ patch.ops # <<>> => ParsePatch(Printed(patch.ops)) = patch

-----------------------------------------------------------------------------
(***************************************************************************)
(* The shell tool (taugentic-agent/src/tools/shell.rs) over the process    *)
(* functions of ta-exec: a command runs in a process group of its own, two *)
(* tasks copy its output under one limit, and the tool returns when the    *)
(* shell is gone and both pipes are closed.  The command may leave jobs in *)
(* the background, which keep the pipes or let go of them, and a process   *)
(* may ignore SIGTERM.                                                     *)
(*                                                                         *)
(* Output is a sequence of bytes: "x", or "n" for a newline.               *)
(***************************************************************************)
CONSTANTS
    MaxLines,   \* MAX_OUTPUT_LINES
    MaxBytes,   \* MAX_OUTPUT_BYTES
    Chunks,     \* what one write puts into a pipe
    MaxOutput   \* bound on the bytes the command writes

ASSUME LimitsAreSet == MaxLines \in Nat \ {0} /\ MaxBytes \in Nat \ {0}

Pipes == {"stdout", "stderr"}
Tree == {"shell", "job"}

VARIABLES
    phase,     \* "running", "stopping", "draining", "returned"
    ending,     \* what ended the command: "exit", "timeout" or "cancel"
    alive,     \* the processes of the group
    detached,  \* those that closed their end of both pipes
    deaf,      \* those that ignore SIGTERM
    wrote,     \* pipe -> everything written to it
    pipe,      \* pipe -> what was not read yet
    ended,     \* the pipes whose task has returned
    capture    \* OutputCapture

shellVars == <<phase, ending, alive, detached, deaf, wrote, pipe, ended, capture>>

EmptyCapture == [stdout |-> <<>>, stderr |-> <<>>, lines |-> 0, bytes |-> 0, truncated |-> FALSE]
Newlines(s) == Cardinality({i \in DOMAIN s : s[i] = "n"})

-----------------------------------------------------------------------------
(* OutputCapture *)

\* line_cut_position: after the last line that still fits, if more bytes follow it.
LineCut(bytes, remaining) ==
    IF remaining = 0 THEN 0
    ELSE LET at == {i \in DOMAIN bytes : bytes[i] = "n" /\ Newlines(SubSeq(bytes, 1, i)) = remaining}
         IN IF at = {} THEN Len(bytes) ELSE CHOOSE i \in at : TRUE

SmallerOf(a, b) == IF a <= b THEN a ELSE b

\* accepted_prefix: how much of a chunk is kept.
Accepted(c, bytes) ==
    IF c.truncated \/ c.lines >= MaxLines \/ c.bytes >= MaxBytes THEN 0
    ELSE SmallerOf(SmallerOf(MaxBytes - c.bytes, LineCut(bytes, MaxLines - c.lines)), Len(bytes))

\* append, and mark_truncated when something is left out.
Appended(c, p, bytes) ==
    LET kept == SubSeq(bytes, 1, Accepted(c, bytes)) IN
    [c EXCEPT ![p] = @ \o kept,
              !.bytes = @ + Len(kept),
              !.lines = @ + Newlines(kept),
              !.truncated = @ \/ Len(kept) < Len(bytes)]

-----------------------------------------------------------------------------
\* spawn_shell has started the command; an empty command or a cwd outside the work
\* directory never gets here.
ShellInit ==
    /\ phase = "running"
    /\ ending = "none"
    /\ alive = {"shell"}
    /\ detached = {}
    /\ deaf \in SUBSET Tree
    /\ wrote = [p \in Pipes |-> <<>>]
    /\ pipe = wrote
    /\ ended = {}
    /\ capture = EmptyCapture

\* The command writes (external).
CommandWrites(p, chunk) ==
    /\ alive \ detached # {}
    /\ Len(wrote["stdout"]) + Len(wrote["stderr"]) + Len(chunk) <= MaxOutput
    /\ wrote' = [wrote EXCEPT ![p] = @ \o chunk]
    /\ pipe' = [pipe EXCEPT ![p] = @ \o chunk]
    /\ UNCHANGED <<phase, ending, alive, detached, deaf, ended, capture>>

\* The shell leaves a job in the background, with the pipes or without them (external).
StartsJob ==
    /\ "shell" \in alive
    /\ "job" \notin alive
    /\ phase = "running"
    /\ alive' = alive \cup {"job"}
    /\ detached' \in {detached, detached \cup {"job"}}
    /\ UNCHANGED <<phase, ending, deaf, wrote, pipe, ended, capture>>

\* A process ends by itself (external).
ProcessExits(x) ==
    /\ x \in alive
    /\ alive' = alive \ {x}
    /\ UNCHANGED <<phase, ending, detached, deaf, wrote, pipe, ended, capture>>

\* run: the shell has exited before the timer and the token.
SeesExit ==
    /\ phase = "running"
    /\ "shell" \notin alive
    /\ phase' = "draining"
    /\ ending' = "exit"
    /\ UNCHANGED <<alive, detached, deaf, wrote, pipe, ended, capture>>

\* signal_child: killpg reaches every process of the group.
SignalChild(victims) == alive' = alive \ victims

\* run: the timeout or the token wins the select; terminate_with sends SIGTERM.
TerminatesTree(why) ==
    /\ phase = "running"
    /\ phase' = "stopping"
    /\ ending' = why
    /\ SignalChild(Tree \ deaf)
    /\ UNCHANGED <<detached, deaf, wrote, pipe, ended, capture>>

\* terminate_with: the shell is gone within the grace period.
StopsInTime ==
    /\ phase = "stopping"
    /\ "shell" \notin alive
    /\ phase' = "draining"
    /\ UNCHANGED <<ending, alive, detached, deaf, wrote, pipe, ended, capture>>

\* terminate_with: the grace period is over and the shell is not; SIGKILL.
KillsTree ==
    /\ phase = "stopping"
    /\ "shell" \in alive
    /\ SignalChild(Tree)
    /\ phase' = "draining"
    /\ UNCHANGED <<ending, detached, deaf, wrote, pipe, ended, capture>>

\* capture_pipe: one read.
ReadsPipe(p) ==
    /\ p \notin ended
    /\ pipe[p] # <<>>
    /\ \E n \in 1..Len(pipe[p]) :
          /\ capture' = Appended(capture, p, SubSeq(pipe[p], 1, n))
          /\ pipe' = [pipe EXCEPT ![p] = SubSeq(@, n + 1, Len(@))]
    /\ UNCHANGED <<phase, ending, alive, detached, deaf, wrote, ended>>

\* capture_pipe: nobody holds the other end any more.
PipeEnds(p) ==
    /\ p \notin ended
    /\ pipe[p] = <<>>
    /\ alive \subseteq detached
    /\ ended' = ended \cup {p}
    /\ UNCHANGED <<phase, ending, alive, detached, deaf, wrote, pipe, capture>>

\* run: both tasks have returned.
ShellReturns ==
    /\ phase = "draining"
    /\ ended = Pipes
    /\ phase' = "returned"
    /\ UNCHANGED <<ending, alive, detached, deaf, wrote, pipe, ended, capture>>

ShellNext ==
    \/ StartsJob \/ SeesExit \/ TerminatesTree("timeout") \/ TerminatesTree("cancel")
    \/ StopsInTime \/ KillsTree \/ ShellReturns
    \/ \E x \in Tree : ProcessExits(x)
    \/ \E p \in Pipes : ReadsPipe(p) \/ PipeEnds(p) \/ \E chunk \in Chunks : CommandWrites(p, chunk)

ShellSpec == ShellInit /\ [][ShellNext]_shellVars

-----------------------------------------------------------------------------
\* However the two pipes are interleaved and cut into reads, the tool keeps at most the
\* limits, keeps of each pipe only what was written first, and says "truncated" exactly when
\* something was left out (OutputCapture).
CaptureSound ==
    /\ capture.bytes = Len(capture.stdout) + Len(capture.stderr)
    /\ capture.bytes <= MaxBytes
    /\ Newlines(capture.stdout) + Newlines(capture.stderr) <= MaxLines
    /\ \A p \in Pipes : IsPrefix(capture[p], wrote[p])
    /\ phase = "returned" =>
          (capture.truncated <=> \E p \in Pipes : capture[p] # wrote[p])

\* A command that was timed out or cancelled leaves no process behind that would have obeyed
\* SIGTERM, and none at all when its shell had to be killed (terminate_child_tree).
NothingObedientLeft ==
    phase \in {"draining", "returned"} /\ ending \in {"timeout", "cancel"} => alive \subseteq deaf \ {"shell"}

ShellSound == CaptureSound /\ NothingObedientLeft

\* A cancelled command leaves no process of its group behind: the claim of the test
\* shell_cancel_kills_process_group.
CancelKillsGroup == phase = "returned" /\ ending = "cancel" => alive = {}
=============================================================================
