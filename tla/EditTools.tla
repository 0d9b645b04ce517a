----------------------------- MODULE EditTools ------------------------------
(***************************************************************************)
(* The tools with which an agent changes files                             *)
(* (crates/zeta-agent/src/tools/edit.rs and files.rs): read, write, the    *)
(* exact and the tagged edit, and the patch of several files.  A call      *)
(* reads, prepares, changes files and records a diff in separate steps;    *)
(* another agent or a person may change a file between any two of them.    *)
(*                                                                         *)
(* A file is a sequence of characters, and files hold text.  Tags are      *)
(* taken to identify contents.  The texts of an edit and of a patch are    *)
(* modelled as what they parse to.                                         *)
(*                                                                         *)
(* A definition named X_Y is X with a plausible mistake Y; it is never     *)
(* used by the specification.                                              *)
(***************************************************************************)
EXTENDS Naturals, Sequences, SequencesExt, FiniteSets, FiniteSetsExt

CONSTANTS
  Paths,       \* names of files in the base directory
  Orphans,     \* those whose directory does not exist
  Contents,    \* what the files may hold at first
  Calls,       \* the calls the model may make
  Context,     \* unchanged lines a diff shows around a change (3)
  Faults,      \* whether the file system may refuse an operation
  MaxCalls,    \* bound on calls
  MaxOther,    \* bound on changes by others
  None

VARIABLES
  files,       \* path -> text, None where there is no file
  seen,        \* path -> the text the model's tag of it stands for
  call,        \* the call under way, or the last one
  stage,       \* "idle", "prepare", "commit" or "record"
  changes,     \* the changes prepared so far
  todo,        \* file operations still to be performed
  diff,        \* the diff of a finished edit
  result,      \* "none" during a call, then "ok", an error code or "panicked"
  touched,     \* paths this call has changed
  disturbed,   \* the stages of it in which someone else changed a file
  previous,    \* the last call and the files before this one began
  calls, others

vars == <<files, seen, call, stage, changes, todo, diff, result, touched, disturbed,
          previous, calls, others>>

NL == 10

Concat(lines) == FlattenSeq(lines)

(* owned_lines: every line keeps its newline; the last may lack one.       *)
OwnedLines(text) ==
  FoldLeft(LAMBDA lines, c :
             IF lines # <<>> /\ Last(Last(lines)) # NL
             THEN [lines EXCEPT ![Len(lines)] = Append(@, c)]
             ELSE Append(lines, <<c>>),
           <<>>, text)

(* Replaces the elements after the first `from` up to the `to`-th; None    *)
(* stands for the panic of a range that passes the end.                    *)
Splice(s, from, to, body) ==
  IF to > Len(s) THEN None
  ELSE SubSeq(s, 1, from) \o body \o SubSeq(s, to + 1, Len(s))

Error(code) == [ok |-> FALSE, code |-> code]
Value(v) == IF v = None THEN Error("panicked") ELSE [ok |-> TRUE, value |-> v]

-----------------------------------------------------------------------------
(* exact_edit: old must occur once, counting occurrences that do not       *)
(* overlap, and the first is replaced.                                     *)
Occurrences(text, old) ==
  LET at(i) == i + Len(old) <= Len(text) /\ SubSeq(text, i + 1, i + Len(old)) = old
      from[i \in 0..Len(text)] ==
        IF at(i) THEN <<i>> \o from[i + Len(old)]
        ELSE IF i = Len(text) THEN <<>> ELSE from[i + 1] IN
  from[0]

ExactEdit(text, old, new) ==
  LET found == Occurrences(text, old) IN
  IF found = <<>> THEN Error("old-text-not-found")
  ELSE IF Len(found) > 1 THEN Error("old-text-not-unique")
  ELSE Value(Splice(text, found[1], found[1] + Len(old), new))

(* parse_hashline and the headers of its operations.                       *)
WellFormed(op) ==
  /\ 1 <= op.start /\ op.start <= op.end
  /\ op.kind \in {"INS.PRE", "INS.POST"} => op.start = op.end
  /\ (op.kind = "DEL") <=> (op.body = <<>>)

InRange(op, count) ==
  CASE op.kind = "INS.PRE" -> op.start <= (IF count = 0 THEN 1 ELSE count)
    [] op.kind = "INS.POST" -> op.start <= count
    [] OTHER -> op.end <= count

Replaces(op) == op.kind \in {"SWAP", "DEL"}

(* The overlap check of apply_line_operations: insertions are not part of  *)
(* it.                                                                     *)
Overlap(ops) ==
  \E i, j \in DOMAIN ops :
     /\ i # j
     /\ Replaces(ops[i]) /\ Replaces(ops[j])
     /\ ops[i].start <= ops[j].start /\ ops[j].start <= ops[i].end

LineOperation(lines, op) ==
  IF lines = None THEN None
  ELSE CASE op.kind = "INS.PRE" -> Splice(lines, op.start - 1, op.start - 1, op.body)
         [] op.kind = "INS.POST" -> Splice(lines, op.end, op.end, op.body)
         [] OTHER -> Splice(lines, op.start - 1, op.end, op.body)

(* From the last line to the first; of two operations that start on the    *)
(* same line, the first written goes first.                                *)
LastLineFirst_Authored(ops) == ops

LastLineFirst(ops) ==
  LET earlier(i, j) ==
        ops[i].start > ops[j].start \/ (ops[i].start = ops[j].start /\ i < j)
      order == SetToSortSeq(DOMAIN ops, earlier) IN
  [i \in DOMAIN ops |-> ops[order[i]]]

ApplyLineOperations(text, ops) ==
  LET lines == OwnedLines(text) IN
  IF \E i \in DOMAIN ops : ~InRange(ops[i], Len(lines)) THEN Error("line-out-of-range")
  ELSE IF Overlap(ops) THEN Error("overlapping-operations")
  ELSE LET after == FoldLeft(LineOperation, lines, LastLineFirst(ops)) IN
       IF after = None THEN Error("panicked") ELSE Value(Concat(after))

-----------------------------------------------------------------------------
(* apply_hunks: hunk after hunk, each at the one place after the previous  *)
(* one where its old lines stand.                                          *)
TrimEnd(line) == IF line # <<>> /\ Last(line) = NL THEN Front(line) ELSE line

OldLines(hunk) ==
  LET old == SelectSeq(hunk.lines, LAMBDA l : l.sign # "+") IN
  [i \in DOMAIN old |-> Append(old[i].text, NL)]

NewLines(hunk) ==
  LET new == SelectSeq(hunk.lines, LAMBDA l : l.sign # "-") IN
  [i \in DOMAIN new |-> Append(new[i].text, NL)]

Only(matches) ==
  CASE matches = {} -> Error("patch-context-mismatch")
    [] Cardinality(matches) > 1 -> Error("patch-context-ambiguous")
    [] OTHER -> Value(CHOOSE m \in matches : TRUE)

(* The line the hunk's context moves the cursor to.                        *)
ContextCursor(lines, cursor, hunk) ==
  IF hunk.context = <<>> THEN Value(cursor)
  ELSE LET line == Only({i \in cursor..(Len(lines) - 1) :
                           TrimEnd(lines[i + 1]) = hunk.context}) IN
       IF line.ok THEN Value(line.value + 1) ELSE line

(* Where the old lines stand.  Comparing with a slice past the end panics: *)
(* the last start is not below zero even when the hunk is longer than the  *)
(* file.                                                                   *)
Place(lines, cursor, hunk) ==
  LET old == OldLines(hunk)
      final == IF Len(lines) < Len(old) THEN 0 ELSE Len(lines) - Len(old) IN
  IF old = <<>> THEN Value(IF hunk.eof THEN Len(lines) ELSE cursor)
  ELSE IF cursor <= final /\ final + Len(old) > Len(lines) THEN Error("panicked")
  ELSE Only({i \in cursor..final :
               /\ SubSeq(lines, i + 1, i + Len(old)) = old
               /\ hunk.eof => i + Len(old) = Len(lines)})

Hunk(state, hunk) ==
  IF ~state.ok THEN state
  ELSE LET lines == state.value.lines
           cursor == ContextCursor(lines, state.value.cursor, hunk) IN
       IF ~cursor.ok THEN cursor
       ELSE LET place == Place(lines, cursor.value, hunk) IN
            IF ~place.ok THEN place
            ELSE Value([lines |-> Splice(lines, place.value,
                                    place.value + Len(OldLines(hunk)), NewLines(hunk)),
                        cursor |-> place.value + Len(NewLines(hunk))])

ApplyHunks(text, hunks) ==
  LET final == FoldLeft(Hunk, Value([lines |-> OwnedLines(text), cursor |-> 0]), hunks) IN
  IF final.ok THEN Value(Concat(final.value.lines)) ELSE final

-----------------------------------------------------------------------------
(* prepare_change: what a section of a patch would change, from the files  *)
(* as they are.                                                            *)
Change(section, before, after) ==
  Value([kind |-> section.kind, path |-> section.path, to |-> section.move,
         before |-> before, after |-> after])

(* parse_hunks, and the lines an added or deleted file may have.           *)
Malformed(section) == section.malformed

PrepareTarget(path) ==
  CASE path \notin Paths -> "invalid-patch-path"
    [] files[path] # None -> "patch-target-exists"
    [] path \in Orphans -> "patch-parent-missing"
    [] OTHER -> "ok"

PrepareAdd(section) ==
  CASE PrepareTarget(section.path) # "ok" -> Error(PrepareTarget(section.path))
    [] Malformed(section) -> Error("invalid-patch")
    [] OTHER -> Change(section, None, section.text)

PrepareDelete(section) ==
  CASE Malformed(section) -> Error("invalid-patch")
    [] files[section.path] = None -> Error("patch-read-failed")
    [] OTHER -> Change(section, files[section.path], None)

PrepareUpdate(section) ==
  LET before == files[section.path] IN
  IF before = None THEN Error("patch-read-failed")
  ELSE IF Malformed(section) THEN Error("invalid-patch")
  ELSE LET after == ApplyHunks(before, section.hunks) IN
       IF ~after.ok THEN after
       ELSE IF section.move # None /\ PrepareTarget(section.move) # "ok"
       THEN Error(PrepareTarget(section.move))
       ELSE IF section.move = None /\ after.value = before THEN Error("empty-patch")
       ELSE Change(section, before, after.value)

PrepareChange(section) ==
  CASE section.path \notin Paths -> Error("invalid-patch-path")
    [] section.kind = "add" -> PrepareAdd(section)
    [] section.kind = "delete" -> PrepareDelete(section)
    [] OTHER -> PrepareUpdate(section)

(* The paths the changes prepared so far use.                              *)
Used_Nothing == {}

Used == UNION {{changes[i].path, changes[i].to} \ {None} : i \in DOMAIN changes}

-----------------------------------------------------------------------------
(* The file operations of a change: a moved file is written at its new     *)
(* place, then removed from the old one.                                   *)
WriteFile(path, text) == [op |-> "write", path |-> path, text |-> text]
RemoveFile(path) == [op |-> "remove", path |-> path, text |-> None]

Operations(change) ==
  CASE change.kind = "delete" -> <<RemoveFile(change.path)>>
    [] change.to # None -> <<WriteFile(change.to, change.after), RemoveFile(change.path)>>
    [] OTHER -> <<WriteFile(change.path, change.after)>>

Performed(fs, operation) == [fs EXCEPT ![operation.path] = operation.text]

(* replacement_patch: the lines before the change, what it takes away, what*)
(* it adds and the lines after it.                                         *)
CommonEnd(before, after, prefix) ==
  Max({n \in 0..(Len(before) - prefix) : n <= Len(after) - prefix
         /\ \A i \in 0..(n - 1) : before[Len(before) - i] = after[Len(after) - i]})

ReplacementPatch(old, new) ==
  LET before == OwnedLines(old)
      after == OwnedLines(new)
      prefix == Len(LongestCommonPrefix({before, after}))
      suffix == CommonEnd(before, after, prefix)
      start == IF prefix < Context THEN 0 ELSE prefix - Context
      end(lines) == Min({Len(lines), Len(lines) - suffix + Context}) IN
  [start |-> start,
   removes |-> end(before) - start,
   adds |-> end(after) - start,
   lead |-> SubSeq(before, start + 1, prefix),
   minus |-> SubSeq(before, prefix + 1, Len(before) - suffix),
   plus |-> SubSeq(after, prefix + 1, Len(after) - suffix),
   tail |-> SubSeq(before, Len(before) - suffix + 1, end(before))]

-----------------------------------------------------------------------------
Init ==
  /\ files \in [Paths -> Contents \union {None}]
  /\ \A p \in Orphans : files[p] = None
  /\ seen = [p \in Paths |-> None]
  /\ call = None /\ stage = "idle"
  /\ changes = <<>> /\ todo = <<>> /\ diff = None
  /\ result = "none"
  /\ touched = {} /\ disturbed = {}
  /\ previous = None
  /\ calls = 0 /\ others = 0

(* read: the answer carries the tag of the whole file.                     *)
Read(p) ==
  /\ stage = "idle" /\ calls < MaxCalls
  /\ files[p] # None /\ seen[p] # files[p]
  /\ seen' = [seen EXCEPT ![p] = files[p]]
  /\ UNCHANGED <<files, call, stage, changes, todo, diff, result, touched, disturbed,
                 previous, calls, others>>

Start(c) ==
  /\ stage = "idle" /\ calls < MaxCalls
  /\ c.tool = "hashline" => seen[c.path] # None
  /\ previous' = [call |-> call, result |-> result, files |-> files]
  /\ call' = c /\ stage' = "prepare"
  /\ changes' = <<>> /\ todo' = <<>> /\ diff' = None
  /\ result' = "none"
  /\ touched' = {} /\ disturbed' = {}
  /\ calls' = calls + 1
  /\ UNCHANGED <<files, seen, others>>

Ends(code) ==
  /\ stage' = "idle" /\ result' = code
  /\ UNCHANGED <<files, seen, call, changes, todo, diff, touched, disturbed, previous,
                 calls, others>>

(* hashline_edit: the tag must be that of the file as it is now.           *)
HashlineEdit(text) ==
  IF \E i \in DOMAIN call.operations : ~WellFormed(call.operations[i])
  THEN Error("invalid-operation")
  ELSE IF text = None THEN Error("read-failed")
  ELSE IF seen[call.path] # text THEN Error("stale-tag")
  ELSE ApplyLineOperations(text, call.operations)

Edited ==
  LET text == files[call.path] IN
  IF call.tool = "hashline" THEN HashlineEdit(text)
  ELSE IF text = None THEN Error("read-failed")
  ELSE ExactEdit(text, call.old, call.new)

(* edit up to the write of finish_edit: the file is read, the result       *)
(* computed, and an edit without effect refused.                           *)
PrepareEdit ==
  /\ stage = "prepare" /\ call.tool \in {"exact", "hashline"}
  /\ IF ~Edited.ok THEN Ends(Edited.code)
     ELSE IF Edited.value = files[call.path] THEN Ends("empty-edit")
     ELSE /\ stage' = "commit"
          /\ changes' = <<[kind |-> "update", path |-> call.path, to |-> None,
                           before |-> files[call.path], after |-> Edited.value]>>
          /\ todo' = <<WriteFile(call.path, Edited.value)>>
          /\ diff' = ReplacementPatch(files[call.path], Edited.value)
          /\ UNCHANGED <<files, seen, call, result, touched, disturbed, previous,
                         calls, others>>

(* write replaces whatever the file holds.                                 *)
PrepareWrite ==
  /\ stage = "prepare" /\ call.tool = "write"
  /\ stage' = "commit"
  /\ todo' = <<WriteFile(call.path, call.text)>>
  /\ UNCHANGED <<files, seen, call, changes, diff, result, touched, disturbed, previous,
                 calls, others>>

(* prepare_changes: one section after the other; nothing is written before *)
(* all of them are prepared.                                               *)
PrepareSection ==
  /\ stage = "prepare" /\ call.tool = "patch"
  /\ call.sections # <<>>
  /\ LET section == call.sections[Len(changes) + 1]
         change == PrepareChange(section) IN
     IF ~change.ok THEN Ends(change.code)
     ELSE IF {section.path, section.move} \intersect Used # {} THEN Ends("patch-path-conflict")
     ELSE /\ changes' = Append(changes, change.value)
          /\ IF Len(changes') = Len(call.sections)
             THEN /\ stage' = "commit"
                  /\ todo' = FlattenSeq([i \in DOMAIN changes' |-> Operations(changes'[i])])
             ELSE UNCHANGED <<stage, todo>>
          /\ UNCHANGED <<files, seen, call, diff, result, touched, disturbed, previous,
                         calls, others>>

(* parse_patch_sections refuses a text that is no patch.                   *)
RefusePatch ==
  /\ stage = "prepare" /\ call.tool = "patch"
  /\ call.sections = <<>>
  /\ Ends("invalid-patch")

(* The next operation of commit_changes, or the write of an edit.  Writing *)
(* creates the file or replaces what it holds by now.                      *)
Commit ==
  /\ stage = "commit"
  /\ LET operation == Head(todo) IN
     /\ operation.op = "remove" => files[operation.path] # None
     /\ operation.path \notin Orphans
     /\ files' = Performed(files, operation)
     /\ touched' = touched \union {operation.path}
     /\ todo' = Tail(todo)
     /\ IF Len(todo) > 1 THEN UNCHANGED <<stage, result>>
        ELSE IF call.tool = "write" THEN stage' = "idle" /\ result' = "ok"
        ELSE stage' = "record" /\ UNCHANGED result
     /\ UNCHANGED <<seen, call, changes, diff, disturbed, previous, calls, others>>

(* An operation fails: the removal of a file that is gone, a write without *)
(* a directory, or a refusal.  A write that fails may have emptied the     *)
(* file.  What earlier operations did stays.                               *)
CommitFails ==
  /\ stage = "commit"
  /\ LET operation == Head(todo)
         gone == operation.op = "remove" /\ files[operation.path] = None
         orphan == operation.path \in Orphans IN
     /\ Faults \/ gone \/ orphan
     /\ \/ UNCHANGED <<files, touched>>
        \/ /\ operation.op = "write" /\ ~orphan
           /\ files' = [files EXCEPT ![operation.path] = <<>>]
           /\ touched' = touched \union {operation.path}
  /\ stage' = "idle"
  /\ result' = IF call.tool = "patch" THEN "patch-write-failed" ELSE "write-failed"
  /\ UNCHANGED <<seen, call, changes, todo, diff, disturbed, previous, calls, others>>

(* write_artifact: when it fails, the call fails although the files have   *)
(* changed.                                                                *)
Record ==
  /\ stage = "record"
  /\ \/ Ends("ok")
     \/ Faults /\ Ends("artifact-write-failed")

(* Another agent, or a person, changes a file.                             *)
Other(p, text) ==
  /\ others < MaxOther
  /\ p \notin Orphans /\ files[p] # text
  /\ files' = [files EXCEPT ![p] = text]
  /\ disturbed' = disturbed \union {stage}
  /\ others' = others + 1
  /\ UNCHANGED <<seen, call, stage, changes, todo, diff, result, touched, previous, calls>>

Next ==
  \/ \E p \in Paths : Read(p)
  \/ \E c \in Calls : Start(c)
  \/ PrepareEdit
  \/ PrepareWrite
  \/ PrepareSection
  \/ RefusePatch
  \/ Commit
  \/ CommitFails
  \/ Record
  \/ \E p \in Paths, text \in Contents \union {None} : Other(p, text)

Spec == Init /\ [][Next]_vars

-----------------------------------------------------------------------------
Texts == Seq(Nat)
Codes == {"none", "ok", "panicked", "invalid-operation", "read-failed", "stale-tag",
          "line-out-of-range", "overlapping-operations", "old-text-not-found",
          "old-text-not-unique", "empty-edit", "invalid-patch", "invalid-patch-path",
          "patch-target-exists", "patch-parent-missing", "patch-read-failed",
          "patch-context-mismatch", "patch-context-ambiguous", "empty-patch",
          "patch-path-conflict", "write-failed", "patch-write-failed",
          "artifact-write-failed"}

(* Files hold texts or are missing, a call is in one of its stages, its    *)
(* answer is "ok" or one of the error codes of the two files, and what it  *)
(* has left to do are operations on the files of the base directory.       *)
TypeOK ==
  /\ files \in [Paths -> Texts \union {None}]
  /\ seen \in [Paths -> Texts \union {None}]
  /\ call # None => call.tool \in {"write", "exact", "hashline", "patch"}
  /\ stage \in {"idle", "prepare", "commit", "record"}
  /\ result \in Codes
  /\ \A i \in DOMAIN todo : todo[i].path \in Paths /\ todo[i].op \in {"write", "remove"}
  /\ touched \subseteq Paths
  /\ disturbed \subseteq {"idle", "prepare", "commit", "record"}
  /\ calls \in 0..MaxCalls /\ others \in 0..MaxOther

AfterFirstWrite == {"none", "ok", "write-failed", "patch-write-failed",
                    "artifact-write-failed"}

(* "This check prevents an invalid later section from causing a partial    *)
(* patch" (docs/tool-profiles.md): a call refused for what it asks, by the *)
(* check of any section or of the edit, has changed no file.               *)
RefusedCallsChangeNothing == result \notin AfterFirstWrite => touched = {}

(* A patch that is answered "ok", while nobody else changed a file, left   *)
(* every file as its own section said and every other file alone: no       *)
(* section was undone by a later one.                                      *)
AppliedPatchIsComplete ==
  call # None /\ result = "ok" /\ disturbed = {} =>
    (call.tool = "patch" =>
      /\ \A i \in DOMAIN changes :
           LET change == changes[i]
               last == IF change.to = None THEN change.path ELSE change.to IN
           /\ files[last] = change.after
           /\ change.to # None => files[change.path] = None
      /\ \A p \in Paths \ Used : files[p] = previous.files[p])

(* The lines an operation takes away, none for an insertion, and the line  *)
(* after which it puts its body.                                           *)
Taken(op) == IF Replaces(op) THEN op.start..op.end ELSE {}
Behind(op) == IF op.kind = "INS.POST" THEN op.start ELSE op.start - 1

(* No two operations start on the same line, and none puts its body        *)
(* between two lines that another takes away.                              *)
Apart(ops) ==
  \A i, j \in DOMAIN ops : i # j =>
    /\ ops[i].start # ops[j].start
    /\ ~({Behind(ops[i]), Behind(ops[i]) + 1} \subseteq Taken(ops[j]))

(* What a reader of the operations expects: behind every line of the file  *)
(* they saw stand the bodies put there, those about earlier lines first,   *)
(* and the lines taken away are gone.                                      *)
Simultaneous(lines, ops) ==
  LET at(n) == SetToSortSeq({i \in DOMAIN ops : Behind(ops[i]) = n},
                            LAMBDA i, j : ops[i].start < ops[j].start)
      bodies(n) == FlattenSeq([i \in DOMAIN at(n) |-> ops[at(n)[i]].body])
      kept(n) == IF n = 0 \/ \E i \in DOMAIN ops : n \in Taken(ops[i])
                 THEN <<>> ELSE <<lines[n]>> IN
  FlattenSeq([n \in 1..(Len(lines) + 1) |-> kept(n - 1) \o bodies(n - 1)])

(* A tagged edit overwrites the text its tag was read from: a change by    *)
(* others before the tool reads the file makes it refuse the edit, however *)
(* long ago the tag was taken.  Between that read and the write nothing    *)
(* protects the file: a change made there is overwritten.                  *)
TagsGroundEdits ==
  stage = "commit" =>
    (call.tool = "hashline" /\ "commit" \notin disturbed =>
       files[call.path] = seen[call.path])

(* Operations that are apart do not shift each other: all of them take     *)
(* effect by the numbering the model saw, whatever their order and however *)
(* many lines the others add or take away.                                 *)
LineOperationsAreSimultaneous ==
  stage \in {"commit", "record"} =>
    (call.tool = "hashline" /\ Apart(call.operations) =>
       changes[1].after = Concat(Simultaneous(OwnedLines(changes[1].before), call.operations)))

(* The hunks of an update rewrite places of the old file, one after the    *)
(* other and apart from each other: no hunk rewrites what an earlier hunk  *)
(* has put there.                                                          *)
HunksRewriteInOrder ==
  \A i \in DOMAIN changes :
    call.tool = "patch" /\ changes[i].kind = "update" =>
      LET lines == OwnedLines(changes[i].before)
          hunks == call.sections[i].hunks
          size(k) == Len(OldLines(hunks[k])) IN
      \E place \in [DOMAIN hunks -> 0..Len(lines)] :
        LET gap(k) == SubSeq(lines, (IF k = 1 THEN 0 ELSE place[k - 1] + size(k - 1)) + 1,
                             place[k]) IN
        /\ \A k \in DOMAIN hunks :
             /\ place[k] + size(k) <= Len(lines)
             /\ SubSeq(lines, place[k] + 1, place[k] + size(k)) = OldLines(hunks[k])
             /\ k > 1 => place[k - 1] + size(k - 1) <= place[k]
        /\ changes[i].after =
             Concat(FlattenSeq([k \in DOMAIN hunks |-> gap(k) \o NewLines(hunks[k])])
                    \o SubSeq(lines, place[Len(hunks)] + size(Len(hunks)) + 1, Len(lines)))

(* The diff kept of an edit is a diff of it: its header counts its lines,  *)
(* the lines it shows of the old file are there, and putting the new ones  *)
(* in their place gives the new file.                                      *)
DiffsDescribeEdits ==
  diff # None =>
    LET lines == OwnedLines(changes[1].before)
        shown == diff.lead \o diff.minus \o diff.tail
        put == diff.lead \o diff.plus \o diff.tail IN
    /\ shown = SubSeq(lines, diff.start + 1, diff.start + diff.removes)
    /\ Len(put) = diff.adds
    /\ Concat(Splice(lines, diff.start, diff.start + diff.removes, put)) = changes[1].after

(* "Built-in `write` and `edit` are content-idempotent" (docs/concepts.md):*)
(* a write or an edit repeated right after it succeeded leaves the file as *)
(* it is.                                                                  *)
EditsAreIdempotent ==
  (/\ stage = "idle" /\ result = "ok"
   /\ call = previous.call /\ previous.result = "ok"
   /\ call.tool # "patch") =>
     files = previous.files

(* "Update context must have one exact match" (docs/tool-profiles.md): a   *)
(* call whose operations do not fit the file is answered with an error.    *)
UnfitCallsAreRefused == result # "panicked"

=============================================================================
