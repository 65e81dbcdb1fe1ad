-------------------------------- MODULE Bake --------------------------------
(***************************************************************************)
(* The command line: bake, render-preview and dump-npy over one output     *)
(* directory, one command after another, any of which may fail at any call *)
(* or be interrupted.  Loading is Document's.  A bake produces its frames  *)
(* in order by Timeline::goto and writes each into a file of its own,      *)
(* through elements-io's write_float_grids.                                *)
(*                                                                         *)
(* A grid is known by what it holds: the frame, the socket, and for a face *)
(* of a vector field its axis.  A file is known by the command that made   *)
(* it and the grids that are complete in it.                               *)
(***************************************************************************)
EXTENDS Document

CONSTANTS
    MaxFrame,       \* u32::MAX, scaled down
    StartFrame,     \* every document's start_frame
    MaxCommands,    \* how many commands are run (a bound)
    MaxEdge,        \* ROOT_CHILD_DIM: the largest edge of a VDB tree
    Stem            \* the name given on the command line

Frames == 0..MaxFrame

Axes == <<"x", "y", "z">>

Absent == [by |-> 0, grids |-> <<>>]

\* Where the single file of a preview or an array goes.
OutFile == MaxFrame + 1

Places == Frames \cup {OutFile}

ASSUME BakeAssumption ==
    /\ MaxFrame \in Nat /\ StartFrame \in Frames
    /\ MaxCommands \in Nat /\ MaxEdge \in Nat
    /\ Stem \in Text

VARIABLES
    command,        \* the command being run, or the last one
    number,         \* how many commands have been started
    pc,             \* where it has got to
    frame,          \* the loop's frame
    held,           \* the evaluated values, not yet given back to the pool
    grids,          \* the grids read back so far, in order
    reading,        \* read_grids: the output it is at
    writing,        \* the grid being written
    failed,         \* read_grids has met an error
    unremovable,    \* remove_file itself has failed
    hasDir,         \* the output directory exists
    files,          \* what is at each place
    outcome         \* how the last command ended, or "none"

loading == <<caller, doc, stage, at, graph, refusal>>
locals == <<frame, held, grids, reading, writing, failed, unremovable>>
disk == <<hasDir, files>>
bakeVars == <<loading, command, number, pc, locals, disk, outcome>>

Baking == command.kind = "bake"

\* Only a document with an outputs list has its outputs written.
Multi == Baking /\ doc # Nothing /\ doc.outputs # <<>>

Commands ==
    {c \in [kind : {"bake", "preview", "array"}, first : Frames, last : Frames,
            slice : 0..1] :
        /\ c.kind # "bake" => c.first = 0 /\ c.last = 0
        /\ c.kind # "preview" => c.slice = 0}

(***************************************************************************)
(* grids.rs: the grids' names.                                             *)
(***************************************************************************)
\* Faulty variant of NamesOf: a vector output keeps its one name.
NamesUnexpanded(g, d, i) == <<d.outputs[i].name>>

\* The names the i-th output of the document expands to.
NamesOf(g, d, i) ==
    IF OutputType(g, ExtraSockets(d)[i]) = "vector"
    THEN [a \in 1..3 |-> Append(d.outputs[i].name, Axes[a])]
    ELSE <<d.outputs[i].name>>

\* NamesUpTo(g, d)[n]: the names of the first n outputs, in file order.
NamesUpTo(g, d) ==
    LET upTo[n \in 0..Len(d.outputs)] ==
            IF n = 0 THEN <<>> ELSE upTo[n - 1] \o NamesOf(g, d, n)
    IN  upTo

ExpandedNames(g, d) == NamesUpTo(g, d)[Len(d.outputs)]

Distinct(s) == \A i, j \in 1..Len(s) : s[i] = s[j] => i = j

(***************************************************************************)
(* What a frame's grids hold.                                              *)
(***************************************************************************)
\* goto never shows a frame before the document's first.
ShownFrame(f) == IF f < StartFrame THEN StartFrame ELSE f

Result(f) == [frame |-> f, socket |-> Socket(graph.output, 0), axis |-> "none"]

\* read_one: a field is one grid, a vector field is one for each axis.
GridsOf(f, s) ==
    IF OutputType(graph, s) = "vector"
    THEN [a \in 1..3 |-> [frame |-> f, socket |-> s, axis |-> Axes[a]]]
    ELSE <<[frame |-> f, socket |-> s, axis |-> "none"]>>

\* The values an evaluation hands over, known by their sockets.
Values == {Socket(graph.output, 0)} \cup {graph.extras[i] : i \in DOMAIN graph.extras}

SingleName == <<Stem>>

GridNames == IF Multi THEN ExpandedNames(graph, doc) ELSE <<SingleName>>

\* Names and grids are zipped: the shorter list decides.
Zipped ==
    [i \in 1..(IF Len(grids) < Len(GridNames) THEN Len(grids) ELSE Len(GridNames))
        |-> [name |-> GridNames[i], data |-> grids[i]]]

\* Faulty variant of Place: a file is named after the frame it shows.
PlaceShown == IF Baking THEN ShownFrame(frame) ELSE OutFile

Place == IF Baking THEN frame ELSE OutFile

(***************************************************************************)
(* A command begins, loads its document, and ends.                         *)
(***************************************************************************)
BakeInit ==
    /\ Init
    /\ command = [kind |-> "bake", first |-> 0, last |-> 0, slice |-> 0]
    /\ number = 0 /\ pc = "idle"
    /\ frame = 0 /\ held = {} /\ grids = <<>> /\ reading = 1 /\ writing = 1
    /\ failed = FALSE /\ unremovable = FALSE
    /\ hasDir = FALSE /\ files = [p \in Places |-> Absent]
    /\ outcome = "none"

Stop(how) == pc' = "idle" /\ outcome' = how

\* parse_frames refuses a range that runs backwards before anything is read.
StartCommand(c) ==
    /\ pc = "idle" /\ number < MaxCommands
    /\ command' = c /\ number' = number + 1
    /\ ReadBy("command line")
    /\ frame' = c.first /\ held' = {} /\ grids' = <<>>
    /\ reading' = 1 /\ writing' = 1 /\ failed' = FALSE /\ unremovable' = FALSE
    /\ IF c.first > c.last THEN Stop("refused")
       ELSE pc' = "load" /\ outcome' = "none"
    /\ UNCHANGED disk

Loading == pc = "load" /\ stage \notin {"loaded", "refused"}

LoadStep ==
    /\ Loading /\ Load
    /\ UNCHANGED <<command, number, pc, locals, disk, outcome>>

\* The file cannot be read, or no GPU is to be had once it has been parsed.
LoadFails ==
    /\ Loading /\ stage \in {"text", "parsed"}
    /\ Stop("error")
    /\ UNCHANGED <<loading, command, number, locals, disk>>

LoadRefused ==
    /\ pc = "load" /\ stage = "refused"
    /\ Stop("refused")
    /\ UNCHANGED <<loading, command, number, locals, disk>>

NamesClash == Multi /\ ~Distinct(ExpandedNames(graph, doc))

\* Faulty variant of Loaded: the names are left to write_float_grids.
LoadedUnchecked ==
    /\ pc = "load" /\ stage = "loaded"
    /\ pc' = IF Baking THEN "directory" ELSE "evaluate"
    /\ UNCHANGED <<outcome, loading, command, number, locals, disk>>

\* bake looks at the expanded names before it evaluates or makes anything.
Loaded ==
    /\ pc = "load" /\ stage = "loaded"
    /\ IF NamesClash THEN Stop("refused")
       ELSE /\ pc' = IF Baking THEN "directory" ELSE "evaluate"
            /\ UNCHANGED outcome
    /\ UNCHANGED <<loading, command, number, locals, disk>>

MakeDirectory ==
    /\ pc = "directory"
    /\ \/ hasDir' = TRUE /\ pc' = "evaluate" /\ UNCHANGED outcome
       \/ Stop("error") /\ UNCHANGED hasDir
    /\ UNCHANGED <<loading, command, number, locals, files>>

\* The user interrupts the process: nothing is cleaned up.
Interrupt ==
    /\ pc # "idle"
    /\ Stop("interrupted")
    /\ UNCHANGED <<loading, command, number, locals, disk>>

(***************************************************************************)
(* One frame: evaluate and read back.                                      *)
(***************************************************************************)
\* Timeline::goto for a bake, Graph::eval (the first frame) otherwise.  Only a
\* bake is handed the extra outputs.
Evaluated == IF Baking THEN Values ELSE {Socket(graph.output, 0)}

Evaluate ==
    /\ pc = "evaluate"
    /\ \/ /\ held' = Evaluated
          /\ pc' = IF Multi THEN "extras" ELSE "result"
          /\ UNCHANGED outcome
       \/ Stop("error") /\ UNCHANGED held
    /\ UNCHANGED <<loading, command, number, frame, grids, reading, writing,
                   failed, unremovable, disk>>

ShownNow == IF Baking THEN ShownFrame(frame) ELSE StartFrame

\* as_field, then read_back; a bake returns its values after a success.
ReadResult ==
    /\ pc = "result"
    /\ \/ /\ OutputType(graph, Socket(graph.output, 0)) = "field"
          /\ grids' = <<Result(ShownNow)>>
          /\ held' = IF Baking THEN {} ELSE held
          /\ pc' = "write" /\ UNCHANGED outcome
       \/ Stop("error") /\ UNCHANGED <<grids, held>>
    /\ UNCHANGED <<loading, command, number, frame, reading, writing, failed,
                   unremovable, disk>>

\* The result goes back to the pool first: it is not written.
ReleaseResult ==
    /\ pc = "extras"
    /\ held' = held \ {Socket(graph.output, 0)}
    /\ grids' = <<>> /\ reading' = 1 /\ failed' = FALSE
    /\ pc' = "reading"
    /\ UNCHANGED <<loading, command, number, frame, writing, unremovable, disk,
                   outcome>>

\* Faulty variant of ReadExtra: a failed read leaves the loop at once.
ReadExtraOrLeave ==
    /\ pc = "reading" /\ reading <= Len(graph.extras)
    /\ \/ /\ grids' = grids \o GridsOf(ShownNow, graph.extras[reading])
          /\ held' = held \ {graph.extras[reading]}
          /\ UNCHANGED <<pc, outcome>>
       \/ Stop("error") /\ UNCHANGED <<grids, held>>
    /\ reading' = reading + 1
    /\ UNCHANGED <<loading, command, number, frame, writing, failed,
                   unremovable, disk>>

\* Faulty variant of ReadExtra: of a vector field only the first face is read.
ReadExtraFirst ==
    /\ pc = "reading" /\ reading <= Len(graph.extras)
    /\ \/ /\ ~failed
          /\ grids' = Append(grids, GridsOf(ShownNow, graph.extras[reading])[1])
          /\ UNCHANGED failed
       \/ failed' = TRUE /\ UNCHANGED grids
    /\ held' = held \ {graph.extras[reading]}
    /\ reading' = reading + 1
    /\ UNCHANGED <<loading, command, number, pc, frame, writing, unremovable,
                   disk, outcome>>

\* Once a read has failed the rest are only released.  A loaded graph has one
\* extra output for each that the document names (SetExtras): the lengths that
\* read_grids compares do not differ.
ReadExtra ==
    /\ pc = "reading" /\ reading <= Len(graph.extras)
    /\ \/ /\ ~failed
          /\ grids' = grids \o GridsOf(ShownNow, graph.extras[reading])
          /\ UNCHANGED failed
       \/ failed' = TRUE /\ UNCHANGED grids
    /\ held' = held \ {graph.extras[reading]}
    /\ reading' = reading + 1
    /\ UNCHANGED <<loading, command, number, pc, frame, writing, unremovable,
                   disk, outcome>>

EndReading ==
    /\ pc = "reading" /\ reading > Len(graph.extras)
    /\ IF failed THEN Stop("error")
       ELSE pc' = "write" /\ UNCHANGED outcome
    /\ UNCHANGED <<loading, command, number, locals, disk>>

(***************************************************************************)
(* One file: write_float_grids, write_slice_png and write_npy.             *)
(***************************************************************************)
\* Faulty variant of WriteFails: the error is returned at once.
WriteFailsAtOnce == Stop("error")

\* With several grids the file is removed; a single grid's is left as it is.
WriteFails ==
    IF Multi THEN pc' = "remove" /\ UNCHANGED outcome ELSE Stop("error")

\* Every tree is built, or the slice looked up, before the file is created.
Writable ==
    /\ Baking => /\ \A a \in 1..3 : doc.dims[a] <= MaxEdge
                 /\ Distinct([i \in DOMAIN Zipped |-> Zipped[i].name])
    /\ command.kind = "preview" => command.slice < doc.dims[3]

Prepare ==
    /\ pc = "write"
    /\ IF Writable THEN pc' = "create" /\ UNCHANGED outcome ELSE WriteFails
    /\ UNCHANGED <<loading, command, number, locals, disk>>

\* File::create: an earlier file at the place is emptied.
Create ==
    /\ pc = "create"
    /\ \/ /\ files' = [files EXCEPT ![Place] =
                           [by |-> number, grids |-> <<>>]]
          /\ writing' = 1
          /\ pc' = "grids" /\ UNCHANGED outcome
       \/ WriteFails /\ UNCHANGED <<files, writing>>
    /\ UNCHANGED <<loading, command, number, frame, held, grids, reading,
                   failed, unremovable, hasDir>>

\* Faulty variant of WriteGrid: a failed write is not reported.
WriteGridQuietly ==
    /\ pc = "grids" /\ writing <= Len(Zipped)
    /\ command.kind # "preview"
    /\ \/ files' = [files EXCEPT ![Place].grids = Append(@, Zipped[writing])]
       \/ UNCHANGED files
    /\ writing' = writing + 1
    /\ UNCHANGED <<loading, command, number, pc, frame, held, grids, reading,
                   failed, unremovable, hasDir, outcome>>

\* Faulty variant of WriteGrid: a grid whose last seek failed is tried again.
WriteGridAgain ==
    /\ pc = "grids" /\ writing <= Len(Zipped)
    /\ command.kind # "preview"
    /\ files' = [files EXCEPT ![Place].grids = Append(@, Zipped[writing])]
    /\ writing' \in {writing, writing + 1}
    /\ UNCHANGED <<loading, command, number, pc, frame, held, grids, reading,
                   failed, unremovable, hasDir, outcome>>

\* Descriptor, topology, data, and then the three offsets, whose seeks flush
\* what is buffered: a grid is complete on disk, or the error is reported.
WriteGrid ==
    /\ pc = "grids" /\ writing <= Len(Zipped)
    /\ command.kind # "preview"
    /\ \/ /\ files' = [files EXCEPT ![Place].grids = Append(@, Zipped[writing])]
          /\ writing' = writing + 1
          /\ UNCHANGED <<pc, outcome>>
       \/ WriteFails /\ UNCHANGED <<files, writing>>
    /\ UNCHANGED <<loading, command, number, frame, held, grids, reading,
                   failed, unremovable, hasDir>>

\* The png encoder's writer and the BufWriter under it are dropped at the end
\* of write_slice_png: their last write and its failure are nobody's.
WriteSlice ==
    /\ pc = "grids" /\ writing <= Len(Zipped)
    /\ command.kind = "preview"
    /\ \/ /\ \/ files' = [files EXCEPT ![Place].grids = Append(@, Zipped[writing])]
             \/ UNCHANGED files
          /\ writing' = writing + 1
          /\ UNCHANGED <<pc, outcome>>
       \/ WriteFails /\ UNCHANGED <<files, writing>>
    /\ UNCHANGED <<loading, command, number, frame, held, grids, reading,
                   failed, unremovable, hasDir>>

\* Faulty variant of Remove: the partial file stays.
RemoveNot ==
    /\ pc = "remove"
    /\ Stop("error")
    /\ UNCHANGED <<loading, command, number, locals, disk>>

\* remove_file's own failure is ignored: only a property looks at unremovable.
Remove ==
    /\ pc = "remove"
    /\ \/ files' = [files EXCEPT ![Place] = Absent] /\ UNCHANGED unremovable
       \/ unremovable' = TRUE /\ UNCHANGED files
    /\ Stop("error")
    /\ UNCHANGED <<loading, command, number, frame, held, grids, reading,
                   writing, failed, hasDir>>

\* Faulty variant of EndFile: the range's last frame is passed.
EndFilePast ==
    /\ pc = "grids" /\ writing > Len(Zipped)
    /\ IF Baking /\ frame <= command.last
       THEN /\ frame' = frame + 1 /\ grids' = <<>>
            /\ pc' = "evaluate" /\ UNCHANGED outcome
       ELSE Stop("ok") /\ UNCHANGED <<frame, grids>>
    /\ UNCHANGED <<loading, command, number, held, reading, writing, failed,
                   unremovable, disk>>

\* The inclusive range ends at its last frame without passing it.
EndFile ==
    /\ pc = "grids" /\ writing > Len(Zipped)
    /\ IF Baking /\ frame < command.last
       THEN /\ frame' = frame + 1 /\ grids' = <<>>
            /\ pc' = "evaluate" /\ UNCHANGED outcome
       ELSE Stop("ok") /\ UNCHANGED <<frame, grids>>
    /\ UNCHANGED <<loading, command, number, held, reading, writing, failed,
                   unremovable, disk>>

Produce ==
    \/ MakeDirectory \/ Evaluate \/ ReadResult \/ ReleaseResult \/ ReadExtra
    \/ EndReading

WriteOut ==
    \/ Prepare \/ Create \/ WriteGrid \/ WriteSlice \/ Remove \/ EndFile

BakeNext ==
    \/ \E c \in Commands : StartCommand(c)
    \/ LoadStep \/ LoadFails \/ LoadRefused \/ Loaded
    \/ Produce \/ WriteOut
    \/ Interrupt

BakeSpec == BakeInit /\ [][BakeNext]_bakeVars

(***************************************************************************)
(* Properties.                                                             *)
(***************************************************************************)
\* The variables have their types.
BakeTypeOK ==
    /\ command \in Commands
    /\ number \in 0..MaxCommands
    /\ pc \in {"idle", "load", "directory", "evaluate", "result", "extras",
               "reading", "write", "create", "grids", "remove"}
    /\ frame \in Frames
    /\ reading \in Nat /\ writing \in Nat
    /\ failed \in BOOLEAN /\ unremovable \in BOOLEAN /\ hasDir \in BOOLEAN
    /\ outcome \in {"none", "ok", "error", "refused", "interrupted"}
    /\ DOMAIN files = Places
    /\ \A p \in Places : files[p].by \in 0..MaxCommands

\* What a bake owes its files, from the document and the sockets' types alone:
\* for its k-th output one grid, or one for each axis, under the output's name.
DueOf(k, f) ==
    LET s == ExtraSockets(doc)[k] IN
    {[name |-> IF a = "none" THEN doc.outputs[k].name
               ELSE Append(doc.outputs[k].name, a),
      data |-> [frame |-> f, socket |-> s, axis |-> a]] :
        a \in IF OutputType(graph, s) = "vector" THEN {"x", "y", "z"}
              ELSE {"none"}}

\* The frame that the file at p is to show.
FrameAt(p) == IF p = OutFile THEN StartFrame ELSE ShownFrame(p)

\* The grids that the command owes the file at p.
Due(p) ==
    IF Multi THEN UNION {DueOf(k, FrameAt(p)) : k \in 1..Len(doc.outputs)}
    ELSE {[name |-> SingleName, data |-> Result(FrameAt(p))]}

\* Nothing in the file at p but what is due there, and nothing twice.
Right(p) ==
    /\ \A i \in 1..Len(files[p].grids) : files[p].grids[i] \in Due(p)
    /\ Distinct(files[p].grids)

\* All that is due at p is there.
Whole(p) ==
    \A grid \in Due(p) :
        \E i \in 1..Len(files[p].grids) : files[p].grids[i] = grid

Mine(p) == files[p].by = number

\* A bake that reports success has written every frame of its range by itself,
\* not by an earlier command, and left out no grid of any output.
SuccessIsComplete ==
    outcome = "ok" /\ Baking =>
        \A f \in command.first..command.last : Mine(f) /\ Whole(f)

\* However a bake ends, it ends in one place: the frames before the loop's
\* are whole and its own, those after it are as it found them, and its own
\* partial file is at the loop's frame if it is anywhere.
EndsInOnePlace ==
    Baking /\ number > 0 =>
        \A f \in Frames :
            /\ f \in command.first..(frame - 1) => Mine(f) /\ Whole(f)
            /\ (Mine(f) /\ ~Whole(f)) => f = frame
            /\ f > frame => ~Mine(f)

\* A bake of named outputs that ends with an error leaves no partial file of
\* its own, unless remove_file itself has failed (bake.rs, the second branch of
\* its loop).  A bake of the result alone, and one that is interrupted, may.
NoPartialFile ==
    (outcome = "error" /\ Multi /\ ~unremovable) =>
        \A f \in Frames : Mine(f) => Whole(f)

\* In a bake's file, finished or not, are only grids the document asks for, of
\* the file's own frame, each once and under its output's name, the components
\* of a vector under that name with their axis.  The names are computed before
\* the bake from the sockets' types, the grids during it from the values, and
\* the two lists are only zipped together, the longer cut short unseen.
GridsAreNamed == Baking => \A p \in Frames : Mine(p) => Right(p)

\* Each frame's file holds every grid the document asks for, once, when the
\* bake has succeeded, and never anything else.
BakedFilesAreRight == SuccessIsComplete /\ GridsAreNamed

\* read_grids' doc: values return to the pool whether or not a read fails.
\* A bake of several grids holds none once it is past the reading, nor when
\* it has ended with an error.
ValuesReturn ==
    Multi /\ (pc \in {"write", "create", "grids", "remove"} \/ outcome = "error")
        => held = {}

\* The comment in bake: names are checked before any GPU evaluation and
\* before the output directory exists.  A command that ends refused has
\* changed nothing, and one that has got as far as the directory has names
\* that differ, vectors expanded.
ClashIsRefusedFirst ==
    /\ pc = "directory" => ~NamesClash
    /\ outcome = "refused" => held = {} /\ \A p \in Places : ~Mine(p)

\* However a command ends, it has cleaned up behind itself.
EndsCleanly ==
    BakeTypeOK /\ EndsInOnePlace /\ NoPartialFile /\ ValuesReturn /\ ClashIsRefusedFirst

\* main.rs: render-preview writes one slice as a PNG.  One that reports
\* success has written a whole file.
PreviewIsWhole ==
    outcome = "ok" /\ command.kind = "preview" => Mine(OutFile) /\ Whole(OutFile)
=============================================================================
