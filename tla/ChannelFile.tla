---------------------------- MODULE ChannelFile ----------------------------
(***************************************************************************)
(* The life of a channel's file: FrameWriter::create makes it, and makes   *)
(* it again in place when the resolution changes or a session begins, and  *)
(* FrameReader::open and read_latest work on their mapping of it.  Module  *)
(* FrameChannel is about one such file, while nobody resizes it.           *)
(*                                                                         *)
(* The file is a header and then words, in units as large as a page: an    *)
(* access past the end of the file, through a mapping made when it was     *)
(* longer, is a bus error.  The header is stored and loaded field by       *)
(* field.  A word holds the file and the number of the publish that wrote  *)
(* it, so that words of two frames can be told apart.                      *)
(***************************************************************************)
EXTENDS Integers, Sequences

CONSTANTS
    Dims,           \* resolutions: the extents x and y
    Tries,          \* the tries of one read_latest: 3 in the code
    Racing,         \* a client may use the file while it is made again
    MaxFiles,       \* bound: files made
    MaxNumber,      \* bound: frames published in one file
    None

ASSUME ChannelFileAssumption ==
    /\ Dims \subseteq (Nat \ {0}) \X (Nat \ {0})
    /\ Tries \in Nat \ {0} /\ MaxFiles \in Nat /\ MaxNumber \in Nat
    /\ Racing \in BOOLEAN

Errors == {"bad_magic", "version", "length", "reallocated", "torn"}

ASSUME NoneAssumption == None \notin Errors

VARIABLES
    made,       \* the dims of every file made at the path, the last one last
    len,        \* the file's length in words, the header being one
    header,     \* its header, without seq
    number,     \* the header's seq
    words,      \* its buffers, one after the other
    making, at, \* where the writer is, and the field to store or word to copy
    reading,    \* where the reader is
    seen,       \* the header fields it has loaded
    cached,     \* the header it keeps since open, with the mapping's length
    sampled,    \* read_latest's before
    copied,     \* read_latest's out
    tried,      \* the failed tries of this read_latest
    answer,     \* how the last open or read_latest ended
    settled     \* the file has not been made again since that call began

file == <<made, len, header, number, words>>
writer == <<file, making, at>>
locals == <<sampled, copied, tried>>
reader == <<reading, seen, cached, locals, answer, settled>>
fileVars == <<writer, reader>>

Fields == <<"magic", "version", "x", "y", "channels", "bytes">>
Checked == <<"x", "y", "bytes">>

Size(d) == d[1] * d[2]

HeaderOf(d) ==
    [magic |-> 1, version |-> 1, x |-> d[1], y |-> d[2], channels |-> 1, bytes |-> Size(d)]

Blank == [f \in DOMAIN HeaderOf(<<0, 0>>) |-> 0]

Frames == [file : 1..MaxFiles, seq : 1..MaxNumber]
Answers == [ok : {TRUE}, seq : 0..MaxNumber, values : Seq(Frames \cup {None})]
    \cup [ok : {FALSE}, error : Errors \cup {None}]
Busy == {"open", "check", "sample", "copy"}

FileTypeOK ==
    /\ made \in Seq(Dims) /\ Len(made) <= MaxFiles
    /\ len \in Nat /\ number \in 0..MaxNumber
    /\ header \in [DOMAIN Blank -> Nat]
    /\ words \in Seq(Frames \cup {None})
    /\ making \in {"idle", "set_len", "header", "copy"} /\ at \in Nat
    /\ reading \in Busy \cup {"closed", "opened", "fault"}
    /\ DOMAIN seen \subseteq DOMAIN Blank
    /\ cached \in [header : [DOMAIN Blank -> Nat], len : Nat]
    /\ sampled \in 0..MaxNumber /\ copied \in Seq(Frames \cup {None}) /\ tried \in 0..Tries
    /\ answer \in Answers
    /\ settled \in BOOLEAN

Opened == [ok |-> FALSE, error |-> None]
Refused(e) == [ok |-> FALSE, error |-> e]

FileInit ==
    /\ made = <<>> /\ len = 0 /\ header = Blank /\ number = 0 /\ words = <<>> /\ making = "idle" /\ at = 1
    /\ reading = "closed" /\ seen = <<>> /\ cached = [header |-> Blank, len |-> 0]
    /\ sampled = 0 /\ copied = <<>> /\ tried = 0 /\ answer = Opened /\ settled = FALSE

-----------------------------------------------------------------------------
(***************************************************************************)
(* FrameWriter::create: open with truncation, set_len, and the header.     *)
(***************************************************************************)
Truncate(d) ==
    /\ making = "idle" /\ Len(made) < MaxFiles
    /\ Racing \/ reading \notin Busy
    /\ made' = Append(made, d)
    /\ len' = 0 /\ header' = Blank /\ number' = 0 /\ words' = <<>>
    /\ making' = "set_len"
    /\ settled' = FALSE
    /\ UNCHANGED <<at, reading, seen, cached, locals, answer>>

Latest == made[Len(made)]

\* The file grows with zeros.
SetLen ==
    /\ making = "set_len"
    /\ len' = 1 + 2 * Size(Latest)
    /\ words' = [i \in 1..(2 * Size(Latest)) |-> None]
    /\ making' = "header" /\ at' = 1
    /\ UNCHANGED <<made, header, number, reader>>

\* The fields in program order; the number, stored last, is zero already.
StoreField ==
    /\ making = "header"
    /\ header' = [header EXCEPT ![Fields[at]] = HeaderOf(Latest)[Fields[at]]]
    /\ at' = at + 1
    /\ making' = IF at = Len(Fields) THEN "idle" ELSE making
    /\ UNCHANGED <<made, len, number, words, reader>>

(***************************************************************************)
(* FrameWriter::publish.                                                   *)
(***************************************************************************)
BeginFrame ==
    /\ making = "idle" /\ made # <<>> /\ number < MaxNumber
    /\ making' = "copy" /\ at' = 1
    /\ UNCHANGED <<file, reader>>

CopyWordIn ==
    /\ making = "copy" /\ at <= Size(Latest)
    /\ words' = [words EXCEPT ![(number % 2) * Size(Latest) + at] =
                    [file |-> Len(made), seq |-> number + 1]]
    /\ at' = at + 1
    /\ UNCHANGED <<made, len, header, number, making, reader>>

StoreNumber ==
    /\ making = "copy" /\ at > Size(Latest)
    /\ number' = number + 1
    /\ making' = "idle"
    /\ UNCHANGED <<at, made, len, header, words, reader>>

-----------------------------------------------------------------------------
(***************************************************************************)
(* FrameReader::open.                                                      *)
(***************************************************************************)
Creating == making \in {"set_len", "header"}

\* A client that waits for the answer to its load finds the file made; only
\* the first making of all may meet a reader.
MayUse == Racing \/ ~Creating \/ Len(made) = 1

Begin(call) ==
    /\ MayUse
    /\ reading' = call
    /\ seen' = <<>>
    /\ settled' = ~Creating

Open ==
    /\ reading \in {"closed", "opened"} /\ made # <<>>
    /\ Begin("open")
    /\ cached' = [header |-> Blank, len |-> len]
    /\ UNCHANGED <<writer, locals, answer>>

Fault == reading' = "fault" /\ UNCHANGED <<seen, cached, locals, answer>>

End(state, how) == reading' = state /\ answer' = how

\* The next of these fields that has not been loaded.
Due(fields) == fields[CHOOSE i \in DOMAIN fields :
    /\ fields[i] \notin DOMAIN seen
    /\ \A j \in 1..(i - 1) : fields[j] \in DOMAIN seen]

LoadField(f) == [g \in DOMAIN seen \cup {f} |-> IF g = f THEN header[f] ELSE seen[g]]

All(fields) == {fields[i] : i \in DOMAIN fields}

\* Faulty variant of Refusal: the mapping must be longer than the buffers.
RefusalExact ==
    IF cached.len = 0 THEN "bad_magic"
    ELSE IF seen["magic"] # 1 THEN "bad_magic"
    ELSE IF seen["version"] # 1 THEN "version"
    ELSE IF seen["bytes"] # seen["x"] * seen["y"] * seen["channels"] THEN "length"
    ELSE IF cached.len <= 1 + 2 * seen["bytes"] THEN "length"
    ELSE None

\* What open finds wrong with the mapping and what it loaded, in its order.
Refusal ==
    IF cached.len = 0 THEN "bad_magic"
    ELSE IF seen["magic"] # 1 THEN "bad_magic"
    ELSE IF seen["version"] # 1 THEN "version"
    ELSE IF seen["bytes"] # seen["x"] * seen["y"] * seen["channels"] THEN "length"
    ELSE IF cached.len < 1 + 2 * seen["bytes"] THEN "length"
    ELSE None

LoadForOpen ==
    /\ reading = "open" /\ cached.len > 0 /\ DOMAIN seen # All(Fields)
    /\ IF len = 0 THEN Fault
       ELSE seen' = LoadField(Due(Fields)) /\ UNCHANGED <<reading, cached, locals, answer>>
    /\ UNCHANGED <<writer, settled>>

Validate ==
    /\ reading = "open" /\ (cached.len = 0 \/ DOMAIN seen = All(Fields))
    /\ IF Refusal # None THEN End("closed", Refused(Refusal)) /\ UNCHANGED cached
       ELSE End("opened", Opened) /\ cached' = [cached EXCEPT !.header = seen]
    /\ UNCHANGED <<writer, seen, locals, settled>>

(***************************************************************************)
(* FrameReader::read_latest.                                               *)
(***************************************************************************)
\* Faulty variant of ReadLatest: the tries of the last read still count.
ReadLatestTired ==
    /\ reading = "opened"
    /\ Begin("check")
    /\ UNCHANGED <<writer, cached, locals, answer>>

ReadLatest ==
    /\ reading = "opened"
    /\ Begin("check")
    /\ tried' = 0
    /\ UNCHANGED <<writer, cached, sampled, copied, answer>>

LoadForCheck ==
    /\ reading = "check" /\ DOMAIN seen # All(Checked)
    /\ IF len = 0 THEN Fault
       ELSE seen' = LoadField(Due(Checked)) /\ UNCHANGED <<reading, cached, locals, answer>>
    /\ UNCHANGED <<writer, settled>>

\* Faulty variant of SameGeometry: only the length of a buffer is compared.
SameLength == seen["bytes"] = cached.header["bytes"]

\* Faulty variant of SameGeometry: the header is not compared at all.
Unchecked == TRUE

SameGeometry == \A f \in DOMAIN seen : seen[f] = cached.header[f]

CompareGeometry ==
    /\ reading = "check" /\ DOMAIN seen = All(Checked)
    /\ IF SameGeometry THEN reading' = "sample" /\ UNCHANGED answer
       ELSE End("opened", Refused("reallocated"))
    /\ UNCHANGED <<writer, seen, cached, locals, settled>>

SampleNumber ==
    /\ reading = "sample"
    /\ IF len = 0 THEN Fault
       ELSE /\ sampled' = number /\ copied' = <<>> /\ reading' = "copy"
            /\ UNCHANGED <<seen, cached, tried, answer>>
    /\ UNCHANGED <<writer, settled>>

\* Faulty variant of Start: the buffer being written.
StartNext == (sampled % 2) * cached.header["bytes"]

Start == (IF sampled = 0 THEN 0 ELSE (sampled - 1) % 2) * cached.header["bytes"]

CopyWordOut ==
    /\ reading = "copy" /\ Len(copied) < cached.header["bytes"]
    /\ LET word == Start + Len(copied) + 1 IN
        IF word >= len THEN Fault
        ELSE copied' = Append(copied, words[word]) /\ UNCHANGED <<reading, seen, cached, sampled, tried, answer>>
    /\ UNCHANGED <<writer, settled>>

SampleAgain ==
    /\ reading = "copy" /\ Len(copied) = cached.header["bytes"]
    /\ CASE len = 0 -> Fault
         [] len # 0 /\ number = sampled ->
                /\ End("opened", [ok |-> TRUE, seq |-> sampled, values |-> copied])
                /\ UNCHANGED <<seen, cached, locals>>
         [] len # 0 /\ number # sampled ->
                /\ tried' = tried + 1
                /\ IF tried' = Tries THEN End("opened", Refused("torn"))
                   ELSE reading' = "sample" /\ UNCHANGED answer
                /\ UNCHANGED <<seen, cached, sampled, copied>>
    /\ UNCHANGED <<writer, settled>>

-----------------------------------------------------------------------------
FileNext ==
    \/ \E d \in Dims : Truncate(d)
    \/ SetLen \/ StoreField \/ BeginFrame \/ CopyWordIn \/ StoreNumber
    \/ Open \/ LoadForOpen \/ Validate
    \/ ReadLatest \/ LoadForCheck \/ CompareGeometry \/ SampleNumber \/ CopyWordOut \/ SampleAgain

FileSpec == FileInit /\ [][FileNext]_fileVars

-----------------------------------------------------------------------------
(***************************************************************************)
(* Correctness.                                                            *)
(***************************************************************************)
\* The header "is safe to read even if the file was since reallocated to a
\* smaller size", and no buffer is read "past the end of a shrunken mapping".
NeverFaults == reading # "fault"

\* "No incorrect data is ever returned to a caller": what a read returns under
\* the number of a publish is one publish of one file, of the size the reader
\* believes in.  (FrameChannel's ZerosBeforeTheFirstFrame is about number 0,
\* AcceptedHeaderIsComplete about readers that believe in no size at all.)
FrameIsWhole ==
    answer.ok /\ answer.seq > 0 /\ answer.values # <<>> =>
        \E k \in 1..Len(made) :
            /\ Size(made[k]) = Len(answer.values)
            /\ \A i \in DOMAIN answer.values : answer.values[i] = [file |-> k, seq |-> answer.seq]

\* A file left half made is told from a channel: the header that open accepts
\* is one that create finished writing.
AcceptedHeaderIsComplete ==
    reading = "opened" => \E d \in Dims : cached.header = HeaderOf(d)

\* A reader of an earlier file is told: once a file is complete, a read returns
\* a frame only to a reader that cached this file's extents.
StaleReaderIsTold ==
    answer.ok /\ settled /\ reading = "opened" =>
        <<cached.header["x"], cached.header["y"]>> = Latest

\* What making the file again does to a reader of the earlier one.
RemadeFileIsSafe == FileTypeOK /\ NeverFaults /\ StaleReaderIsTold

\* A reader is refused only while the file is being made, and the header that
\* an open accepts from a complete file is that file's.
CompleteFileOpens ==
    [][reading = "open" /\ settled /\ reading' # "open" =>
          reading' = "opened" /\ cached'.header = HeaderOf(Latest)]_fileVars
=============================================================================
