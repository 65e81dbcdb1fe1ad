------------------------------- MODULE AddOn -------------------------------
(***************************************************************************)
(* The Blender add-on: operators and a draw handler that start, drive and  *)
(* end an engine process.  Everything runs on Blender's one thread, but an *)
(* engine may die at any moment, also between a request and its reply, and *)
(* the engine of another Blender that was given the same channel path may  *)
(* remake the file and publish into it.                                    *)
(*                                                                         *)
(* op is what Blender has called and place where it has got to; a request  *)
(* and its reply are two steps.  An engine is named by the number of its   *)
(* start, the other Blender's engine by 0, a channel's geometry by its     *)
(* dims.  Module Session is the engine, ChannelFile the file word by word. *)
(***************************************************************************)
EXTENDS Integers, Sequences

CONSTANTS
    Resolutions,    \* resolutions a graph may have
    MaxEngines,     \* bound: engines started
    MaxPublished,   \* bound: frames one engine publishes
    CanHang,        \* an engine may stop answering
    PyNone          \* Python's None

ASSUME AddOnAssumption ==
    /\ MaxEngines \in Nat /\ MaxPublished \in Nat /\ CanHang \in BOOLEAN
    /\ PyNone \notin Nat /\ "closed" # PyNone
    /\ PyNone \notin Resolutions /\ "closed" \notin Resolutions

VARIABLES
    process, client, reader,    \* ops._state
    started,        \* engines ever started
    running,        \* those whose process is alive
    hung,           \* those of them that no longer answer
    channel,        \* the channel file: its dims, and its seq with who wrote it
    own,            \* the FrameWriter of the client's engine: its dims and seq
    other,          \* the seq of the other Blender's FrameWriter, or PyNone
    enabled,        \* the draw handler, and the operator classes, are registered
    live,           \* settings.live
    read_seq,       \* the number read_latest returned, with who wrote it; a local
    last_seq,       \* handlers._last_seq, with who wrote it
    volume,         \* the Volume shows the latest frame rendered, or an older one
    op, place,         \* the call in progress, or the last one
    outcome         \* how it ended

handles == <<process, client, reader>>
engine == <<started, running, hung>>
channels == <<channel, own, other>>
shown == <<read_seq, last_seq, volume>>
addOnVars == <<handles, engine, channels, enabled, live, shown, op, place, outcome>>

Engines == 1..MaxEngines
Operators == {"start", "stop", "render", "draw", "disable"}
Requests == {"goodbye", "hello", "load", "rendering"}
Awaiting == {"goodbye_sent", "hello_sent", "load_sent", "rendering_sent"}
OtherBlender == 0
Published == [by : Engines \cup {OtherBlender}, seq : 0..MaxPublished]

AddOnTypeOK ==
    /\ process \in Engines \cup {PyNone} /\ client \in Engines \cup {PyNone}
    /\ reader \in Resolutions \cup {PyNone, "closed"}
    /\ started \in 0..MaxEngines
    /\ running \subseteq 1..started /\ hung \subseteq 1..started
    /\ channel \in [dims : Resolutions, by : Engines \cup {OtherBlender}, seq : 0..MaxPublished]
    /\ own \in [dims : Resolutions, seq : 0..MaxPublished]
    /\ other \in 0..MaxPublished \cup {PyNone}
    /\ enabled \in [handler : BOOLEAN, classes : BOOLEAN]
    /\ live \in BOOLEAN
    /\ {read_seq, last_seq} \subseteq Published \cup {PyNone}
    /\ volume \in {"latest", "older"}
    /\ op \in Operators
    /\ place \in Requests \cup Awaiting
              \cup {"idle", "teardown", "reap", "spawn", "spawned", "connect",
                    "open_reader", "reading", "reopening", "pushing"}
    /\ outcome \in {"ok", "cancelled", "raised"}

AddOnInit ==
    /\ process = PyNone /\ client = PyNone /\ reader = PyNone
    /\ started = 0 /\ running = {} /\ hung = {}
    /\ \E d \in Resolutions :
        channel = [dims |-> d, by |-> OtherBlender, seq |-> 0] /\ own = [dims |-> d, seq |-> 0]
    /\ other = PyNone
    /\ enabled = [handler |-> TRUE, classes |-> TRUE]
    /\ live = FALSE /\ read_seq = PyNone /\ last_seq = PyNone /\ volume = "older"
    /\ op = "stop" /\ place = "idle" /\ outcome = "ok"

-----------------------------------------------------------------------------
(***************************************************************************)
(* How calls begin and end.                                                *)
(***************************************************************************)
BeginCall(call, at) ==
    /\ place = "idle"
    /\ op' = call /\ place' = at /\ outcome' = "ok"

\* An operator returns or lets an exception escape; the draw handler catches
\* every exception and then turns Live off.
EndWith(result) ==
    /\ place' = "idle"
    /\ outcome' = IF op = "draw" /\ result = "raised" THEN "cancelled" ELSE result
    /\ live' = (live /\ ~(op = "draw" /\ result # "ok"))

Goto(at) == place' = at /\ UNCHANGED <<live, outcome>>

(***************************************************************************)
(* A round trip on the control connection.  Sending to a dead engine is an *)
(* OSError; one that dies before it answers gives an end of file, which is *)
(* an ElementsError, or a reset, which is an OSError.                      *)
(***************************************************************************)
\* The OSError is no ElementsError, so no operator reports it.
SendTo(target, awaiting) ==
    /\ IF target \in running THEN Goto(awaiting) ELSE EndWith("raised")
    /\ UNCHANGED <<handles, engine, channels, enabled, shown, op>>

Answering(target) == target \in running \ hung

\* What a round trip may give once the request is sent.
RoundTrip(target) ==
    IF target \in running THEN {r \in {"ok", "error"} : Answering(target)}
    ELSE {"error", "os_error"}

-----------------------------------------------------------------------------
(***************************************************************************)
(* shutdown_engine.                                                        *)
(***************************************************************************)
\* The reader, then the client if there is one.
CloseReader ==
    /\ place = "teardown"
    /\ reader' = PyNone
    /\ Goto(IF client = PyNone THEN "reap" ELSE "goodbye")
    /\ UNCHANGED <<process, client, engine, channels, enabled, shown, op>>

SayGoodbye == place = "goodbye" /\ SendTo(client, "goodbye_sent")

\* Faulty variant of GoodbyeAnswered: the client outlives the engine.
GoodbyeForgets ==
    /\ place = "goodbye_sent"
    /\ Goto("reap")
    /\ UNCHANGED <<handles, engine, channels, enabled, shown, op>>

\* An ElementsError is suppressed; an OSError leaves the client and the
\* process where they are.
GoodbyeAnswered ==
    /\ place = "goodbye_sent"
    /\ \E r \in RoundTrip(client) :
        IF r = "os_error" THEN EndWith("raised") /\ UNCHANGED client
        ELSE Goto("reap") /\ client' = PyNone
    /\ UNCHANGED <<process, reader, engine, channels, enabled, shown, op>>

\* Where a caller of shutdown_engine goes on once it returns: a start from
\* which nothing has been started yet goes on, every other failed call ends.
AfterTeardown ==
    IF op = "start" /\ outcome = "ok" THEN Goto("spawn")
    ELSE IF op \in {"stop", "disable"} THEN EndWith("ok")
    ELSE place' = "idle" /\ outcome' = "cancelled" /\ live' = (live /\ op = "start")

\* Faulty variant of Reap: the handle is dropped and the process left running.
ReapDropsHandle ==
    /\ place = "reap"
    /\ process' = PyNone
    /\ AfterTeardown
    /\ enabled' = [enabled EXCEPT !.classes = IF op = "disable" THEN FALSE ELSE @]
    /\ UNCHANGED <<client, reader, engine, channels, shown, op>>

\* terminate, wait and if need be kill.
Reap ==
    /\ place = "reap"
    /\ running' = running \ {process} /\ hung' = hung \ {process}
    /\ process' = PyNone
    /\ AfterTeardown
    /\ enabled' = [enabled EXCEPT !.classes = IF op = "disable" THEN FALSE ELSE @]
    /\ UNCHANGED <<client, reader, started, channels, shown, op>>

-----------------------------------------------------------------------------
(***************************************************************************)
(* Start and Stop.                                                         *)
(***************************************************************************)
StartEngine == enabled.classes /\ BeginCall("start", "teardown")
            /\ UNCHANGED <<handles, engine, channels, enabled, live, shown>>

Stop == enabled.classes /\ BeginCall("stop", "teardown")
            /\ UNCHANGED <<handles, engine, channels, enabled, live, shown>>

\* The executables are not there, or the process cannot be created.
SpawnFails ==
    /\ place = "spawn"
    /\ EndWith("cancelled")
    /\ UNCHANGED <<handles, engine, channels, enabled, shown, op>>

Spawn ==
    /\ place = "spawn" /\ started < MaxEngines
    /\ started' = started + 1
    /\ running' = running \cup {started + 1}
    /\ Goto("spawned")
    /\ UNCHANGED <<handles, hung, channels, enabled, shown, op>>

\* The ready line; only then is the process recorded.
Ready ==
    /\ place = "spawned" /\ started \in running
    /\ process' = started
    /\ Goto("hello")
    /\ UNCHANGED <<client, reader, engine, channels, enabled, shown, op>>

\* The engine ended before it printed the line.
NotReady ==
    /\ place = "spawned" /\ started \notin running
    /\ place' = "teardown" /\ outcome' = "cancelled"
    /\ UNCHANGED <<handles, engine, channels, enabled, live, shown, op>>

\* connect and hello; every failure here tears the process down again.
Hello ==
    /\ place = "hello"
    /\ IF process \in running THEN Goto("hello_sent")
       ELSE place' = "teardown" /\ outcome' = "cancelled" /\ UNCHANGED live
    /\ UNCHANGED <<handles, engine, channels, enabled, shown, op>>

HelloAnswered ==
    /\ place = "hello_sent"
    /\ \E r \in RoundTrip(process) :
        IF r = "ok" THEN Goto("load") /\ client' = process
        ELSE place' = "teardown" /\ outcome' = "cancelled" /\ UNCHANGED <<live, client>>
    /\ UNCHANGED <<process, reader, engine, channels, enabled, shown, op>>

SendLoad == place = "load" /\ SendTo(client, "load_sent")

\* FrameWriter::create: the file is made anew and its numbers begin at 0.
Create(by, dims) == channel' = [dims |-> dims, by |-> by, seq |-> 0]

\* A new engine creates its channel when it loads.  A refused graph leaves
\* the engine running.
LoadAnswered ==
    /\ place = "load_sent"
    /\ \E r \in RoundTrip(client) :
        IF r = "ok"
        THEN /\ Goto("open_reader")
             /\ \E d \in Resolutions : Create(client, d) /\ own' = [dims |-> d, seq |-> 0]
        ELSE /\ EndWith(IF r = "error" THEN "cancelled" ELSE "raised")
             /\ UNCHANGED <<channel, own>>
    /\ UNCHANGED <<handles, engine, other, enabled, shown, op>>

\* FrameReader remembers the geometry it finds.  It may refuse the file or
\* fail to map it; the engine then runs on without a reader.
OpenReader ==
    /\ place = "open_reader"
    /\ \/ reader' = channel.dims /\ EndWith("ok")
       \/ UNCHANGED reader /\ \E result \in {"cancelled", "raised"} : EndWith(result)
    /\ UNCHANGED <<process, client, engine, channels, enabled, shown, op>>

-----------------------------------------------------------------------------
(***************************************************************************)
(* Render Frame and the draw handler: one render, then the frame from the  *)
(* channel, then the volume.                                               *)
(***************************************************************************)
RenderFrame ==
    /\ enabled.classes
    /\ IF client = PyNone \/ reader = PyNone
       THEN /\ place = "idle" /\ op' = "render" /\ outcome' = "cancelled" /\ UNCHANGED place
       ELSE own.seq < MaxPublished /\ BeginCall("render", "rendering")
    /\ UNCHANGED <<handles, engine, channels, enabled, live, shown>>

\* _on_draw returns at once unless Live is on and there is an engine.
OnDraw ==
    /\ enabled.handler /\ live
    /\ client # PyNone /\ reader # PyNone
    /\ own.seq < MaxPublished
    /\ BeginCall("draw", "rendering")
    /\ UNCHANGED <<handles, engine, channels, enabled, live, shown>>

Render == place = "rendering" /\ SendTo(client, "rendering_sent")

\* Faulty variant of PublishFrame: the reply may arrive before the number is out.
PublishFrameLate ==
    /\ own' = [own EXCEPT !.seq = @ + 1]
    /\ channel' \in {channel, [channel EXCEPT !.seq = own'.seq, !.by = client]}

\* FrameWriter::publish stores the writer's own count, whatever the file held
\* and whichever dims its header gives by now.
PublishFrame ==
    /\ own' = [own EXCEPT !.seq = @ + 1]
    /\ channel' = [channel EXCEPT !.seq = own'.seq, !.by = client]

\* errors.describe: a lost device and a lack of memory turn Live off; a lost
\* device also ends the engine.
RenderAnswered ==
    /\ place = "rendering_sent"
    /\ \E r \in RoundTrip(client) :
        IF r = "ok"
        THEN PublishFrame /\ volume' = "older" /\ Goto("reading")
        ELSE /\ UNCHANGED <<channel, own, volume>>
             /\ \/ r = "error" /\ EndWith("cancelled")
                \/ r = "os_error" /\ EndWith("raised")
                \/ /\ r = "error" /\ client \in running
                   /\ \/ place' = "idle" /\ outcome' = "cancelled" /\ live' = FALSE
                      \/ place' = "teardown" /\ outcome' = "cancelled" /\ UNCHANGED live
    /\ UNCHANGED <<handles, engine, other, enabled, read_seq, last_seq, op>>

\* What read_latest returns: the number the file holds now.
ReadLatest == read_seq' = [by |-> channel.by, seq |-> channel.seq]

\* read_latest: a closed reader is a TypeError; one whose geometry is stale, or
\* that another publisher has lapped, is closed and the file opened again.
\* (Pages that a truncation has taken away: module ChannelFile.)
Read ==
    /\ place = "reading"
    /\ \/ reader = "closed" /\ EndWith("raised") /\ UNCHANGED <<reader, read_seq>>
       \/ reader = channel.dims /\ ReadLatest /\ Goto("pushing") /\ UNCHANGED reader
       \/ /\ reader # "closed"
          /\ reader # channel.dims \/ other # PyNone
          /\ Goto("reopening") /\ reader' = "closed" /\ UNCHANGED read_seq
    /\ UNCHANGED <<process, client, engine, channels, enabled, last_seq, volume, op>>

\* Faulty variant of Reopen: a refused file leaves the old reader to try again.
ReopenUntilItWorks ==
    /\ place = "reopening"
    /\ \/ reader' = channel.dims /\ ReadLatest /\ Goto("pushing")
       \/ reader' \in Resolutions \ {channel.dims} /\ Goto("reading") /\ UNCHANGED read_seq
    /\ UNCHANGED <<process, client, engine, channels, enabled, last_seq, volume, op>>

\* The second FrameReader may refuse the file, or fail to map it; then the
\* closed one stays recorded.  One that opens may be overtaken once more.
Reopen ==
    /\ place = "reopening"
    /\ \/ reader' = channel.dims /\ ReadLatest /\ Goto("pushing")
       \/ other # PyNone /\ reader' \in Resolutions /\ EndWith("cancelled") /\ UNCHANGED read_seq
       \/ /\ \E result \in {"cancelled", "raised"} : EndWith(result)
          /\ UNCHANGED <<reader, read_seq>>
    /\ UNCHANGED <<process, client, engine, channels, enabled, last_seq, volume, op>>

\* _on_draw has shown a frame of this number, or believes so.
ShownAlready == op = "draw" /\ last_seq # PyNone /\ last_seq.seq = read_seq.seq

\* The draw handler leaves the volume alone if it has shown this number.
Skip ==
    /\ place = "pushing" /\ ShownAlready
    /\ read_seq' = PyNone
    /\ EndWith("ok")
    /\ UNCHANGED <<handles, engine, channels, enabled, last_seq, volume, op>>

\* Faulty variant of Push: the CLI's exit code is not looked at.
PushUnchecked ==
    /\ place = "pushing"
    /\ ~ShownAlready
    /\ last_seq' = IF op = "draw" THEN read_seq ELSE last_seq
    /\ \/ reader = own.dims /\ volume' = "latest"
       \/ UNCHANGED volume
    /\ read_seq' = PyNone
    /\ EndWith("ok")
    /\ UNCHANGED <<handles, engine, channels, enabled, op>>

\* push_frame_to_volume: the length is checked, the CLI bakes to a file of
\* its own, which replaces the volume's in one step: the frame rendered last,
\* whatever the channel held.
Push ==
    /\ place = "pushing"
    /\ ~ShownAlready
    /\ \/ /\ reader = own.dims
          /\ volume' = "latest"
          /\ last_seq' = IF op = "draw" THEN read_seq ELSE last_seq
          /\ EndWith("ok")
       \/ EndWith("cancelled") /\ UNCHANGED <<volume, last_seq>>
    /\ read_seq' = PyNone
    /\ UNCHANGED <<handles, engine, channels, enabled, op>>

-----------------------------------------------------------------------------
(***************************************************************************)
(* Enabling and disabling the add-on, the Live button, and the world.      *)
(***************************************************************************)
\* The draw handler goes first; the classes only if shutdown_engine returns.
Disable ==
    /\ enabled.handler
    /\ BeginCall("disable", "teardown")
    /\ enabled' = [enabled EXCEPT !.handler = FALSE]
    /\ last_seq' = PyNone
    /\ UNCHANGED <<handles, engine, channels, live, read_seq, volume>>

\* Classes that are still registered cannot be registered again.
Enable ==
    /\ place = "idle" /\ ~enabled.handler /\ ~enabled.classes
    /\ enabled' = [handler |-> TRUE, classes |-> TRUE]
    /\ UNCHANGED <<handles, engine, channels, live, shown, op, place, outcome>>

ToggleLive ==
    /\ place = "idle"
    /\ live' = ~live
    /\ UNCHANGED <<handles, engine, channels, enabled, shown, op, place, outcome>>

Die ==
    /\ \E e \in running : running' = running \ {e} /\ hung' = hung \ {e}
    /\ UNCHANGED <<handles, started, channels, enabled, live, shown, op, place, outcome>>

Hang ==
    /\ CanHang
    /\ \E e \in running \ hung : hung' = hung \cup {e}
    /\ UNCHANGED <<handles, started, running, channels, enabled, live, shown, op, place, outcome>>

\* The engine of another Blender with the same channel path loads a graph: it
\* creates the file anew, of any dims, under the mappings of both engines.
Reallocated ==
    /\ \E d \in Resolutions : Create(OtherBlender, d)
    /\ other' = 0
    /\ UNCHANGED <<handles, engine, own, enabled, live, shown, op, place, outcome>>

\* It renders a frame, and stores its own count as its number.
PublishedByOther ==
    /\ other # PyNone /\ other < MaxPublished
    /\ other' = other + 1
    /\ channel' = [channel EXCEPT !.seq = other', !.by = OtherBlender]
    /\ UNCHANGED <<handles, engine, own, enabled, live, shown, op, place, outcome>>

Continue ==
    \/ CloseReader \/ SayGoodbye \/ GoodbyeAnswered \/ Reap
    \/ SpawnFails \/ Spawn \/ Ready \/ NotReady \/ Hello \/ HelloAnswered
    \/ SendLoad \/ LoadAnswered \/ OpenReader
    \/ Render \/ RenderAnswered \/ Read \/ Reopen \/ Skip \/ Push

AddOnNext ==
    \/ Continue
    \/ StartEngine \/ Stop \/ RenderFrame \/ OnDraw \/ Disable \/ Enable \/ ToggleLive
    \/ Die \/ Hang \/ Reallocated \/ PublishedByOther

\* Python goes on with the call it is in; nothing makes the user act.
AddOnSpec == AddOnInit /\ [][AddOnNext]_addOnVars /\ WF_addOnVars(Continue)

-----------------------------------------------------------------------------
(***************************************************************************)
(* Properties.                                                             *)
(***************************************************************************)
\* ops.py records the process and ends it through one handle: no engine runs
\* that the add-on has lost sight of, whatever failed on the way.
NoOrphans == running \subseteq {process} \cup {IF place = "spawned" THEN started ELSE PyNone}

\* shutdown_engine and start_engine change the three handles in steps of which
\* any may fail; still a client is a client of the recorded process, and a
\* reader never outlives its client.
HandlesAgree ==
    /\ client # PyNone => client = process
    /\ reader # PyNone => client # PyNone

\* The three handles and the engine processes, together.
HandlesAreTrue == AddOnTypeOK /\ NoOrphans /\ HandlesAgree

\* _on_draw (handlers.py:124): no exception gets into Blender's draw loop.
DrawNeverRaises == place = "idle" /\ op = "draw" => outcome # "raised"

\* handlers.py:179 compares numbers of a file that every engine on its path
\* numbers from 0.  A redraw in Live mode that reports no error leaves the
\* volume at the frame it just rendered, unless one of the two numbers it
\* compared was another engine's: one replaced since, or another Blender's.
OnlyOtherWritersSkip ==
    [][op = "draw" /\ place # "idle" /\ place' = "idle" /\ outcome' = "ok"
        => \/ volume' = "latest"
           \/ last_seq # PyNone /\ (last_seq.by # client \/ read_seq.by # client)]_addOnVars

\* Whatever Blender calls comes back, however engines fail or die on the way,
\* except while an engine that it has started stops answering: recv has no
\* timeout, and it runs on the thread that draws Blender's windows.
OperatorReturns == place # "idle" ~> place = "idle" \/ hung # {}

\* "Safe to call repeatedly" (ops.py:33): Stop leaves no handle behind.
StopLeavesNothing == place = "idle" /\ op = "stop" => process = PyNone /\ client = PyNone

\* "Update the viewport volume on every redraw" (props.py:31): a redraw that
\* reports no error leaves the volume at the frame it just rendered.
EveryRedrawUpdates ==
    [][op = "draw" /\ place # "idle" /\ place' = "idle" /\ outcome' = "ok"
        => volume' = "latest"]_addOnVars
=============================================================================
