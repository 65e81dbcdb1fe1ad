------------------------------- MODULE Session -------------------------------
(***************************************************************************)
(* elementsd: one client at a time, one command at a time, a Session per   *)
(* connection.  The daemon answers each command, keeps the loaded graph,   *)
(* its timeline and the frame channel in step, and recovers from GPU       *)
(* failures.  The device may be lost at any moment, also between the steps *)
(* of a render.                                                            *)
(*                                                                         *)
(* Timeline::goto is one step here (module Timeline is about its inside).  *)
(* A frame is identified by the graph evaluated, the document whose frames *)
(* the state came from, and the frame number; GPU memory by whether the    *)
(* pool and the timeline hold any.                                         *)
(***************************************************************************)
EXTENDS Integers

CONSTANTS
    Docs,           \* the documents a client may name
    Dims,           \* resolutions
    NoDims,         \* of a document that load refuses
    DimsOf,         \* each document's resolution
    Stateful,       \* the documents whose graph keeps state between frames
    Start,          \* the documents' start frame
    MaxSpan,        \* MAX_FRAME_SPAN, scaled down
    Frames,         \* the frames a client may ask for
    CreateFailures, \* where FrameWriter::create may fail: "open", "set_len"
    MaxSeq,         \* bound: frames published on one channel
    Nothing         \* None, and no request or reply

ASSUME SessionAssumption ==
    /\ DimsOf \in [Docs -> Dims \cup {NoDims}]
    /\ NoDims \notin Dims
    /\ Stateful \subseteq Docs
    /\ Start \in Nat /\ MaxSpan \in Nat /\ Frames \subseteq Nat
    /\ CreateFailures \subseteq {"open", "set_len"}
    /\ MaxSeq \in Nat
    /\ Nothing \notin Docs
    /\ Nothing \notin [doc : Docs, holds : BOOLEAN] \cup [dims : Dims, seq : Nat]

Commands ==
    [type : {"hello"}, current : BOOLEAN] \cup [type : {"load"}, doc : Docs]
        \cup [type : {"render"}, frame : Frames] \cup [type : {"shutdown"}]

Error(kind) == [type |-> "error", kind |-> kind]

VARIABLES
    open,       \* a client is connected
    greeted,
    graph,      \* the document whose graph is loaded
    timeline,   \* its doc, and whether it holds GPU memory; or Nothing
    writer,     \* the FrameWriter's dims and seq, or Nothing
    pooled,     \* the pool holds GPU memory
    device,     \* "lost" once the device-lost callback has run, else "good"
    file,       \* the channel file: dims, seq and latest frame; Nothing if
                \* there is none, or none with room for buffers
    pc,         \* where the daemon is
    out,        \* the evaluated frame, during a render
    request,    \* the command being answered, or last answered
    reply,      \* the answer, Nothing while the daemon works on it
    acked       \* what the client knows: the document last reported Loaded

session == <<greeted, graph, timeline, writer, pooled, acked>>
vars == <<open, session, device, file, pc, out, request, reply>>

Kinds == {"protocol_version", "document", "graph", "gpu", "device_lost",
          "out_of_memory", "io"}

Pictures == [graph : Docs, state : Docs, frame : Nat]

Replies ==
    [type : {"hello_ack", "bye"}] \cup [type : {"loaded"}, dims : Dims]
        \cup [type : {"frame"}, seq : Nat, dims : Dims]
        \cup [type : {"error"}, kind : Kinds]

ASSUME ReplyAssumption == Nothing \notin Replies

TypeOK ==
    /\ open \in BOOLEAN /\ greeted \in BOOLEAN /\ pooled \in BOOLEAN
    /\ graph \in Docs \cup {Nothing} /\ acked \in Docs \cup {Nothing}
    /\ timeline \in [doc : Docs, holds : BOOLEAN] \cup {Nothing}
    /\ writer \in [dims : Dims, seq : Nat] \cup {Nothing}
    /\ device \in {"good", "lost"}
    /\ file \in [dims : Dims, seq : Nat, frame : Pictures \cup {Nothing}] \cup {Nothing}
    /\ pc \in {"idle", "read_back", "publish", "faulted"}
    /\ out \in Pictures \cup {Nothing}
    /\ request \in Commands \cup {Nothing}
    /\ reply \in Replies \cup {Nothing}

Init ==
    /\ open = FALSE /\ greeted = FALSE /\ pooled = FALSE
    /\ graph = Nothing /\ acked = Nothing
    /\ timeline = Nothing /\ writer = Nothing
    /\ device = "good"
    /\ file = Nothing
    /\ pc = "idle" /\ out = Nothing
    /\ request = Nothing /\ reply = Nothing

-----------------------------------------------------------------------------
(***************************************************************************)
(* The client's side of the connection: lock-step requests and replies.    *)
(***************************************************************************)
Connect ==
    /\ pc = "idle" /\ ~open
    /\ open' = TRUE
    /\ device' = "good"
    /\ UNCHANGED <<session, file, pc, out, request, reply>>

\* A command; MaxSeq bounds the frames published on one channel.
Send(c) ==
    /\ open /\ pc = "idle"
    /\ request = Nothing \/ reply # Nothing
    /\ c.type = "render" /\ writer # Nothing => writer.seq < MaxSeq
    /\ request' = c
    /\ reply' = Nothing
    /\ UNCHANGED <<open, session, device, file, pc, out>>

\* The Session is dropped with its GPU objects and its mapping; the file stays.
DropSession ==
    /\ open' = FALSE /\ greeted' = FALSE /\ pooled' = FALSE
    /\ graph' = Nothing /\ acked' = Nothing
    /\ timeline' = Nothing /\ writer' = Nothing

\* The client closes, or sends something unreadable.
Disconnect ==
    /\ open /\ pc = "idle"
    /\ request = Nothing \/ reply # Nothing
    /\ DropSession
    /\ request' = Nothing /\ reply' = Nothing
    /\ UNCHANGED <<device, file, pc, out>>

DeviceLoss ==
    /\ open /\ device = "good"
    /\ device' = "lost"
    /\ UNCHANGED <<open, session, file, pc, out, request, reply>>

-----------------------------------------------------------------------------
(***************************************************************************)
(* handle: Hello, Shutdown, and what is refused before it is looked at.    *)
(***************************************************************************)
Asked(type) ==
    /\ open /\ pc = "idle"
    /\ request # Nothing /\ reply = Nothing
    /\ request.type = type

Reply(r) ==
    /\ reply' = r
    /\ pc' = "idle"
    /\ out' = Nothing
    /\ UNCHANGED <<open, request>>

HandleHello ==
    /\ Asked("hello")
    /\ greeted' = (greeted \/ request.current)
    /\ IF request.current THEN Reply([type |-> "hello_ack"])
                          ELSE Reply(Error("protocol_version"))
    /\ UNCHANGED <<graph, timeline, writer, pooled, acked, device, file>>

RequireGreeted ==
    /\ Asked("load") \/ Asked("render")
    /\ ~greeted
    /\ Reply(Error("protocol_version"))
    /\ UNCHANGED <<session, device, file>>

HandleShutdown ==
    /\ Asked("shutdown")
    /\ DropSession
    /\ reply' = [type |-> "bye"]
    /\ UNCHANGED <<device, file, pc, out, request>>

-----------------------------------------------------------------------------
(***************************************************************************)
(* load                                                                    *)
(***************************************************************************)
Load(doc) == Asked("load") /\ greeted /\ request.doc = doc

\* Faulty variant of Refused: documents are not validated.
RefusedNever(doc) == FALSE

\* Unreadable, malformed, or too large for the device.
Refused(doc) == DimsOf[doc] = NoDims

\* A file that cannot be read is an io error, one that says the wrong thing a
\* document's.
RejectDocument(doc) ==
    /\ Load(doc)
    /\ Refused(doc)
    /\ \E kind \in {"io", "document"} : Reply(Error(kind))
    /\ UNCHANGED <<session, device, file>>

NeedsChannel(dims) == writer # Nothing => writer.dims # dims

\* Faulty variant of Adopt: the old timeline, and all it simulated, is kept.
AdoptKeepingTimeline(doc) ==
    /\ graph' = doc
    /\ timeline' = IF timeline = Nothing THEN [doc |-> doc, holds |-> FALSE] ELSE timeline
    /\ acked' = doc
    /\ Reply([type |-> "loaded", dims |-> DimsOf[doc]])
    /\ UNCHANGED <<pooled, greeted, device>>

\* The old timeline's textures go back to the pool.
Adopt(doc) ==
    /\ graph' = doc
    /\ timeline' = [doc |-> doc, holds |-> FALSE]
    /\ pooled' = (pooled \/ (timeline # Nothing /\ timeline.holds))
    /\ acked' = doc
    /\ Reply([type |-> "loaded", dims |-> DimsOf[doc]])
    /\ UNCHANGED <<greeted, device>>

LoadOnThisChannel(doc) ==
    /\ Load(doc)
    /\ ~Refused(doc)
    /\ ~NeedsChannel(DimsOf[doc])
    /\ Adopt(doc)
    /\ UNCHANGED <<writer, file>>

LoadOnNewChannel(doc) ==
    /\ Load(doc)
    /\ ~Refused(doc)
    /\ NeedsChannel(DimsOf[doc])
    /\ writer' = [dims |-> DimsOf[doc], seq |-> 0]
    /\ file' = [dims |-> DimsOf[doc], seq |-> 0, frame |-> Nothing]
    /\ Adopt(doc)

\* Faulty variant of Untouched: the graph is replaced before the channel is.
GraphReplaced(doc) ==
    /\ graph' = doc
    /\ UNCHANGED <<greeted, timeline, writer, pooled, acked>>

\* What a load that fails late leaves of the session: all of it.
Untouched(doc) == UNCHANGED session

\* FrameWriter::create fails: on a field too large for the address space,
\* which is the document's error, or on the file.  Past "open" the file has
\* been truncated under the mapping of the writer in use.
CreateFails(doc) ==
    /\ Load(doc)
    /\ ~Refused(doc)
    /\ NeedsChannel(DimsOf[doc])
    /\ \E stage \in CreateFailures, kind \in {"io", "document"} :
        /\ kind = "document" => stage = "open"
        /\ file' = IF stage = "open" THEN file ELSE Nothing
        /\ Reply(Error(kind))
    /\ Untouched(doc)
    /\ UNCHANGED device

-----------------------------------------------------------------------------
(***************************************************************************)
(* render                                                                  *)
(***************************************************************************)
\* Frames before the start frame are clamped to it, not stepped to.
TooFar(frame) == frame - Start > MaxSpan

Clamped(frame) == IF frame < Start THEN Start ELSE frame

\* Faulty variant of RejectRender: a render before any load is not expected.
RejectFarRender ==
    /\ Asked("render") /\ greeted
    /\ TooFar(request.frame)
    /\ Reply(Error("graph"))
    /\ UNCHANGED <<session, device, file>>

\* No graph is loaded, or goto would step through too many frames.
RejectRender ==
    /\ Asked("render") /\ greeted
    /\ graph = Nothing \/ TooFar(request.frame)
    /\ Reply(Error("graph"))
    /\ UNCHANGED <<session, device, file>>

Rendering == Asked("render") /\ greeted /\ graph # Nothing /\ ~TooFar(request.frame)

\* Evaluation takes textures from the pool and gives others back.
GotoSucceeds ==
    /\ Rendering
    /\ device = "good"
    /\ out' = [graph |-> graph, state |-> timeline.doc, frame |-> Clamped(request.frame)]
    /\ timeline' = [timeline EXCEPT !.holds = graph \in Stateful]
    /\ pooled' \in BOOLEAN
    /\ pc' = "read_back"
    /\ UNCHANGED <<open, greeted, graph, writer, acked, device, file, request, reply>>

\* Faulty variant of Recover: the pool is emptied before the timeline is.
RecoverPoolFirst(kind, holds, inPool) ==
    /\ timeline' = [timeline EXCEPT
           !.holds = holds /\ kind \notin {"device_lost", "out_of_memory"}]
    /\ pooled' = IF kind = "out_of_memory" THEN holds ELSE inPool

\* Faulty variant of Recover: only a lack of memory is recovered from.
RecoverMemoryOnly(kind, holds, inPool) ==
    /\ timeline' = [timeline EXCEPT !.holds = holds /\ kind # "out_of_memory"]
    /\ pooled' = (inPool /\ kind # "out_of_memory")

\* recover: a lost device's textures are forgotten; out of memory, the
\* timeline's go to the pool and the pool lets them all go.
Recover(kind, holds, inPool) ==
    /\ timeline' = [timeline EXCEPT
           !.holds = holds /\ kind \notin {"device_lost", "out_of_memory"}]
    /\ pooled' = (inPool /\ kind # "out_of_memory")

\* What a GpuError is mapped to.  None of them tells the state of the device:
\* a failed poll is a DeviceLost before the callback has run, and on a device
\* already lost a map that fails is a Validation.
GpuKinds == {"gpu", "out_of_memory", "device_lost"}

\* goto's arm maps the error as it is: also that of ReduceTarget::read, and
\* the first one of a step whose work is then found lost.  The held state goes
\* to the pool; snapshots may be left.
GotoFails ==
    /\ Rendering
    /\ \E kind \in GpuKinds \cup {"graph"}, holds, inPool \in BOOLEAN :
        /\ holds => timeline.holds
        /\ Recover(kind, holds, inPool)
        /\ Reply(Error(kind))
    /\ UNCHANGED <<greeted, graph, writer, acked, device, file>>

\* The field is read back, and then released to the pool.
ReadBack ==
    /\ pc = "read_back"
    /\ device = "good"
    /\ pc' = "publish"
    /\ pooled' = TRUE
    /\ UNCHANGED <<open, greeted, graph, timeline, writer, acked, device, file,
                   out, request, reply>>

\* Faulty variant of AskDevice: the error is mapped as goto's arm does it.
AskDeviceNot(kind) == kind

\* The read-back's arm alone asks the device whether it is lost.
AskDevice(kind) == IF device = "lost" THEN "device_lost" ELSE kind

\* The graph's output may also turn out not to be a field.
ReadBackFails ==
    /\ pc = "read_back"
    /\ \E kind \in {AskDevice(k) : k \in GpuKinds} \cup {"graph"} :
        /\ Recover(kind, timeline.holds, TRUE)
        /\ Reply(Error(kind))
    /\ UNCHANGED <<greeted, graph, writer, acked, device, file>>

PublishInFile ==
    /\ writer' = [writer EXCEPT !.seq = @ + 1]
    /\ file' = [file EXCEPT !.seq = writer'.seq, !.frame = out]
    /\ Reply([type |-> "frame", seq |-> writer'.seq, dims |-> DimsOf[graph]])

\* Past the end of a truncated file the copy into the mapping faults, and the
\* process is gone.
Publish ==
    /\ pc = "publish"
    /\ IF file # Nothing
         THEN PublishInFile
         ELSE pc' = "faulted" /\ UNCHANGED <<open, writer, file, out, request, reply>>
    /\ UNCHANGED <<greeted, graph, timeline, pooled, acked, device>>

-----------------------------------------------------------------------------
Handle ==
    \/ HandleHello \/ RequireGreeted \/ HandleShutdown
    \/ \E doc \in Docs :
           RejectDocument(doc) \/ LoadOnThisChannel(doc) \/ LoadOnNewChannel(doc)
               \/ CreateFails(doc)
    \/ RejectRender \/ GotoSucceeds \/ GotoFails
    \/ ReadBack \/ ReadBackFails \/ Publish

Next ==
    \/ Handle
    \/ Connect \/ Disconnect \/ DeviceLoss
    \/ \E c \in Commands : Send(c)

\* The daemon has one thread and no handler waits for the client, so a command
\* that has arrived is worked on.
Spec == Init /\ [][Next]_vars /\ WF_vars(Handle)

-----------------------------------------------------------------------------
(***************************************************************************)
(* Correctness.                                                            *)
(***************************************************************************)
\* A Frame reply is true of the channel file: the file has the dims and the
\* number it gives, and holds under that number the frame that was asked for,
\* of the document the client last had confirmed, simulated from nothing else,
\* whatever was loaded, refused or failed before.
FrameReplyIsExact ==
    reply # Nothing /\ reply.type = "frame" =>
        file = [dims |-> DimsOf[acked], seq |-> reply.seq,
                frame |-> [graph |-> acked, state |-> acked,
                           frame |-> Clamped(request.frame)]]
            /\ reply.dims = file.dims

\* Between commands the session is what the replies said it is: graph and
\* timeline of the document last confirmed, and a writer of its resolution.  A
\* command that failed, at whatever point, has changed none of it.
SessionMatchesReplies ==
    pc = "idle" =>
        /\ graph = acked
        /\ graph = Nothing <=> timeline = Nothing
        /\ graph # Nothing =>
               /\ timeline.doc = graph
               /\ writer # Nothing /\ writer.dims = DimsOf[graph]

\* What the client is told is so, of the frame and of the session.
RepliesAreTrue == TypeOK /\ FrameReplyIsExact /\ SessionMatchesReplies

\* After an out_of_memory reply the engine keeps no GPU memory back, neither in
\* the timeline nor in the pool, so that a smaller document can load.
OutOfMemoryFreesMemory ==
    reply # Nothing /\ reply = Error("out_of_memory") =>
        ~pooled /\ ~timeline.holds

\* The timeline of a device reported as lost holds nothing of it.
LossIsLetGo == reply # Nothing /\ reply = Error("device_lost") => ~timeline.holds

\* A frame that was evaluated and is then lost with its device, at whatever
\* point of the read-back, is never answered with an error the add-on takes
\* for a transient one; and whichever arm reports a lost device, the timeline
\* has let go of it.  An evaluation that fails gives no such promise.
LostDeviceIsReported ==
    [][ /\ (pc = "read_back" /\ reply' \in {Error("gpu"), Error("out_of_memory")})
               => device = "good"
        /\ LossIsLetGo' ]_vars

\* A test of the daemon's: "device_lost maps to device_lost, not a generic gpu
\* error".  No request on a lost device, whichever arm of render it fails in,
\* is answered with an error of another GPU kind.
LossIsNeverTransient ==
    [][ (reply = Nothing /\ reply' \in {Error("gpu"), Error("out_of_memory")})
            => device = "good" ]_vars

\* Every command is answered.
CommandIsAnswered == request # Nothing /\ reply = Nothing ~> reply # Nothing

\* "Every handler is total: a failure becomes a Response::Error and the session
\* stays alive."
HandlersAreTotal == pc # "faulted"
=============================================================================
