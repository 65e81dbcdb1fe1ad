---------------------------- MODULE SessionProofs ----------------------------
(***************************************************************************)
(* Proofs about Session, for any documents and resolutions, any commands   *)
(* in any order, and wherever creating a channel fails: what a client is   *)
(* told is what the daemon holds and what the channel file contains.       *)
(* After them, proofs about GpuErrors, which says what fails in a session, *)
(* and about AddOn, its other end.                                         *)
(*                                                                         *)
(* The argument: each command either changes the graph, the timeline, the  *)
(* writer and the file together, or none of what a client was told about.  *)
(* Between the steps of a render the evaluated frame must stay the one     *)
(* asked for, and as long as a writer has its file, both agree on the      *)
(* resolution and the number; a file truncated by a failed load is one the *)
(* writer no longer has.                                                   *)
(***************************************************************************)
EXTENDS Session, GpuErrors, AddOn, TLAPS

\* The session is what the client was told, also during a render.
Agreed ==
    /\ graph = acked
    /\ graph = Nothing <=> timeline = Nothing
    /\ graph # Nothing =>
           /\ timeline.doc = graph
           /\ writer # Nothing /\ writer.dims = DimsOf[graph]

\* A render under way is of the frame asked for.
RenderIsOfRequest ==
    pc # "idle" =>
        /\ graph # Nothing
        /\ request # Nothing /\ request.type = "render" /\ reply = Nothing
        /\ out = [graph |-> graph, state |-> graph, frame |-> Clamped(request.frame)]

WriterHasItsFile ==
    writer # Nothing /\ file # Nothing =>
        file.dims = writer.dims /\ file.seq = writer.seq

Inductive ==
    /\ TypeOK
    /\ Agreed
    /\ RenderIsOfRequest
    /\ WriterHasItsFile
    /\ FrameReplyIsExact
    /\ OutOfMemoryFreesMemory
    /\ LossIsLetGo

-----------------------------------------------------------------------------
LEMMA ClampedType ==
    ASSUME NEW f \in Frames
    PROVE  Clamped(f) \in Nat
  BY SessionAssumption DEF Clamped

LEMMA ErrorType ==
    \A kind \in Kinds : Error(kind) \in Replies /\ Error(kind).type = "error"
  BY DEF Replies, Error

LEMMA InitInductive == Init => Inductive
  BY SessionAssumption
  DEF Init, Inductive, TypeOK, Agreed, RenderIsOfRequest, WriterHasItsFile,
      FrameReplyIsExact, OutOfMemoryFreesMemory, LossIsLetGo, Error

-----------------------------------------------------------------------------
(***************************************************************************)
(* The client's steps.                                                     *)
(***************************************************************************)
LEMMA ClientStep ==
    ASSUME Inductive, Connect \/ Disconnect \/ DeviceLoss \/ \E c \in Commands : Send(c)
    PROVE  Inductive'
<1>1. CASE Connect
  BY <1>1 DEF Connect, session, Inductive, TypeOK, Agreed, RenderIsOfRequest,
     WriterHasItsFile, FrameReplyIsExact, OutOfMemoryFreesMemory, LossIsLetGo
<1>2. CASE Disconnect
  BY <1>2 DEF Disconnect, DropSession, Inductive, TypeOK, Agreed, RenderIsOfRequest,
     WriterHasItsFile, FrameReplyIsExact, OutOfMemoryFreesMemory, LossIsLetGo
<1>3. CASE DeviceLoss
  BY <1>3 DEF DeviceLoss, session, Inductive, TypeOK, Agreed, RenderIsOfRequest,
     WriterHasItsFile, FrameReplyIsExact, OutOfMemoryFreesMemory, LossIsLetGo
<1>4. CASE \E c \in Commands : Send(c)
  BY <1>4 DEF Send, session, Inductive, TypeOK, Agreed, RenderIsOfRequest,
     WriterHasItsFile, FrameReplyIsExact, OutOfMemoryFreesMemory, LossIsLetGo
<1> QED
  BY <1>1, <1>2, <1>3, <1>4

-----------------------------------------------------------------------------
(***************************************************************************)
(* Commands that are refused or fail before a render has begun, and those  *)
(* that do not concern the graph.                                          *)
(***************************************************************************)
\* Answering with an error that frees no memory, the rest as it was.
LEMMA Refusal ==
    ASSUME Inductive, NEW kind \in Kinds \ {"out_of_memory", "device_lost"}, Reply(Error(kind)),
           UNCHANGED <<session, device>>,
           file' = file \/ file' = Nothing
    PROVE  Inductive'
<1>1. reply' = Error(kind) /\ reply' \in Replies /\ reply'.type = "error"
  BY ErrorType DEF Reply
<1>2. reply' \notin {Error("out_of_memory"), Error("device_lost")}
  BY <1>1 DEF Error
<1>3. TypeOK'
  BY <1>1 DEF Reply, session, Inductive, TypeOK
<1>4. Agreed' /\ RenderIsOfRequest' /\ WriterHasItsFile'
  BY DEF Reply, session, Inductive, Agreed, RenderIsOfRequest, WriterHasItsFile
<1>5. FrameReplyIsExact' /\ OutOfMemoryFreesMemory' /\ LossIsLetGo'
  BY <1>1, <1>2 DEF FrameReplyIsExact, OutOfMemoryFreesMemory, LossIsLetGo
<1> QED
  BY <1>3, <1>4, <1>5 DEF Inductive

LEMMA RefusalStep ==
    ASSUME Inductive,
           \/ RequireGreeted \/ RejectRender
           \/ \E doc \in Docs : RejectDocument(doc) \/ CreateFails(doc)
    PROVE  Inductive'
<1>1. {"protocol_version", "graph", "document", "io"} \subseteq Kinds \ {"out_of_memory", "device_lost"}
  BY DEF Kinds
<1> QED
  BY <1>1, Refusal DEF RequireGreeted, RejectRender, RejectDocument, CreateFails, Untouched

LEMMA HelloStep ==
    ASSUME Inductive, HandleHello
    PROVE  Inductive'
<1>1. /\ reply' \in {[type |-> "hello_ack"], Error("protocol_version")}
      /\ pc' = "idle" /\ out' = Nothing
      /\ UNCHANGED <<open, request, graph, timeline, writer, pooled, acked, device, file>>
  BY DEF HandleHello, Reply
<1>2. reply' \in Replies /\ reply'.type # "frame" /\ reply' \notin {Error("out_of_memory"), Error("device_lost")}
  BY <1>1 DEF Replies, Error, Kinds
<1>3. greeted' \in BOOLEAN
  BY DEF HandleHello, Inductive, TypeOK
<1>4. TypeOK'
  BY <1>1, <1>2, <1>3 DEF Inductive, TypeOK
<1> QED
  BY <1>1, <1>2, <1>4 DEF Inductive, Agreed, RenderIsOfRequest, WriterHasItsFile,
     FrameReplyIsExact, OutOfMemoryFreesMemory, LossIsLetGo

LEMMA ShutdownStep ==
    ASSUME Inductive, HandleShutdown
    PROVE  Inductive'
<1>1. reply' \in Replies /\ reply'.type = "bye" /\ reply' \notin {Error("out_of_memory"), Error("device_lost")}
  BY DEF HandleShutdown, Replies, Error
<1>2. TypeOK'
  BY <1>1 DEF HandleShutdown, DropSession, Inductive, TypeOK
<1>3. pc' = "idle"
  BY DEF HandleShutdown, Asked
<1> QED
  BY <1>1, <1>2, <1>3 DEF HandleShutdown, DropSession, Inductive, Agreed, RenderIsOfRequest,
     WriterHasItsFile, FrameReplyIsExact, OutOfMemoryFreesMemory, LossIsLetGo

-----------------------------------------------------------------------------
(***************************************************************************)
(* load                                                                    *)
(***************************************************************************)
LEMMA LoadStep ==
    ASSUME Inductive, NEW doc \in Docs, LoadOnThisChannel(doc) \/ LoadOnNewChannel(doc)
    PROVE  Inductive'
<1>1. DimsOf[doc] \in Dims
  BY SessionAssumption DEF LoadOnThisChannel, LoadOnNewChannel, Refused
<1>2. Adopt(doc)
  BY DEF LoadOnThisChannel, LoadOnNewChannel
<1>3. /\ reply' = [type |-> "loaded", dims |-> DimsOf[doc]]
      /\ pc' = "idle" /\ out' = Nothing
      /\ graph' = doc /\ acked' = doc /\ timeline' = [doc |-> doc, holds |-> FALSE]
      /\ UNCHANGED <<open, request, greeted, device>>
  BY <1>2 DEF Adopt, Reply
<1>4. reply' \in Replies /\ reply'.type = "loaded" /\ reply' \notin {Error("out_of_memory"), Error("device_lost")}
  BY <1>1, <1>3 DEF Replies, Error
<1>5. /\ writer' \in [dims : Dims, seq : Nat] /\ writer'.dims = DimsOf[doc]
      /\ file' \in [dims : Dims, seq : Nat, frame : Pictures \cup {Nothing}] \cup {Nothing}
      /\ WriterHasItsFile'
  <2>1. CASE LoadOnThisChannel(doc)
    <3>1. writer # Nothing /\ writer.dims = DimsOf[doc] /\ writer' = writer /\ file' = file
      BY <2>1 DEF LoadOnThisChannel, NeedsChannel
    <3> QED
      BY <3>1 DEF Inductive, TypeOK, WriterHasItsFile
  <2>2. CASE LoadOnNewChannel(doc)
    BY <1>1, <2>2 DEF LoadOnNewChannel, WriterHasItsFile
  <2> QED
    BY <2>1, <2>2
<1>6. pooled' \in BOOLEAN
  BY <1>2 DEF Adopt, Inductive, TypeOK
<1>7. TypeOK'
  BY <1>3, <1>4, <1>5, <1>6 DEF Inductive, TypeOK
<1>8. writer' # Nothing /\ timeline' # Nothing /\ doc # Nothing
  <2>1. timeline' \in [doc : Docs, holds : BOOLEAN]
    BY <1>3
  <2> QED
    BY <1>5, <2>1, SessionAssumption
<1>9. Agreed'
  BY <1>3, <1>5, <1>8 DEF Agreed
<1> QED
  BY <1>3, <1>4, <1>5, <1>7, <1>9 DEF Inductive, RenderIsOfRequest, FrameReplyIsExact,
     OutOfMemoryFreesMemory, LossIsLetGo

-----------------------------------------------------------------------------
(***************************************************************************)
(* render                                                                  *)
(***************************************************************************)
LEMMA GotoStep ==
    ASSUME Inductive, GotoSucceeds
    PROVE  Inductive'
<1>1. /\ request \in Commands /\ request.type = "render" /\ reply = Nothing
      /\ request # Nothing /\ graph # Nothing /\ graph \in Docs
  BY DEF GotoSucceeds, Rendering, Asked, Inductive, TypeOK
<1>2. request.frame \in Frames
  BY <1>1 DEF Commands
<1>3. timeline \in [doc : Docs, holds : BOOLEAN] /\ timeline.doc = graph
  BY <1>1 DEF Inductive, TypeOK, Agreed
<1>4. timeline' = [doc |-> graph, holds |-> graph \in Stateful]
  BY <1>3 DEF GotoSucceeds
<1>5. out' = [graph |-> graph, state |-> graph, frame |-> Clamped(request.frame)]
  BY <1>3 DEF GotoSucceeds
<1>6. out' \in Pictures
  BY <1>1, <1>2, <1>5, ClampedType DEF Pictures
<1>7. timeline' \in [doc : Docs, holds : BOOLEAN] /\ timeline'.doc = graph
  BY <1>1, <1>4
<1>8. TypeOK'
  BY <1>6, <1>7 DEF GotoSucceeds, Inductive, TypeOK
<1>9. Agreed'
  <2>1. timeline' # Nothing
    BY <1>7, SessionAssumption
  <2> QED
    BY <1>1, <1>7, <2>1 DEF GotoSucceeds, Inductive, Agreed
<1> QED
  BY <1>1, <1>5, <1>8, <1>9 DEF GotoSucceeds, Inductive, RenderIsOfRequest, WriterHasItsFile,
     FrameReplyIsExact, OutOfMemoryFreesMemory, LossIsLetGo

\* A render fails, and recover deals with its kind of error.
LEMMA RecoverStep ==
    ASSUME Inductive, graph # Nothing, request # Nothing,
           NEW kind \in Kinds, NEW holds \in BOOLEAN, NEW inPool \in BOOLEAN,
           Recover(kind, holds, inPool), Reply(Error(kind)),
           UNCHANGED <<greeted, graph, writer, acked, device, file>>
    PROVE  Inductive'
<1>1. reply' = Error(kind) /\ reply' \in Replies /\ reply'.type = "error"
  BY ErrorType DEF Reply
<1>2. timeline \in [doc : Docs, holds : BOOLEAN] /\ timeline.doc = graph
  BY DEF Inductive, TypeOK, Agreed
<1>3. /\ timeline' = [doc |-> graph,
                      holds |-> holds /\ kind \notin {"device_lost", "out_of_memory"}]
      /\ timeline' \in [doc : Docs, holds : BOOLEAN]
      /\ pooled' = (inPool /\ kind # "out_of_memory")
  BY <1>2 DEF Recover
<1>4. TypeOK'
  BY <1>1, <1>3 DEF Reply, Inductive, TypeOK
<1>5. Agreed'
  <2>1. timeline' # Nothing
    BY <1>3, SessionAssumption
  <2> QED
    BY <1>2, <1>3, <2>1 DEF Inductive, Agreed
<1>6. OutOfMemoryFreesMemory' /\ LossIsLetGo'
  BY <1>1, <1>3 DEF OutOfMemoryFreesMemory, LossIsLetGo, Error
<1> QED
  BY <1>1, <1>4, <1>5, <1>6 DEF Reply, Inductive, RenderIsOfRequest, WriterHasItsFile,
     FrameReplyIsExact

LEMMA RenderFailsStep ==
    ASSUME Inductive, GotoFails \/ ReadBackFails
    PROVE  Inductive'
<1>1. /\ GpuKinds \cup {"graph"} \subseteq Kinds
      /\ {AskDevice(k) : k \in GpuKinds} \subseteq Kinds
  BY DEF GpuKinds, AskDevice, Kinds
<1>2. graph # Nothing /\ request # Nothing
  BY DEF GotoFails, Rendering, Asked, ReadBackFails, Inductive, RenderIsOfRequest
<1>3. timeline.holds \in BOOLEAN
  BY <1>2 DEF Inductive, TypeOK, Agreed
<1>4. CASE GotoFails
  BY <1>1, <1>2, <1>4, RecoverStep DEF GotoFails
<1>5. CASE ReadBackFails
  BY <1>1, <1>2, <1>3, <1>5, RecoverStep DEF ReadBackFails
<1> QED
  BY <1>4, <1>5

LEMMA ReadBackStep ==
    ASSUME Inductive, ReadBack
    PROVE  Inductive'
  BY DEF ReadBack, Inductive, TypeOK, Agreed, RenderIsOfRequest, WriterHasItsFile,
     FrameReplyIsExact, OutOfMemoryFreesMemory, LossIsLetGo

LEMMA PublishStep ==
    ASSUME Inductive, Publish
    PROVE  Inductive'
<1>1. /\ graph # Nothing /\ graph \in Docs /\ graph = acked /\ reply = Nothing
      /\ writer \in [dims : Dims, seq : Nat] /\ writer.dims = DimsOf[graph]
      /\ writer # Nothing
      /\ out = [graph |-> graph, state |-> graph, frame |-> Clamped(request.frame)]
  BY DEF Publish, Inductive, TypeOK, Agreed, RenderIsOfRequest
<1>2. UNCHANGED <<open, greeted, graph, timeline, pooled, acked, device, request>>
  BY DEF Publish, PublishInFile, Reply
<1>3. CASE file = Nothing
  <2>1. pc' = "faulted" /\ UNCHANGED <<writer, file, out, reply>>
    BY <1>3 DEF Publish
  <2> QED
    BY <1>1, <1>2, <2>1 DEF Publish, Inductive, TypeOK, Agreed, RenderIsOfRequest,
       WriterHasItsFile, FrameReplyIsExact, OutOfMemoryFreesMemory, LossIsLetGo
<1>4. CASE file # Nothing
  <2>1. PublishInFile
    BY <1>4 DEF Publish
  <2>2. /\ file \in [dims : Dims, seq : Nat, frame : Pictures \cup {Nothing}]
        /\ file.dims = writer.dims /\ out \in Pictures
    <3>1. request \in Commands /\ request.type = "render"
      BY DEF Publish, Inductive, TypeOK, RenderIsOfRequest
    <3>2. request.frame \in Frames
      BY <3>1 DEF Commands
    <3>3. out \in Pictures
      BY <1>1, <3>2, ClampedType DEF Pictures
    <3> QED
      BY <1>1, <1>4, <3>3 DEF Inductive, TypeOK, WriterHasItsFile
  <2>3. writer' = [dims |-> DimsOf[graph], seq |-> writer.seq + 1]
    BY <1>1, <2>1 DEF PublishInFile
  <2>4. file' = [dims |-> DimsOf[graph], seq |-> writer.seq + 1, frame |-> out]
    BY <1>1, <2>1, <2>2, <2>3 DEF PublishInFile
  <2>5. /\ reply' = [type |-> "frame", seq |-> writer.seq + 1, dims |-> DimsOf[graph]]
        /\ pc' = "idle" /\ out' = Nothing
    BY <2>1, <2>3 DEF PublishInFile, Reply
  <2>6. reply' \in Replies /\ reply' \notin {Error("out_of_memory"), Error("device_lost")}
    BY <1>1, <2>5 DEF Replies, Error
  <2>7. TypeOK'
    <3>1. writer' \in [dims : Dims, seq : Nat]
      BY <1>1, <2>3
    <3>2. file' \in [dims : Dims, seq : Nat, frame : Pictures \cup {Nothing}]
      BY <1>1, <2>2, <2>4
    <3> QED
      BY <1>2, <2>5, <2>6, <3>1, <3>2 DEF Inductive, TypeOK
  <2>8. writer' # Nothing
    BY <1>1, <2>3, SessionAssumption
  <2>9. Agreed'
    BY <1>1, <1>2, <2>3, <2>8 DEF Inductive, Agreed
  <2>10. FrameReplyIsExact'
    BY <1>1, <1>2, <2>4, <2>5 DEF FrameReplyIsExact
  <2> QED
    BY <2>3, <2>4, <2>5, <2>6, <2>7, <2>9, <2>10
    DEF Inductive, RenderIsOfRequest, WriterHasItsFile, OutOfMemoryFreesMemory, LossIsLetGo
<1> QED
  BY <1>3, <1>4

-----------------------------------------------------------------------------
(***************************************************************************)
(* The theorems.                                                           *)
(***************************************************************************)
LEMMA SessionStep == Inductive /\ [Next]_vars => Inductive'
<1> SUFFICES ASSUME Inductive, [Next]_vars PROVE Inductive'
  OBVIOUS
<1>1. CASE UNCHANGED vars
  BY <1>1 DEF vars, session, Inductive, TypeOK, Agreed, RenderIsOfRequest,
     WriterHasItsFile, FrameReplyIsExact, OutOfMemoryFreesMemory, LossIsLetGo
<1>2. CASE Connect \/ Disconnect \/ DeviceLoss \/ \E c \in Commands : Send(c)
  BY <1>2, ClientStep
<1>3. CASE Handle
  BY <1>3, HelloStep, ShutdownStep, RefusalStep, LoadStep, GotoStep, RenderFailsStep,
     ReadBackStep, PublishStep DEF Handle
<1> QED
  BY <1>1, <1>2, <1>3 DEF Next

\* The invariant is inductive.
THEOREM SessionInvariance == Spec => []Inductive
  BY InitInductive, SessionStep, PTL DEF Spec

\* Every variable of the daemon keeps its type.
THEOREM SessionTypeCorrect == Spec => []TypeOK
<1>1. Inductive => TypeOK
  BY DEF Inductive
<1> QED
  BY <1>1, SessionInvariance, PTL

\* A Frame reply is true of the channel file, whatever was loaded, refused or
\* failed before it.
THEOREM FrameRepliesAreExact == Spec => []FrameReplyIsExact
<1>1. Inductive => FrameReplyIsExact
  BY DEF Inductive
<1> QED
  BY <1>1, SessionInvariance, PTL

\* A command that fails leaves the document the client was told of in place.
THEOREM SessionsMatchReplies == Spec => []SessionMatchesReplies
<1>1. Inductive => SessionMatchesReplies
  BY DEF Inductive, Agreed, SessionMatchesReplies
<1> QED
  BY <1>1, SessionInvariance, PTL

\* After an out_of_memory reply the engine holds no GPU memory.
THEOREM OutOfMemoryRecovers == Spec => []OutOfMemoryFreesMemory
<1>1. Inductive => OutOfMemoryFreesMemory
  BY DEF Inductive
<1> QED
  BY <1>1, SessionInvariance, PTL

\* The replies are true, of the frame they name and of the session they leave.
THEOREM RepliesAlwaysTrue == Spec => []RepliesAreTrue
  BY SessionTypeCorrect, FrameRepliesAreExact, SessionsMatchReplies, PTL DEF RepliesAreTrue
\* A step that leaves the read-back with an error other than a lost device has
\* asked the device.
LEMMA ReadBackAsksTheDevice ==
    ASSUME Inductive, Next, pc = "read_back",
           reply' \in {Error("gpu"), Error("out_of_memory")}
    PROVE  device = "good"
<1> SUFFICES ASSUME device = "lost" PROVE FALSE
  BY DEF Inductive, TypeOK
<1>1. reply = Nothing /\ reply' # Nothing
  BY ReplyAssumption, ErrorType DEF Kinds, Inductive, RenderIsOfRequest
<1>2. ReadBackFails
  <2>1. ~(HandleHello \/ HandleShutdown \/ RequireGreeted \/ RejectRender \/ GotoSucceeds \/ GotoFails)
    BY DEF HandleHello, HandleShutdown, RequireGreeted, RejectRender, GotoSucceeds, GotoFails,
       Rendering, Asked
  <2>2. ~ \E doc \in Docs : RejectDocument(doc) \/ LoadOnThisChannel(doc) \/ LoadOnNewChannel(doc)
                               \/ CreateFails(doc)
    BY DEF RejectDocument, LoadOnThisChannel, LoadOnNewChannel, CreateFails, Load, Asked
  <2>3. ~(ReadBack \/ Publish)
    BY <1>1 DEF ReadBack, Publish
  <2>4. ~(Connect \/ Disconnect \/ DeviceLoss \/ \E c \in Commands : Send(c))
    BY <1>1 DEF Connect, Disconnect, DeviceLoss, Send
  <2> QED
    BY <2>1, <2>2, <2>3, <2>4 DEF Next, Handle
<1>3. PICK kind \in {"device_lost", "graph"} : reply' = Error(kind)
  BY <1>2 DEF ReadBackFails, AskDevice, GpuKinds, Reply
<1> QED
  BY <1>3 DEF Error

\* daemon.rs:242: a device lost under the read-back is reported as lost, and
\* daemon.rs:280: with every lost device that is reported, by either arm, the
\* timeline lets go of its textures.
THEOREM LostDevicesAreReported == Spec => LostDeviceIsReported
<1> DEFINE Asks == pc = "read_back" /\ reply' \in {Error("gpu"), Error("out_of_memory")}
                       => device = "good"
<1>1. Inductive /\ [Next]_vars => [Asks]_vars
  BY ReadBackAsksTheDevice
<1>2. Inductive' => LossIsLetGo'
  BY DEF Inductive
<1>3. Inductive /\ Inductive' /\ [Next]_vars => [Asks /\ LossIsLetGo']_vars
  BY <1>1, <1>2
<1> QED
  BY <1>3, SessionInvariance, PTL DEF Spec, LostDeviceIsReported

-----------------------------------------------------------------------------
(***************************************************************************)
(* GpuErrors, for any calls and any errors: every error is reported, once, *)
(* by a report no milder than it, and what was made while one was raised   *)
(* is never kept.                                                          *)
(*                                                                         *)
(* The argument is one of accounting.  Between two reports, what was       *)
(* raised (owed) is what the scopes caught and what the stray slot stands  *)
(* for: the slot holds the most severe of the errors it was given.  A call *)
(* that is making something has not kept it yet, so only a report of       *)
(* success, with nothing caught, can keep it.                              *)
(***************************************************************************)

\* The scopes' errors and the stray one stand for all that was raised.
Accounted ==
    /\ captured \subseteq owed
    /\ phase # "resolve" => captured = {}
    /\ stray # None => stray.kind \in owed
    /\ \A k \in owed \ captured : stray # None /\ severity[stray.kind] >= severity[k]

\* What is being made is not yet kept, and is broken if something was caught.
MakingIsNotKept ==
    /\ call.step <= Len(Steps[call.op])
    /\ phase # "idle" /\ call.op = "compile" => cache[call.key] = None
    /\ phase # "idle" /\ call.op = "acquire" =>
           pool.next > 0 /\ pool.next - 1 \notin pool.free \cup pool.handed
    /\ phase = "resolve" /\ captured = {} => Object \cap broken = {}
    /\ pool.free \cup pool.handed \subseteq 0..(pool.next - 1)

CreatedAreCounted ==
    created <= (IF phase = "run" /\ call.op = "acquire" THEN pool.next - 1 ELSE pool.next)

GpuInductive ==
    /\ GpuTypeOK
    /\ Accounted
    /\ MakingIsNotKept
    /\ CreatedAreCounted
    /\ NothingBrokenIsKept
    /\ PipelineIsOfItsSource
    /\ OwnErrorsStayOwn

-----------------------------------------------------------------------------
LEMMA StepsOfCalls ==
    /\ Operations = {"compile", "acquire", "submit", "read_back"}
    /\ Len(Steps["compile"]) = 1 /\ Steps["compile"][1] = "create"
    /\ Len(Steps["acquire"]) = 1 /\ Steps["acquire"][1] = "create"
    /\ Len(Steps["submit"]) = 1 /\ Steps["submit"][1] = "submit"
    /\ Len(Steps["read_back"]) = 4
    /\ Steps["read_back"][1] = "stage" /\ Steps["read_back"][2] = "map"
    /\ Steps["read_back"][3] = "wait" /\ Steps["read_back"][4] = "unmap"
  BY DEF Operations, Steps

LEMMA SeverityOrder ==
    /\ severity["out_of_memory"] = 3
    /\ severity["internal"] = 2
    /\ severity["validation"] = 1
  BY DEF severity

\* The slot and the answer are not confused with their absence.
LEMMA RecordsAreNotNone ==
    /\ \A kind \in ErrorKinds, from \in Operations \cup {None} :
           /\ [kind |-> kind, from |-> from] \in Strays
           /\ [kind |-> kind, from |-> from] # None
    /\ \A result \in Results, source \in Sources \cup {None} :
           /\ [result |-> result, source |-> source] \in Answers
           /\ [result |-> result, source |-> source] # None
<1>1. \A kind \in ErrorKinds, from \in Operations \cup {None} : [kind |-> kind, from |-> from] \in Strays
  BY DEF Strays
<1>2. \A result \in Results, source \in Sources \cup {None} :
          [result |-> result, source |-> source] \in Answers
  BY DEF Answers
<1> QED
  BY <1>1, <1>2, GpuErrorsAssumption

LEMMA GpuInitInductive == GpuInit => GpuInductive
<1> SUFFICES ASSUME GpuInit PROVE GpuInductive
  OBVIOUS
<1>1. call.op = "submit" /\ call.step = 1 /\ call \in Calls
  BY StepsOfCalls DEF GpuInit, Calls
<1>2. GpuTypeOK
  <2>1. MaxTextures \in Nat
    BY GpuErrorsAssumption
  <2>2. /\ pool \in [next : 0..MaxTextures, free : SUBSET Textures, handed : SUBSET Textures]
        /\ pool.free \cap pool.handed = {}
    BY <2>1 DEF GpuInit
  <2> QED
    BY <1>1, <2>1, <2>2 DEF GpuInit, GpuTypeOK
<1>3. Accounted /\ CreatedAreCounted
  BY <1>1 DEF GpuInit, Accounted, CreatedAreCounted
<1>4. MakingIsNotKept
  BY <1>1, StepsOfCalls DEF GpuInit, MakingIsNotKept
<1>5. NothingBrokenIsKept /\ PipelineIsOfItsSource /\ OwnErrorsStayOwn
  BY DEF GpuInit, NothingBrokenIsKept, PipelineIsOfItsSource, OwnErrorsStayOwn
<1> QED
  BY <1>2, <1>3, <1>4, <1>5 DEF GpuInductive

-----------------------------------------------------------------------------
(***************************************************************************)
(* What the device does by itself.                                         *)
(***************************************************************************)
LEMMA LoseStep ==
    ASSUME GpuInductive, Lose
    PROVE  GpuInductive'
<1>1. UNCHANGED <<stray, captured, cache, pool, call, phase, answer, owed, broken, created>>
      /\ lost' = TRUE
  BY DEF Lose, kept, history
<1>2. GpuTypeOK'
  BY <1>1 DEF GpuInductive, GpuTypeOK
<1> QED
  BY <1>1, <1>2 DEF GpuInductive, Accounted, MakingIsNotKept, CreatedAreCounted,
     NothingBrokenIsKept, PipelineIsOfItsSource, OwnErrorsStayOwn, Object

\* The slot's error is at least as severe as the one it is given, and as the
\* one it held.
LEMMA MostSevereIsKept ==
    ASSUME NEW new, new.kind \in ErrorKinds, stray # None => stray.kind \in ErrorKinds
    PROVE  LET now == KeepMostSevere(new)
           IN  /\ severity[now.kind] >= severity[new.kind]
               /\ stray # None => severity[now.kind] >= severity[stray.kind]
<1>1. \A k \in ErrorKinds : severity[k] \in Nat
  BY SeverityOrder DEF ErrorKinds
<1>2. CASE stray = None \/ severity[new.kind] > severity[stray.kind]
  BY <1>1, <1>2 DEF KeepMostSevere
<1>3. CASE ~(stray = None \/ severity[new.kind] > severity[stray.kind])
  BY <1>1, <1>3 DEF KeepMostSevere
<1> QED
  BY <1>2, <1>3

LEMMA RaiseStrayStep ==
    ASSUME GpuInductive, NEW kind \in ErrorKinds, RaiseStray(kind)
    PROVE  GpuInductive'
<1> DEFINE new == [kind |-> kind, from |-> None]
<1>1. /\ phase \in {"idle", "run"} /\ stray' = KeepMostSevere(new)
      /\ owed' = owed \cup {kind}
      /\ UNCHANGED <<lost, captured, cache, pool, call, phase, answer, broken, created>>
  BY DEF RaiseStray, kept
<1>2. new \in Strays /\ new # None /\ new.kind = kind /\ new.from = None
  BY RecordsAreNotNone
<1>3. stray \in Strays \cup {None} /\ owed \in SUBSET ErrorKinds /\ captured = {}
  BY <1>1 DEF GpuInductive, GpuTypeOK, Accounted
<1>4. stray' \in Strays /\ stray' # None
      /\ (stray' = new \/ (stray # None /\ stray' = stray))
  BY <1>1, <1>2, <1>3 DEF KeepMostSevere
<1>5. GpuTypeOK'
  BY <1>1, <1>3, <1>4 DEF GpuInductive, GpuTypeOK
<1>6. Accounted'
  <2>1. stray # None => stray.kind \in ErrorKinds /\ stray.kind \in owed
    BY <1>3 DEF Strays, GpuInductive, Accounted
  <2>2. /\ severity[stray'.kind] >= severity[kind]
        /\ stray # None => severity[stray'.kind] >= severity[stray.kind]
    BY <1>1, <2>1, MostSevereIsKept
  <2>3. stray'.kind \in owed'
    BY <1>1, <1>2, <1>4, <2>1
  <2>4. ASSUME NEW k \in owed' \ captured'
        PROVE  severity[stray'.kind] >= severity[k]
    <3>1. CASE k = kind
      BY <2>2, <3>1
    <3>2. CASE k \in owed
      <4>1. stray # None /\ severity[stray.kind] >= severity[k]
        BY <1>3, <3>2 DEF GpuInductive, Accounted
      <4>2. severity[stray.kind] \in Nat /\ severity[k] \in Nat /\ severity[stray'.kind] \in Nat
        BY <1>3, <1>4, <2>1, <3>2, <4>1, SeverityOrder DEF ErrorKinds, Strays
      <4> QED
        BY <2>2, <4>1, <4>2
    <3> QED
      BY <1>1, <3>1, <3>2
  <2>5. captured' \subseteq owed' /\ captured' = {}
    BY <1>1, <1>3
  <2> QED
    BY <1>4, <2>3, <2>4, <2>5 DEF Accounted
<1>7. OwnErrorsStayOwn'
  BY <1>2, <1>4 DEF GpuInductive, OwnErrorsStayOwn
<1> QED
  BY <1>1, <1>5, <1>6, <1>7 DEF GpuInductive, MakingIsNotKept, CreatedAreCounted,
     NothingBrokenIsKept, PipelineIsOfItsSource, Object

-----------------------------------------------------------------------------
(***************************************************************************)
(* Calls begin.                                                            *)
(***************************************************************************)
LEMMA PoolType ==
    ASSUME GpuTypeOK
    PROVE  /\ pool.next \in 0..MaxTextures /\ MaxTextures \in Nat
           /\ pool.free \subseteq Textures /\ pool.handed \subseteq Textures
           /\ pool = [next |-> pool.next, free |-> pool.free, handed |-> pool.handed]
  BY GpuErrorsAssumption DEF GpuTypeOK

LEMMA CallType ==
    ASSUME GpuTypeOK
    PROVE  /\ call.op \in Operations /\ call.key \in Keys /\ call.source \in Sources
           /\ call.step \in 1..4
  BY DEF GpuTypeOK, Calls

LEMMA NewCall ==
    ASSUME NEW o \in Operations, NEW key \in Keys, NEW source \in Sources, Begin(o, key, source)
    PROVE  /\ phase = "idle"
           /\ call' \in Calls /\ call'.op = o /\ call'.key = key /\ call'.source = source
           /\ call'.step = 1 /\ call'.step <= Len(Steps[call'.op])
<1>1. 1 <= Len(Steps[o])
  BY StepsOfCalls
<1> QED
  BY <1>1 DEF Begin, Calls

LEMMA GetOrCreateStep ==
    ASSUME GpuInductive, NEW key \in Keys, NEW source \in Sources, GetOrCreate(key, source)
    PROVE  GpuInductive'
<1>1. /\ phase = "idle"
      /\ call' \in Calls /\ call'.op = "compile" /\ call'.key = key /\ call'.source = source
      /\ call'.step <= Len(Steps[call'.op])
  BY NewCall, StepsOfCalls DEF GetOrCreate
<1>2. UNCHANGED <<lost, stray, captured, cache, pool, owed, broken, created>>
  BY DEF GetOrCreate, context, kept, history
<1>3. \/ cache[key] = None /\ phase' = "run" /\ answer' = answer
      \/ /\ cache[key] # None /\ phase' = "idle"
         /\ answer' \in Answers
         /\ answer'.result = "ok" => answer'.source = source
  <2>1. CASE cache[key] = None
    BY <2>1 DEF GetOrCreate
  <2>2. CASE cache[key] # None
    <3>1. phase' = "idle" /\ CacheHit(key, source)
      BY <1>1, <2>2 DEF GetOrCreate
    <3>2. cache[key] \in Sources
      BY <2>2 DEF GpuInductive, GpuTypeOK
    <3> QED
      BY <2>2, <3>1, <3>2, RecordsAreNotNone DEF CacheHit, Answer, Results, ErrorKinds
  <2> QED
    BY <2>1, <2>2
<1>4. GpuTypeOK'
  BY <1>1, <1>2, <1>3 DEF GpuInductive, GpuTypeOK
<1>5. Accounted' /\ CreatedAreCounted' /\ OwnErrorsStayOwn' /\ NothingBrokenIsKept'
  BY <1>1, <1>2, <1>3, PoolType
     DEF GpuInductive, Accounted, CreatedAreCounted, OwnErrorsStayOwn, NothingBrokenIsKept
<1>6. MakingIsNotKept'
  BY <1>1, <1>2, <1>3 DEF GpuInductive, MakingIsNotKept
<1>7. PipelineIsOfItsSource'
  BY <1>1, <1>3 DEF PipelineIsOfItsSource
<1> QED
  BY <1>4, <1>5, <1>6, <1>7 DEF GpuInductive

LEMMA UseStep ==
    ASSUME GpuInductive, NEW o \in Operations, Use(o)
    PROVE  GpuInductive'
<1>1. /\ phase = "idle" /\ phase' = "run"
      /\ call' \in Calls /\ call'.op = o /\ call'.step <= Len(Steps[call'.op])
      /\ o \in {"submit", "read_back"}
  BY CallType, NewCall DEF Use, GpuInductive
<1>2. UNCHANGED <<lost, stray, captured, cache, pool, answer, owed, broken, created>>
  BY DEF Use, context, kept, history
<1>3. GpuTypeOK'
  BY <1>1, <1>2 DEF GpuInductive, GpuTypeOK
<1> QED
  BY <1>1, <1>2, <1>3 DEF GpuInductive, Accounted, CreatedAreCounted, OwnErrorsStayOwn,
     NothingBrokenIsKept, MakingIsNotKept, PipelineIsOfItsSource

LEMMA ReuseStep ==
    ASSUME GpuInductive, NEW t \in Textures, Reuse(t)
    PROVE  GpuInductive'
<1>1. /\ phase = "idle" /\ phase' = "idle"
      /\ call' \in Calls /\ call'.op = "acquire" /\ call'.step <= Len(Steps[call'.op])
  BY CallType, NewCall, StepsOfCalls DEF Reuse, GpuInductive
<1>2. /\ UNCHANGED <<lost, stray, captured, cache, owed, broken, created>>
      /\ answer' \in Answers /\ t \in pool.free
      /\ pool' = [pool EXCEPT !.free = @ \ {t}, !.handed = @ \cup {t}]
  BY RecordsAreNotNone DEF Reuse, context, history, Answer, Results
<1>3. /\ pool'.next = pool.next /\ pool'.free = pool.free \ {t}
      /\ pool'.handed = pool.handed \cup {t}
      /\ pool' \in [next : 0..MaxTextures, free : SUBSET Textures, handed : SUBSET Textures]
  BY <1>2, PoolType DEF GpuInductive
<1>4. pool'.free \cap pool'.handed = {} /\ pool'.free \cup pool'.handed = pool.free \cup pool.handed
  BY <1>2, <1>3 DEF GpuInductive, GpuTypeOK
<1>5. GpuTypeOK'
  BY <1>1, <1>2, <1>3, <1>4 DEF GpuInductive, GpuTypeOK
<1> QED
  BY <1>1, <1>2, <1>3, <1>4, <1>5 DEF GpuInductive, Accounted, CreatedAreCounted,
     OwnErrorsStayOwn, NothingBrokenIsKept, MakingIsNotKept, PipelineIsOfItsSource

LEMMA AllocateStep ==
    ASSUME GpuInductive, Allocate
    PROVE  GpuInductive'
<1>1. /\ phase = "idle" /\ phase' = "run"
      /\ call' \in Calls /\ call'.op = "acquire" /\ call'.step <= Len(Steps[call'.op])
  BY CallType, NewCall, StepsOfCalls DEF Allocate, GpuInductive
<1>2. /\ UNCHANGED <<lost, stray, captured, cache, answer, owed, broken, created>>
      /\ pool.free = {} /\ pool.next < MaxTextures
      /\ pool' = [pool EXCEPT !.next = @ + 1]
  BY DEF Allocate, context, history
<1>3. /\ pool'.next = pool.next + 1 /\ pool'.free = {} /\ pool'.handed = pool.handed
      /\ pool' \in [next : 0..MaxTextures, free : SUBSET Textures, handed : SUBSET Textures]
  BY <1>2, PoolType DEF GpuInductive
<1>4. GpuTypeOK'
  BY <1>1, <1>2, <1>3 DEF GpuInductive, GpuTypeOK
<1>5. MakingIsNotKept'
  <2>1. pool.handed \subseteq 0..(pool.next - 1) /\ pool.next \in Nat
    BY PoolType DEF GpuInductive, MakingIsNotKept
  <2>2. pool'.next > 0 /\ pool'.next - 1 \notin pool'.handed /\ pool'.handed \subseteq 0..(pool'.next - 1)
    BY <1>3, <2>1
  <2> QED
    BY <1>1, <1>3, <2>2 DEF MakingIsNotKept
<1>6. CreatedAreCounted'
  <2>1. created <= pool.next /\ pool.next \in Nat /\ created \in Nat
    BY <1>1, PoolType DEF GpuInductive, CreatedAreCounted, GpuTypeOK
  <2> QED
    BY <1>1, <1>2, <1>3, <2>1 DEF CreatedAreCounted
<1> QED
  BY <1>1, <1>2, <1>3, <1>4, <1>5, <1>6 DEF GpuInductive, Accounted,
     OwnErrorsStayOwn, NothingBrokenIsKept, PipelineIsOfItsSource

LEMMA ReleaseStep ==
    ASSUME GpuInductive, (\E t \in Textures : Release(t)) \/ Clear
    PROVE  GpuInductive'
<1>1. /\ phase = "idle"
      /\ UNCHANGED <<lost, stray, captured, cache, call, phase, answer, owed, broken, created>>
  BY DEF Release, Clear, context, history
<1>2. /\ pool'.next = pool.next
      /\ pool'.free \cup pool'.handed \subseteq pool.free \cup pool.handed
      /\ pool'.free \cap pool'.handed = {}
      /\ pool' \in [next : 0..MaxTextures, free : SUBSET Textures, handed : SUBSET Textures]
  <2>1. CASE Clear
    <3>1. pool' = [pool EXCEPT !.free = {}]
      BY <2>1 DEF Clear
    <3> QED
      BY <3>1, PoolType DEF GpuInductive
  <2>2. ASSUME NEW t \in Textures, Release(t)
        PROVE  /\ pool'.next = pool.next
               /\ pool'.free \cup pool'.handed \subseteq pool.free \cup pool.handed
               /\ pool'.free \cap pool'.handed = {}
               /\ pool' \in [next : 0..MaxTextures, free : SUBSET Textures, handed : SUBSET Textures]
    <3>1. t \in pool.handed /\ pool' = [pool EXCEPT !.free = @ \cup {t}, !.handed = @ \ {t}]
      BY <2>2 DEF Release
    <3>2. /\ pool'.next = pool.next /\ pool'.free = pool.free \cup {t}
          /\ pool'.handed = pool.handed \ {t}
      BY <3>1, PoolType DEF GpuInductive
    <3>3. pool' \in [next : 0..MaxTextures, free : SUBSET Textures, handed : SUBSET Textures]
      BY <3>1, PoolType DEF GpuInductive
    <3> QED
      BY <3>1, <3>2, <3>3 DEF GpuInductive, GpuTypeOK
  <2> QED
    BY <2>1, <2>2
<1>3. GpuTypeOK'
  BY <1>1, <1>2 DEF GpuInductive, GpuTypeOK
<1> QED
  BY <1>1, <1>2, <1>3 DEF GpuInductive, Accounted, CreatedAreCounted,
     OwnErrorsStayOwn, NothingBrokenIsKept, MakingIsNotKept, PipelineIsOfItsSource, Object

-----------------------------------------------------------------------------
(***************************************************************************)
(* The steps of a call.                                                    *)
(***************************************************************************)
LEMMA StepOfCall ==
    ASSUME GpuTypeOK, MakingIsNotKept
    PROVE  /\ Step \in {"create", "submit", "stage", "map", "wait", "unmap"}
           /\ Step = "wait" => call.op = "read_back" /\ call.step = 3
           /\ call.op \in {"compile", "acquire"} => call.step = Len(Steps[call.op])
           /\ Len(Steps[call.op]) \in 1..4
<1>1. call.op \in Operations /\ call.step \in 1..4 /\ call.step <= Len(Steps[call.op])
  BY CallType DEF MakingIsNotKept
<1>2. CASE call.op = "read_back"
  BY <1>1, <1>2, StepsOfCalls DEF Step
<1>3. CASE call.op \in {"compile", "acquire", "submit"}
  <2>1. Len(Steps[call.op]) = 1
    BY <1>3, StepsOfCalls
  <2>2. call.step = 1
    BY <1>1, <2>1
  <2> QED
    BY <1>3, <2>1, <2>2, StepsOfCalls DEF Step
<1> QED
  BY <1>1, <1>2, <1>3, StepsOfCalls

\* What a call is making is a key without a pipeline or a texture that is
\* nowhere yet.
LEMMA ObjectIsNew ==
    ASSUME GpuTypeOK, MakingIsNotKept, phase # "idle"
    PROVE  /\ Object \subseteq Keys \cup Textures
           /\ \A k \in Keys : k \in Object => cache[k] = None
           /\ Object \cap (pool.free \cup pool.handed) = {}
<1>1. CASE call.op = "compile"
  <2>1. Object = {call.key} /\ cache[call.key] = None /\ call.key \in Keys
    BY <1>1, CallType DEF Object, MakingIsNotKept
  <2>2. call.key \notin Textures
    BY <2>1, GpuErrorsAssumption
  <2> QED
    BY <2>1, <2>2, PoolType
<1>2. CASE call.op = "acquire"
  <2>1. /\ Object = {pool.next - 1} /\ pool.next > 0
        /\ pool.next - 1 \notin pool.free \cup pool.handed
    BY <1>2 DEF Object, MakingIsNotKept
  <2>2. pool.next - 1 \in Textures
    BY <2>1, PoolType DEF Textures
  <2>3. pool.next - 1 \notin Keys
    BY <2>2, GpuErrorsAssumption
  <2> QED
    BY <2>1, <2>2, <2>3
<1>3. CASE call.op \notin {"compile", "acquire"}
  BY <1>3 DEF Object
<1> QED
  BY <1>1, <1>2, <1>3

LEMMA RunScopedStep ==
    ASSUME GpuInductive, RunScoped
    PROVE  GpuInductive'
<1>1. phase = "run" /\ Step # "wait" /\ UNCHANGED <<lost, cache, pool, answer>>
  BY DEF RunScoped, kept
<1>2. Scoped
  BY <1>1, StepOfCall DEF GpuInductive, Scoped
<1>3. PICK errors \in SUBSET ErrorKinds :
         /\ owed' = owed \cup errors /\ Makes(errors)
         /\ captured' = errors /\ phase' = "resolve" /\ UNCHANGED <<stray, call>>
  BY <1>2 DEF RunScoped
<1>4. /\ Object \subseteq Keys \cup Textures
      /\ \A k \in Keys : k \in Object => cache[k] = None
      /\ Object \cap (pool.free \cup pool.handed) = {}
  BY <1>1, ObjectIsNew DEF GpuInductive
<1>5. /\ broken' = IF errors = {} THEN broken \ Object ELSE broken \cup Object
      /\ created' = IF call.op = "acquire" /\ errors = {} THEN created + 1 ELSE created
  BY <1>3 DEF Makes, GpuInductive, GpuTypeOK
<1>6. Object' = Object
  BY <1>1, <1>3 DEF Object
<1>7. created' \in 0..MaxTextures /\ CreatedAreCounted'
  <2>1. /\ created <= (IF call.op = "acquire" THEN pool.next - 1 ELSE pool.next)
        /\ created \in Nat /\ pool.next \in Nat /\ MaxTextures \in Nat /\ pool.next <= MaxTextures
    BY <1>1, PoolType DEF GpuInductive, GpuTypeOK, CreatedAreCounted
  <2>2. created' \in Nat /\ created' <= pool.next
    BY <1>5, <2>1
  <2> QED
    BY <1>1, <1>3, <2>1, <2>2 DEF CreatedAreCounted
<1>8. GpuTypeOK'
  <2>1. owed' \in SUBSET ErrorKinds /\ broken' \in SUBSET (Keys \cup Textures)
    BY <1>3, <1>4, <1>5 DEF GpuInductive, GpuTypeOK
  <2> QED
    BY <1>1, <1>3, <1>5, <1>7, <2>1 DEF GpuInductive, GpuTypeOK
<1>9. Accounted'
  BY <1>1, <1>3 DEF GpuInductive, Accounted
<1>10. MakingIsNotKept'
  BY <1>1, <1>3, <1>5, <1>6 DEF GpuInductive, MakingIsNotKept
<1>11. NothingBrokenIsKept'
  BY <1>1, <1>4, <1>5 DEF GpuInductive, NothingBrokenIsKept
<1>12. PipelineIsOfItsSource' /\ OwnErrorsStayOwn'
  BY <1>3 DEF GpuInductive, PipelineIsOfItsSource, OwnErrorsStayOwn
<1> QED
  BY <1>7, <1>8, <1>9, <1>10, <1>11, <1>12 DEF GpuInductive

\* A report of success means that nothing was caught and nothing is held;
\* any other names an error that was, or the loss.
LEMMA ReportMeans ==
    ASSUME GpuTypeOK
    PROVE  /\ ResolveErrors \in Results
           /\ ResolveErrors = "ok" => ~lost /\ captured = {} /\ stray = None
           /\ ResolveErrors \in {"ok", "device_lost"} \/ ResolveErrors \in captured
              \/ (stray # None /\ ResolveErrors = stray.kind)
           /\ ResolveErrors = "device_lost" => lost
           /\ "out_of_memory" \in captured \/ (stray # None /\ stray.kind = "out_of_memory") =>
                  ResolveErrors \in {"out_of_memory", "device_lost"}
<1>1. captured \subseteq {"validation", "internal", "out_of_memory"}
  BY DEF GpuTypeOK, ErrorKinds
<1>2. stray # None => stray.kind \in {"validation", "internal", "out_of_memory"}
  BY DEF GpuTypeOK, Strays, ErrorKinds
<1>3. None \notin {"validation", "internal", "out_of_memory"}
  BY GpuErrorsAssumption DEF ErrorKinds
<1>4. captured # {} => InScope \in captured
  <2>1. captured # {} => \E k \in captured : \A j \in captured : severity[k] >= severity[j]
    <3>1. CASE "out_of_memory" \in captured
      <4>1. \A j \in captured : severity["out_of_memory"] >= severity[j]
        BY <1>1, SeverityOrder
      <4> QED
        BY <3>1, <4>1
    <3>2. CASE "out_of_memory" \notin captured /\ "internal" \in captured
      <4>1. \A j \in captured : severity["internal"] >= severity[j]
        BY <1>1, <3>2, SeverityOrder
      <4> QED
        BY <3>2, <4>1
    <3>3. CASE captured \subseteq {"validation"}
      <4>1. \A j \in captured : severity["validation"] >= severity[j]
        BY <3>3, SeverityOrder
      <4> QED
        BY <3>3, <4>1
    <3> QED
      BY <1>1, <3>1, <3>2, <3>3
  <2> QED
    BY <2>1 DEF InScope
<1>5. InScope = None <=> captured = {}
  BY <1>1, <1>3, <1>4 DEF InScope
<1>6. CASE lost
  BY <1>6 DEF ResolveErrors, Results
<1>7. CASE ~lost /\ OutOfMemory
  BY <1>7 DEF ResolveErrors, OutOfMemory, Results, ErrorKinds
<1>8. CASE ~lost /\ ~OutOfMemory /\ captured # {}
  <2>1. InScope \in captured /\ InScope # None
    BY <1>4, <1>5, <1>8
  <2>2. ResolveErrors = InScope
    BY <1>8, <2>1 DEF ResolveErrors
  <2> QED
    BY <1>1, <1>8, <2>1, <2>2 DEF OutOfMemory, Results, ErrorKinds
<1>9. CASE ~lost /\ ~OutOfMemory /\ captured = {}
  <2>1. InScope = None
    BY <1>5, <1>9
  <2>2. CASE stray = None
    BY <1>9, <2>1, <2>2 DEF ResolveErrors, OutOfMemory, Results
  <2>3. CASE stray # None
    <3>1. ResolveErrors = stray.kind
      BY <1>9, <2>1, <2>3 DEF ResolveErrors
    <3> QED
      BY <1>2, <1>9, <2>3, <3>1 DEF OutOfMemory, Results, ErrorKinds
  <2> QED
    BY <2>2, <2>3
<1> QED
  BY <1>6, <1>7, <1>8, <1>9

LEMMA ResolveStep ==
    ASSUME GpuInductive, Resolve
    PROVE  GpuInductive'
<1>1. /\ phase = "resolve" /\ captured' = {} /\ owed' = {} /\ stray' = None
      /\ UNCHANGED <<lost, broken, created>>
  BY DEF Resolve, TakeStray
<1>2. Accounted' /\ OwnErrorsStayOwn'
  BY <1>1 DEF Accounted, OwnErrorsStayOwn
<1>3. created <= pool.next /\ created \in 0..MaxTextures
  BY <1>1 DEF GpuInductive, CreatedAreCounted, GpuTypeOK
<1>4. CASE ResolveErrors # "ok"
  <2>1. /\ phase' = "idle" /\ UNCHANGED <<cache, pool, call>>
        /\ answer' = [result |-> ResolveErrors, source |-> None]
    BY <1>4 DEF Resolve, Fail, Answer, kept
  <2>2. answer' \in Answers /\ answer'.result # "ok"
    BY <1>4, <2>1, ReportMeans, RecordsAreNotNone DEF GpuInductive
  <2>3. GpuTypeOK'
    BY <1>1, <2>1, <2>2 DEF GpuInductive, GpuTypeOK
  <2> QED
    BY <1>1, <1>2, <1>3, <2>1, <2>2, <2>3 DEF GpuInductive, MakingIsNotKept, CreatedAreCounted,
       NothingBrokenIsKept, PipelineIsOfItsSource
<1>5. CASE ResolveErrors = "ok" /\ call.step = Len(Steps[call.op])
  <2>1. Finish /\ call' = call
    BY <1>5 DEF Resolve
  <2>2. captured = {} /\ Object \cap broken = {}
    BY <1>1, <1>5, ReportMeans DEF GpuInductive, MakingIsNotKept
  <2>3. /\ phase' = "idle" /\ answer' \in Answers
        /\ call.op = "compile" => answer'.source = call.source
    <3>1. call.source \in Sources
      BY CallType DEF GpuInductive
    <3> QED
      BY <2>1, <3>1, RecordsAreNotNone DEF Finish, Answer, Results
  <2>4. /\ cache' \in [Keys -> Sources \cup {None}]
        /\ \A k \in Keys : cache'[k] # None => cache[k] # None \/ k \in Object
    <3>1. cache \in [Keys -> Sources \cup {None}] /\ call.source \in Sources /\ call.key \in Keys
      BY CallType DEF GpuInductive, GpuTypeOK
    <3> QED
      BY <2>1, <3>1 DEF Finish, Object
  <2>5. /\ pool' \in [next : 0..MaxTextures, free : SUBSET Textures, handed : SUBSET Textures]
        /\ pool'.next = pool.next /\ pool'.free = pool.free
        /\ pool'.free \cap pool'.handed = {}
        /\ pool'.handed = pool.handed \/ (pool'.handed = pool.handed \cup Object
                                          /\ Object = {pool.next - 1} /\ pool.next > 0)
    <3>1. CASE call.op = "acquire"
      <4>1. pool' = [pool EXCEPT !.handed = @ \cup {pool.next - 1}]
        BY <2>1, <3>1 DEF Finish
      <4>2. /\ pool.next > 0 /\ pool.next - 1 \notin pool.free \cup pool.handed
            /\ Object = {pool.next - 1}
        BY <1>1, <3>1 DEF GpuInductive, MakingIsNotKept, Object
      <4>3. pool.next - 1 \in Textures
        BY <4>2, PoolType DEF GpuInductive, Textures
      <4>4. pool.free \cap pool.handed = {}
        BY DEF GpuInductive, GpuTypeOK
      <4>5. /\ pool'.next = pool.next /\ pool'.free = pool.free
            /\ pool'.handed = pool.handed \cup {pool.next - 1}
        BY <4>1, PoolType DEF GpuInductive
      <4>6. pool' \in [next : 0..MaxTextures, free : SUBSET Textures, handed : SUBSET Textures]
        BY <4>1, <4>3, PoolType DEF GpuInductive
      <4> QED
        BY <4>2, <4>4, <4>5, <4>6
    <3>2. CASE call.op # "acquire"
      BY <2>1, <3>2 DEF Finish, GpuInductive, GpuTypeOK
    <3> QED
      BY <3>1, <3>2
  <2>6. GpuTypeOK'
    BY <1>1, <2>1, <2>3, <2>4, <2>5 DEF GpuInductive, GpuTypeOK
  <2>7. pool'.free \cup pool'.handed \subseteq 0..(pool'.next - 1)
    BY <2>5, PoolType DEF GpuInductive, MakingIsNotKept
  <2>8. MakingIsNotKept' /\ CreatedAreCounted'
    BY <1>1, <1>3, <2>1, <2>3, <2>5, <2>7 DEF GpuInductive, MakingIsNotKept, CreatedAreCounted
  <2>9. NothingBrokenIsKept'
    BY <1>1, <2>2, <2>4, <2>5 DEF GpuInductive, NothingBrokenIsKept
  <2>10. PipelineIsOfItsSource'
    BY <2>1, <2>3 DEF PipelineIsOfItsSource
  <2> QED
    BY <1>2, <2>6, <2>8, <2>9, <2>10 DEF GpuInductive
<1>6. CASE ResolveErrors = "ok" /\ call.step # Len(Steps[call.op])
  <2>1. /\ phase' = "run" /\ call' = [call EXCEPT !.step = @ + 1]
        /\ UNCHANGED <<answer, cache, pool>>
    BY <1>6 DEF Resolve, kept
  <2>2. /\ call.step + 1 \in 1..4 /\ call.step + 1 <= Len(Steps[call.op])
        /\ call.op \notin {"compile", "acquire"}
    <3>1. /\ call.op \in {"compile", "acquire"} => call.step = Len(Steps[call.op])
          /\ Len(Steps[call.op]) \in 1..4
      BY StepOfCall DEF GpuInductive
    <3>2. call.step \in 1..4 /\ call.step <= Len(Steps[call.op])
      BY CallType DEF GpuInductive, MakingIsNotKept
    <3>3. \A i, n \in 1..4 : i <= n /\ i # n => i + 1 \in 1..4 /\ i + 1 <= n
      OBVIOUS
    <3>4. call.step + 1 \in 1..4 /\ call.step + 1 <= Len(Steps[call.op])
      BY <1>6, <3>1, <3>2, <3>3
    <3> QED
      BY <1>6, <3>1, <3>4
  <2>3. call' \in Calls /\ call'.op = call.op /\ call'.step = call.step + 1
    BY <2>1, <2>2 DEF GpuInductive, GpuTypeOK, Calls
  <2>4. GpuTypeOK'
    BY <1>1, <2>1, <2>3 DEF GpuInductive, GpuTypeOK
  <2>5. MakingIsNotKept' /\ CreatedAreCounted'
    BY <1>1, <1>3, <2>1, <2>2, <2>3 DEF GpuInductive, MakingIsNotKept, CreatedAreCounted
  <2> QED
    BY <1>1, <1>2, <2>1, <2>4, <2>5 DEF GpuInductive, NothingBrokenIsKept, PipelineIsOfItsSource
<1> QED
  BY <1>4, <1>5, <1>6

LEMMA WaitStep ==
    ASSUME GpuInductive, Wait
    PROVE  GpuInductive'
<1>1. /\ phase = "run" /\ call.op = "read_back" /\ call.step = 3
      /\ UNCHANGED <<lost, stray, captured, cache, pool, owed, broken, created>>
  BY StepOfCall DEF Wait, Fail, GpuInductive, context, history, kept
<1>2. \/ phase' = "idle" /\ call' = call /\ answer' \in Answers /\ answer'.result # "ok"
      \/ phase' = "run" /\ call' = [call EXCEPT !.step = @ + 1] /\ answer' = answer
  BY <1>1, RecordsAreNotNone DEF Wait, Fail, Answer, Results, ErrorKinds
<1>3. call' \in Calls /\ call'.op = "read_back" /\ call'.step <= Len(Steps[call'.op])
  BY <1>1, <1>2, StepsOfCalls DEF GpuInductive, GpuTypeOK, Calls
<1>4. GpuTypeOK'
  BY <1>1, <1>2, <1>3 DEF GpuInductive, GpuTypeOK
<1> QED
  BY <1>1, <1>2, <1>3, <1>4 DEF GpuInductive, Accounted, MakingIsNotKept, CreatedAreCounted,
     NothingBrokenIsKept, PipelineIsOfItsSource, OwnErrorsStayOwn

-----------------------------------------------------------------------------
(***************************************************************************)
(* The theorems.                                                           *)
(***************************************************************************)
LEMMA GpuStepInductive == GpuInductive /\ [GpuNext]_gpuVars => GpuInductive'
<1> SUFFICES ASSUME GpuInductive, [GpuNext]_gpuVars
             PROVE  GpuInductive'
  OBVIOUS
<1>1. CASE GpuNext
  BY <1>1, LoseStep, RaiseStrayStep, GetOrCreateStep, ReuseStep, ReleaseStep, AllocateStep,
     UseStep, RunScopedStep, ResolveStep, WaitStep DEF GpuNext
<1>2. CASE UNCHANGED gpuVars
  BY <1>2 DEF gpuVars, context, kept, history, GpuInductive, GpuTypeOK, Accounted, MakingIsNotKept,
     CreatedAreCounted, NothingBrokenIsKept, PipelineIsOfItsSource, OwnErrorsStayOwn, Object
<1> QED
  BY <1>1, <1>2

LEMMA GpuAlwaysInductive == GpuSpec => []GpuInductive
  BY GpuInitInductive, GpuStepInductive, PTL DEF GpuSpec

\* The variables of the error handling keep their types.
THEOREM GpuErrorsTypeCorrect == GpuSpec => []GpuTypeOK
<1>1. GpuInductive => GpuTypeOK
  BY DEF GpuInductive
<1> QED
  BY <1>1, GpuAlwaysInductive, PTL

\* However errors and calls interleave, no pipeline made while an error was
\* raised is cached, and no such texture reaches the pool or a caller.
THEOREM BrokenIsNeverKept == GpuSpec => []NothingBrokenIsKept
<1>1. GpuInductive => NothingBrokenIsKept
  BY DEF GpuInductive
<1> QED
  BY <1>1, GpuAlwaysInductive, PTL

\* get_or_create never answers with the pipeline of another source.
THEOREM PipelinesMatchSources == GpuSpec => []PipelineIsOfItsSource
<1>1. GpuInductive => PipelineIsOfItsSource
  BY DEF GpuInductive
<1> QED
  BY <1>1, GpuAlwaysInductive, PTL

\* No error that a call raises is left to be reported by another.
THEOREM ErrorsStayWithTheirCall == GpuSpec => []OwnErrorsStayOwn
<1>1. GpuInductive => OwnErrorsStayOwn
  BY DEF GpuInductive
<1> QED
  BY <1>1, GpuAlwaysInductive, PTL

\* A report accounts for all that was raised since the last one, and is out
\* of memory or loss when memory ran out.
THEOREM NoErrorIsHidden == GpuSpec => NothingIsHidden
<1> DEFINE Claim ==
       phase = "resolve" /\ owed # {} =>
          /\ ResolveErrors # "ok"
          /\ "out_of_memory" \in owed => ResolveErrors \in {"out_of_memory", "device_lost"}
<1>1. GpuInductive => Claim
  <2> SUFFICES ASSUME GpuInductive, owed # {}
               PROVE  /\ ResolveErrors # "ok"
                      /\ "out_of_memory" \in owed =>
                             ResolveErrors \in {"out_of_memory", "device_lost"}
    OBVIOUS
  <2>1. captured # {} \/ stray # None
    BY DEF GpuInductive, Accounted
  <2>2. ResolveErrors # "ok"
    BY <2>1, ReportMeans DEF GpuInductive
  <2>3. ASSUME "out_of_memory" \in owed, "out_of_memory" \notin captured
        PROVE  stray # None /\ stray.kind = "out_of_memory"
    <3>1. stray # None /\ severity[stray.kind] >= severity["out_of_memory"]
      BY <2>3 DEF GpuInductive, Accounted
    <3>2. stray.kind \in ErrorKinds
      BY <3>1 DEF GpuInductive, GpuTypeOK, Strays
    <3> QED
      BY <3>1, <3>2, SeverityOrder DEF ErrorKinds
  <2> QED
    BY <2>2, <2>3, ReportMeans DEF GpuInductive
<1> QED
  BY <1>1, GpuAlwaysInductive, PTL DEF NothingIsHidden

\* A call fails for a lost device or for an error raised since the last
\* report: none is reported twice.
THEOREM ErrorsAreReportedOnce == GpuSpec => ReportedOnce
<1> DEFINE Claim ==
       phase = "resolve" /\ ResolveErrors # "ok" => lost \/ ResolveErrors \in owed
<1>1. GpuInductive => Claim
  BY ReportMeans DEF GpuInductive, Accounted
<1> QED
  BY <1>1, GpuAlwaysInductive, PTL DEF ReportedOnce

\* What the cache and the pool keep is sound, whenever errors are raised.
THEOREM KeptThingsAlwaysSound == GpuSpec => []KeptThingsAreSound
  BY GpuErrorsTypeCorrect, BrokenIsNeverKept, PipelinesMatchSources, PTL
     DEF KeptThingsAreSound

\* A call fails for what was raised since the last report, and always then.
THEOREM ReportsAlwaysExact == GpuSpec => ReportsAreExact
  BY NoErrorIsHidden, ErrorsAreReportedOnce DEF ReportsAreExact

-----------------------------------------------------------------------------
(***************************************************************************)
(* The add-on, at the other end of the session, for any resolutions, any   *)
(* number of engines and of frames, and engines that hang as well as       *)
(* engines that die.                                                       *)
(*                                                                         *)
(* The argument: between the steps of a call the handles are never in an   *)
(* arbitrary state.  Where a call stands says which of them are set        *)
(* (HandlesByPlace), so the step that fails next leaves no engine behind.  *)
(* A process that is recorded is always the last one started.  The client's*)
(* own engine numbers its frames upwards, so of two numbers that it wrote  *)
(* the one shown is the smaller (NumbersByAge); nothing is known of a      *)
(* number that another engine wrote.                                       *)
(***************************************************************************)
Starting == {"spawn", "spawned", "hello", "hello_sent", "load", "load_sent", "open_reader"}
NewEngine == {"spawned", "hello", "hello_sent", "load", "load_sent"}
Frameless == {"rendering", "rendering_sent"}
Framed == {"reading", "reopening", "pushing"}

\* Where a call stands says which of the handles are set.
HandlesByPlace ==
    /\ place \in Starting => op = "start"
    /\ place \in {"spawn", "spawned"} => process = PyNone
    /\ place \in {"hello", "hello_sent"} => process # PyNone
    /\ place \in {"reap", "spawn", "spawned", "hello", "hello_sent"} => client = PyNone
    /\ place \in {"goodbye", "goodbye_sent", "load", "load_sent", "open_reader"} =>
           client # PyNone /\ reader = PyNone
    /\ place \in Frameless \cup Framed => client # PyNone /\ reader # PyNone
    /\ place \in Frameless => own.seq < MaxPublished

\* The recorded process is the last one started.
LastStarted == process # PyNone => process = started

\* The numbers in the file, in read_latest's result and in _last_seq were
\* written by no engine younger than the last one started, and by older ones
\* while a start is on its way.  Those the client's engine wrote are its count,
\* or what was its count when they were shown.
NumbersByAge ==
    /\ channel.by <= started
    /\ place \in NewEngine => channel.by < started
    /\ channel.by = client => channel.seq = own.seq
    /\ place = "pushing" =>
          /\ read_seq.by <= started
          /\ read_seq.by = client => read_seq.seq = own.seq
    /\ last_seq # PyNone =>
          /\ last_seq.by <= started
          /\ place \in NewEngine => last_seq.by < started
          /\ last_seq.by = client => last_seq.seq <= own.seq
          /\ last_seq.by = client /\ place \in Framed => last_seq.seq < own.seq

AddOnInductive ==
    /\ AddOnTypeOK /\ NoOrphans /\ HandlesAgree /\ DrawNeverRaises
    /\ HandlesByPlace /\ LastStarted /\ NumbersByAge

-----------------------------------------------------------------------------
(***************************************************************************)
(* The invariant.                                                          *)
(***************************************************************************)
LEMMA AddOnStarts == AddOnInit => AddOnInductive
<1> SUFFICES ASSUME AddOnInit PROVE AddOnInductive
  OBVIOUS
<1>1. AddOnTypeOK
  <2>1. PICK d \in Resolutions :
          /\ channel = [dims |-> d, by |-> OtherBlender, seq |-> 0]
          /\ own = [dims |-> d, seq |-> 0]
    BY DEF AddOnInit
  <2>2. /\ channel \in [dims : Resolutions, by : Engines \cup {OtherBlender}, seq : 0..MaxPublished]
        /\ own \in [dims : Resolutions, seq : 0..MaxPublished]
    BY <2>1, AddOnAssumption DEF OtherBlender
  <2>3. enabled \in [handler : BOOLEAN, classes : BOOLEAN] /\ live \in BOOLEAN
    BY DEF AddOnInit
  <2> QED
    BY <2>2, <2>3, AddOnAssumption DEF AddOnInit, AddOnTypeOK, Operators
<1>2. NoOrphans /\ HandlesAgree /\ DrawNeverRaises
  BY DEF AddOnInit, NoOrphans, HandlesAgree, DrawNeverRaises
<1>3. HandlesByPlace /\ LastStarted /\ NumbersByAge
  BY AddOnAssumption DEF AddOnInit, HandlesByPlace, LastStarted, NumbersByAge, Starting, NewEngine,
     Frameless, Framed, OtherBlender
<1> QED
  BY <1>1, <1>2, <1>3 DEF AddOnInductive

\* What the user and Blender do, and what goes on outside.
LEMMA UserCalls ==
    ASSUME AddOnInductive,
           StartEngine \/ Stop \/ RenderFrame \/ OnDraw \/ Disable \/ Enable \/ ToggleLive
             \/ Die \/ Hang \/ Reallocated \/ PublishedByOther
    PROVE  AddOnInductive'
<1> USE AddOnAssumption DEF AddOnInductive, AddOnTypeOK, NoOrphans, HandlesAgree, DrawNeverRaises,
         HandlesByPlace, LastStarted, NumbersByAge,
         Starting, NewEngine, Frameless, Framed, Engines, Operators, Requests,
         Awaiting, Published, OtherBlender, handles, engine, channels, shown
<1>1. CASE StartEngine
  BY <1>1 DEF StartEngine, BeginCall
<1>2. CASE Stop
  BY <1>2 DEF Stop, BeginCall
<1>3. CASE RenderFrame
  BY <1>3 DEF RenderFrame, BeginCall
<1>4. CASE OnDraw
  BY <1>4 DEF OnDraw, BeginCall
<1>5. CASE Disable
  BY <1>5 DEF Disable, BeginCall
<1>6. CASE Enable
  BY <1>6 DEF Enable
<1>7. CASE ToggleLive
  BY <1>7 DEF ToggleLive
<1>8. CASE Die
  BY <1>8 DEF Die
<1>9. CASE Hang
  BY <1>9 DEF Hang
<1>10. CASE Reallocated
  BY <1>10 DEF Reallocated, Create
<1>11. CASE PublishedByOther
  <2>1. /\ channel' \in [dims : Resolutions, by : Engines \cup {OtherBlender}, seq : 0..MaxPublished]
        /\ channel'.by = 0 /\ other' \in 0..MaxPublished
    <3>1. other' \in 0..MaxPublished
      BY <1>11 DEF PublishedByOther
    <3>2. channel' = [channel EXCEPT !.seq = other', !.by = OtherBlender]
      BY <1>11 DEF PublishedByOther
    <3> QED
      BY <3>1, <3>2
  <2>2. UNCHANGED <<handles, engine, own, enabled, live, shown, op, place, outcome>>
    BY <1>11 DEF PublishedByOther
  <2>3. client # 0
    OBVIOUS
  <2> QED
    BY <2>1, <2>2, <2>3
<1> QED
  BY <1>1, <1>2, <1>3, <1>4, <1>5, <1>6, <1>7, <1>8, <1>9, <1>10, <1>11

\* shutdown_engine, as far as each of its steps gets.
LEMMA TearingDown ==
    ASSUME AddOnInductive, CloseReader \/ SayGoodbye \/ GoodbyeAnswered \/ Reap
    PROVE  AddOnInductive'
<1> USE AddOnAssumption DEF AddOnInductive, AddOnTypeOK, NoOrphans, HandlesAgree, DrawNeverRaises,
         HandlesByPlace, LastStarted, NumbersByAge,
         Starting, NewEngine, Frameless, Framed, Engines, Operators, Requests,
         Awaiting, Published, OtherBlender, handles, engine, channels, shown
<1>1. CASE CloseReader
  BY <1>1 DEF CloseReader, Goto
<1>2. CASE SayGoodbye
  <2>1. AddOnTypeOK'
    <3>1. live' \in BOOLEAN /\ outcome' \in {"ok", "cancelled", "raised"}
          /\ place' \in {"goodbye_sent", "idle"}
      BY <1>2 DEF SayGoodbye, SendTo, Goto, EndWith
    <3> QED
      BY <1>2, <3>1 DEF SayGoodbye, SendTo
  <2>2. NoOrphans'
    BY <1>2 DEF SayGoodbye, SendTo, Goto, EndWith
  <2>3. HandlesAgree'
    BY <1>2 DEF SayGoodbye, SendTo, Goto, EndWith
  <2>4. DrawNeverRaises'
    BY <1>2 DEF SayGoodbye, SendTo, Goto, EndWith
  <2>5. HandlesByPlace'
    BY <1>2 DEF SayGoodbye, SendTo, Goto, EndWith
  <2>6. LastStarted'
    BY <1>2 DEF SayGoodbye, SendTo, Goto, EndWith
  <2>7. NumbersByAge'
    BY <1>2 DEF SayGoodbye, SendTo, Goto, EndWith
  <2> QED
    BY <2>1, <2>2, <2>3, <2>4, <2>5, <2>6, <2>7
<1>3. CASE GoodbyeAnswered
  <2>1. AddOnTypeOK'
    <3>1. live' \in BOOLEAN /\ outcome' \in {"ok", "cancelled", "raised"}
          /\ place' \in {"reap", "idle"}
      BY <1>3 DEF GoodbyeAnswered, RoundTrip, Answering, Goto, EndWith
    <3> QED
      BY <1>3, <3>1 DEF GoodbyeAnswered
  <2>2. NoOrphans'
    BY <1>3 DEF GoodbyeAnswered, RoundTrip, Answering, Goto, EndWith
  <2>3. HandlesAgree'
    BY <1>3 DEF GoodbyeAnswered, RoundTrip, Answering, Goto, EndWith
  <2>4. DrawNeverRaises'
    BY <1>3 DEF GoodbyeAnswered, RoundTrip, Answering, Goto, EndWith
  <2>5. HandlesByPlace'
    BY <1>3 DEF GoodbyeAnswered, RoundTrip, Answering, Goto, EndWith
  <2>6. LastStarted'
    BY <1>3 DEF GoodbyeAnswered, RoundTrip, Answering, Goto, EndWith
  <2>7. NumbersByAge'
    BY <1>3 DEF GoodbyeAnswered, RoundTrip, Answering, Goto, EndWith
  <2> QED
    BY <2>1, <2>2, <2>3, <2>4, <2>5, <2>6, <2>7
<1>4. CASE Reap
  <2>1. AddOnTypeOK'
    <3>1. live' \in BOOLEAN /\ outcome' \in {"ok", "cancelled", "raised"}
          /\ place' \in {"spawn", "idle"}
      BY <1>4 DEF Reap, AfterTeardown, Goto, EndWith
    <3>2. enabled' \in [handler : BOOLEAN, classes : BOOLEAN]
      BY <1>4 DEF Reap
    <3> QED
      BY <1>4, <3>1, <3>2 DEF Reap
  <2>2. NoOrphans'
    BY <1>4 DEF Reap, AfterTeardown, Goto, EndWith
  <2>3. HandlesAgree'
    BY <1>4 DEF Reap, AfterTeardown, Goto, EndWith
  <2>4. DrawNeverRaises'
    BY <1>4 DEF Reap, AfterTeardown, Goto, EndWith
  <2>5. HandlesByPlace'
    BY <1>4 DEF Reap, AfterTeardown, Goto, EndWith
  <2>6. LastStarted'
    BY <1>4 DEF Reap, AfterTeardown, Goto, EndWith
  <2>7. NumbersByAge'
    BY <1>4 DEF Reap, AfterTeardown, Goto, EndWith
  <2> QED
    BY <2>1, <2>2, <2>3, <2>4, <2>5, <2>6, <2>7
<1> QED
  BY <1>1, <1>2, <1>3, <1>4

\* start_engine.
LEMMA StartingUp ==
    ASSUME AddOnInductive,
           SpawnFails \/ Spawn \/ Ready \/ NotReady \/ Hello \/ HelloAnswered
             \/ SendLoad \/ LoadAnswered \/ OpenReader
    PROVE  AddOnInductive'
<1> USE AddOnAssumption DEF AddOnInductive, AddOnTypeOK, NoOrphans, HandlesAgree, DrawNeverRaises,
         HandlesByPlace, LastStarted, NumbersByAge,
         Starting, NewEngine, Frameless, Framed, Engines, Operators, Requests,
         Awaiting, Published, OtherBlender, handles, engine, channels, shown
<1>1. CASE SpawnFails
  BY <1>1 DEF SpawnFails, EndWith
<1>2. CASE Spawn
  BY <1>2 DEF Spawn, Goto
<1>3. CASE Ready
  BY <1>3 DEF Ready, Goto
<1>4. CASE NotReady
  BY <1>4 DEF NotReady
<1>5. CASE Hello
  BY <1>5 DEF Hello, Goto
<1>6. CASE HelloAnswered
  BY <1>6 DEF HelloAnswered, RoundTrip, Answering, Goto
<1>7. CASE SendLoad
  BY <1>7 DEF SendLoad, SendTo, Goto, EndWith
<1>8. CASE LoadAnswered
  BY <1>8 DEF LoadAnswered, RoundTrip, Answering, Goto, EndWith, Create
<1>9. CASE OpenReader
  BY <1>9 DEF OpenReader, EndWith
<1> QED
  BY <1>1, <1>2, <1>3, <1>4, <1>5, <1>6, <1>7, <1>8, <1>9

\* Render Frame and the draw handler.
LEMMA ShowingAFrame ==
    ASSUME AddOnInductive, Render \/ RenderAnswered \/ Read \/ Reopen \/ Skip \/ Push
    PROVE  AddOnInductive'
<1> USE AddOnAssumption DEF AddOnInductive, AddOnTypeOK, NoOrphans, HandlesAgree, DrawNeverRaises,
         HandlesByPlace, LastStarted, NumbersByAge,
         Starting, NewEngine, Frameless, Framed, Engines, Operators, Requests,
         Awaiting, Published, OtherBlender, handles, engine, channels, shown
<1>1. CASE Render
  <2>1. AddOnTypeOK'
    <3>1. live' \in BOOLEAN /\ outcome' \in {"ok", "cancelled", "raised"}
          /\ place' \in {"rendering_sent", "idle"}
      BY <1>1 DEF Render, SendTo, Goto, EndWith
    <3> QED
      BY <1>1, <3>1 DEF Render, SendTo
  <2>2. NoOrphans'
    BY <1>1 DEF Render, SendTo, Goto, EndWith
  <2>3. HandlesAgree'
    BY <1>1 DEF Render, SendTo, Goto, EndWith
  <2>4. DrawNeverRaises'
    BY <1>1 DEF Render, SendTo, Goto, EndWith
  <2>5. HandlesByPlace'
    BY <1>1 DEF Render, SendTo, Goto, EndWith
  <2>6. LastStarted'
    BY <1>1 DEF Render, SendTo, Goto, EndWith
  <2>7. NumbersByAge'
    BY <1>1 DEF Render, SendTo, Goto, EndWith
  <2> QED
    BY <2>1, <2>2, <2>3, <2>4, <2>5, <2>6, <2>7
<1>2. CASE RenderAnswered
  <2>1. AddOnTypeOK'
    <3>1. /\ channel' \in [dims : Resolutions, by : Engines \cup {OtherBlender}, seq : 0..MaxPublished]
          /\ own' \in [dims : Resolutions, seq : 0..MaxPublished]
          /\ volume' \in {"latest", "older"}
      <4>1. CASE PublishFrame /\ volume' = "older"
        <5>1. own.seq + 1 \in 0..MaxPublished /\ client \in Engines
          BY <1>2 DEF RenderAnswered
        <5> QED
          BY <4>1, <5>1 DEF PublishFrame
      <4>2. CASE UNCHANGED <<channel, own, volume>>
        BY <4>2
      <4> QED
        BY <1>2, <4>1, <4>2 DEF RenderAnswered
    <3>2. live' \in BOOLEAN /\ outcome' \in {"ok", "cancelled", "raised"}
          /\ place' \in {"reading", "idle", "teardown"}
      BY <1>2 DEF RenderAnswered, Goto, EndWith
    <3> QED
      BY <1>2, <3>1, <3>2 DEF RenderAnswered
  <2>2. NoOrphans'
    BY <1>2 DEF RenderAnswered, RoundTrip, Answering, Goto, EndWith, PublishFrame
  <2>3. HandlesAgree'
    BY <1>2 DEF RenderAnswered, RoundTrip, Answering, Goto, EndWith, PublishFrame
  <2>4. DrawNeverRaises'
    BY <1>2 DEF RenderAnswered, RoundTrip, Answering, Goto, EndWith, PublishFrame
  <2>5. HandlesByPlace'
    BY <1>2 DEF RenderAnswered, RoundTrip, Answering, Goto, EndWith, PublishFrame
  <2>6. LastStarted'
    BY <1>2 DEF RenderAnswered, RoundTrip, Answering, Goto, EndWith, PublishFrame
  <2>7. NumbersByAge'
    <3>1. UNCHANGED <<client, started, read_seq, last_seq>> /\ client # PyNone
          /\ place' \in {"reading", "idle", "teardown"}
      BY <1>2 DEF RenderAnswered, Goto, EndWith
    <3>2. CASE PublishFrame
      <4>1. own'.seq = own.seq + 1 /\ channel'.seq = own'.seq /\ channel'.by = client
        BY <3>2 DEF PublishFrame
      <4>2. client <= started /\ own.seq \in Nat
        OBVIOUS
      <4> QED
        BY <3>1, <4>1, <4>2
    <3>3. CASE UNCHANGED <<channel, own>> /\ place' # "reading"
      BY <3>1, <3>3
    <3> QED
      BY <1>2, <3>2, <3>3 DEF RenderAnswered, Goto, EndWith
  <2> QED
    BY <2>1, <2>2, <2>3, <2>4, <2>5, <2>6, <2>7
<1>3. CASE Read
  <2>1. AddOnTypeOK'
    <3>1. live' \in BOOLEAN /\ outcome' \in {"ok", "cancelled", "raised"}
          /\ place' \in {"reopening", "pushing", "idle"}
      BY <1>3 DEF Read, ReadLatest, Goto, EndWith
    <3> QED
      BY <1>3, <3>1 DEF Read, ReadLatest
  <2>2. NoOrphans'
    BY <1>3 DEF Read, ReadLatest, Goto, EndWith
  <2>3. HandlesAgree'
    BY <1>3 DEF Read, ReadLatest, Goto, EndWith
  <2>4. DrawNeverRaises'
    BY <1>3 DEF Read, ReadLatest, Goto, EndWith
  <2>5. HandlesByPlace'
    BY <1>3 DEF Read, ReadLatest, Goto, EndWith
  <2>6. LastStarted'
    BY <1>3 DEF Read, ReadLatest, Goto, EndWith
  <2>7. NumbersByAge'
    <3>1. /\ place \in Framed /\ place' \in Framed \cup {"idle"}
          /\ UNCHANGED <<client, started, channel, own, last_seq>>
      BY <1>3 DEF Read, Goto, EndWith
    <3>2. place' = "pushing" => ReadLatest
      BY <1>3 DEF Read, Goto, EndWith
    <3>3. ReadLatest => read_seq'.by = channel.by /\ read_seq'.seq = channel.seq
      BY DEF ReadLatest
    <3> QED
      BY <3>1, <3>2, <3>3
  <2> QED
    BY <2>1, <2>2, <2>3, <2>4, <2>5, <2>6, <2>7
<1>4. CASE Reopen
  <2>1. AddOnTypeOK'
    <3>1. live' \in BOOLEAN /\ outcome' \in {"ok", "cancelled", "raised"}
          /\ place' \in {"pushing", "idle"}
      BY <1>4 DEF Reopen, ReadLatest, Goto, EndWith
    <3>2. reader' \in Resolutions \cup {PyNone, "closed"}
      BY <1>4 DEF Reopen, ReadLatest
    <3> QED
      BY <1>4, <3>1, <3>2 DEF Reopen, ReadLatest
  <2>2. NoOrphans'
    BY <1>4 DEF Reopen, ReadLatest, Goto, EndWith
  <2>3. HandlesAgree'
    BY <1>4 DEF Reopen, ReadLatest, Goto, EndWith
  <2>4. DrawNeverRaises'
    BY <1>4 DEF Reopen, ReadLatest, Goto, EndWith
  <2>5. HandlesByPlace'
    BY <1>4 DEF Reopen, ReadLatest, Goto, EndWith
  <2>6. LastStarted'
    BY <1>4 DEF Reopen, ReadLatest, Goto, EndWith
  <2>7. NumbersByAge'
    <3>1. /\ place \in Framed /\ place' \in Framed \cup {"idle"}
          /\ UNCHANGED <<client, started, channel, own, last_seq>>
      BY <1>4 DEF Reopen, Goto, EndWith
    <3>2. place' = "pushing" => ReadLatest
      BY <1>4 DEF Reopen, Goto, EndWith
    <3>3. ReadLatest => read_seq'.by = channel.by /\ read_seq'.seq = channel.seq
      BY DEF ReadLatest
    <3> QED
      BY <3>1, <3>2, <3>3
  <2> QED
    BY <2>1, <2>2, <2>3, <2>4, <2>5, <2>6, <2>7
<1>5. CASE Skip
  BY <1>5 DEF Skip, ShownAlready, EndWith
<1>6. CASE Push
  <2>1. AddOnTypeOK'
    <3>1. {read_seq', last_seq'} \subseteq Published \cup {PyNone} /\ volume' \in {"latest", "older"}
      BY <1>6 DEF Push
    <3>2. live' \in BOOLEAN /\ outcome' \in {"ok", "cancelled", "raised"} /\ place' = "idle"
      BY <1>6 DEF Push, EndWith
    <3> QED
      BY <1>6, <3>1, <3>2 DEF Push
  <2>2. NoOrphans'
    BY <1>6 DEF Push, EndWith
  <2>3. HandlesAgree'
    BY <1>6 DEF Push, EndWith
  <2>4. DrawNeverRaises'
    BY <1>6 DEF Push, EndWith
  <2>5. HandlesByPlace'
    BY <1>6 DEF Push, EndWith
  <2>6. LastStarted'
    BY <1>6 DEF Push, EndWith
  <2>7. NumbersByAge'
    BY <1>6 DEF Push, EndWith
  <2> QED
    BY <2>1, <2>2, <2>3, <2>4, <2>5, <2>6, <2>7
<1> QED
  BY <1>1, <1>2, <1>3, <1>4, <1>5, <1>6

LEMMA AddOnSteps == AddOnInductive /\ [AddOnNext]_addOnVars => AddOnInductive'
<1> SUFFICES ASSUME AddOnInductive, [AddOnNext]_addOnVars PROVE AddOnInductive'
  OBVIOUS
<1>1. CASE UNCHANGED addOnVars
  BY <1>1 DEF addOnVars, handles, engine, channels, shown, AddOnInductive, AddOnTypeOK, NoOrphans, HandlesAgree,
     DrawNeverRaises, HandlesByPlace, LastStarted, NumbersByAge
<1>2. CASE AddOnNext
  BY <1>2, UserCalls, TearingDown, StartingUp, ShowingAFrame DEF AddOnNext, Continue
<1> QED
  BY <1>1, <1>2

LEMMA AddOnAlways == AddOnSpec => []AddOnInductive
  BY AddOnStarts, AddOnSteps, PTL DEF AddOnSpec

-----------------------------------------------------------------------------
(***************************************************************************)
(* The theorems.                                                           *)
(***************************************************************************)
\* The add-on's handles, the engines and the frame numbers have their types.
THEOREM AddOnTypeCorrect == AddOnSpec => []AddOnTypeOK
  BY AddOnAlways, PTL DEF AddOnInductive

\* No engine runs that the add-on has lost sight of (ops.py _state): also not
\* one that is started while another fails, and however many are started.
THEOREM NoEngineIsLost == AddOnSpec => []NoOrphans
  BY AddOnAlways, PTL DEF AddOnInductive

\* A client is of the recorded process and a reader never outlives its client,
\* whichever step of shutdown_engine or start_engine failed.
THEOREM HandlesAlwaysAgree == AddOnSpec => []HandlesAgree
  BY AddOnAlways, PTL DEF AddOnInductive

\* No exception gets from _on_draw into Blender's draw loop.
THEOREM DrawLoopIsSafe == AddOnSpec => []DrawNeverRaises
  BY AddOnAlways, PTL DEF AddOnInductive

\* A redraw ends without an error only in Skip and in Push.
LEMMA RedrawEnds ==
    ASSUME AddOnInductive, AddOnNext, op = "draw", place # "idle", place' = "idle", outcome' = "ok"
    PROVE  Skip \/ Push
<1> USE DEF AddOnInductive, HandlesByPlace, Starting
<1>1. ~(StartEngine \/ Stop \/ RenderFrame \/ OnDraw \/ Disable \/ Enable \/ ToggleLive)
  BY DEF StartEngine, Stop, RenderFrame, OnDraw, Disable, Enable, ToggleLive, BeginCall
<1>2. ~(Die \/ Hang \/ Reallocated \/ PublishedByOther)
  BY DEF Die, Hang, Reallocated, PublishedByOther
<1>3. ~(CloseReader \/ SayGoodbye \/ GoodbyeAnswered \/ Reap)
  BY DEF CloseReader, SayGoodbye, SendTo, GoodbyeAnswered, Reap, AfterTeardown, Goto, EndWith
<1>4. ~(SpawnFails \/ Spawn \/ Ready \/ NotReady \/ Hello \/ HelloAnswered \/ SendLoad
        \/ LoadAnswered \/ OpenReader)
  BY DEF SpawnFails, Spawn, Ready, NotReady, Hello, HelloAnswered, SendLoad, LoadAnswered, OpenReader
<1>5. ~(Render \/ RenderAnswered \/ Read \/ Reopen)
  BY DEF Render, SendTo, RenderAnswered, Read, Reopen, Goto, EndWith
<1> QED
  BY <1>1, <1>2, <1>3, <1>4, <1>5 DEF AddOnNext, Continue

\* handlers.py:179: a redraw that reports no error leaves the volume at the
\* frame it just rendered, unless one of the two numbers it compared was written
\* by another engine, one replaced since or another Blender's; for any number
\* of frames, of restarts and of reallocations of the channel.
THEOREM OnlyAnotherWriterSkips == AddOnSpec => OnlyOtherWritersSkip
<1> DEFINE Foreign == last_seq # PyNone /\ (last_seq.by # client \/ read_seq.by # client)
           Shows == op = "draw" /\ place # "idle" /\ place' = "idle" /\ outcome' = "ok"
                        => volume' = "latest" \/ Foreign
<1>1. AddOnInductive /\ [AddOnNext]_addOnVars => [Shows]_addOnVars
  <2> SUFFICES ASSUME AddOnInductive, AddOnNext, op = "draw", place # "idle", place' = "idle", outcome' = "ok"
               PROVE  volume' = "latest" \/ Foreign
    OBVIOUS
  <2>1. CASE Skip
    <3>1. last_seq # PyNone /\ last_seq.seq = read_seq.seq /\ place = "pushing"
      BY <2>1 DEF Skip, ShownAlready
    <3>2. last_seq \in Published /\ own.seq \in Nat
      BY <3>1 DEF AddOnInductive, AddOnTypeOK
    <3>3. ~(last_seq.by = client /\ read_seq.by = client)
      BY <3>1, <3>2, AddOnAssumption DEF AddOnInductive, NumbersByAge, Framed, Published
    <3> QED
      BY <3>1, <3>3
  <2>2. CASE Push
    BY <2>2 DEF Push, EndWith
  <2> QED
    BY <2>1, <2>2, RedrawEnds
<1> QED
  BY <1>1, AddOnAlways, PTL DEF AddOnSpec, OnlyOtherWritersSkip

\* The handles and the engine processes agree, whatever fails or dies.
THEOREM HandlesAlwaysTrue == AddOnSpec => []HandlesAreTrue
  BY AddOnTypeCorrect, NoEngineIsLost, HandlesAlwaysAgree, PTL DEF HandlesAreTrue
=============================================================================
