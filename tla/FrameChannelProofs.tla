------------------------- MODULE FrameChannelProofs -------------------------
(***************************************************************************)
(* Proofs about FrameChannel, for any number of readers, frames of any     *)
(* size, any number of attempts and of publishes, on a platform that keeps *)
(* loads in order (on one that does not, TLC finds a torn frame); and then *)
(* about ChannelFile, for any resolutions and any number of files, if no   *)
(* client uses the file while it is made again.                            *)
(*                                                                         *)
(* The argument: publish writes the buffer that readers of the current     *)
(* number are not directed to, so a copy made while the number stays what  *)
(* it was is the frame of that number.  The invariant has to say so at     *)
(* each point of a read: of the words copied so far, while the number is   *)
(* still the sampled one; and of the whole copy, once the second sample    *)
(* equals the first.  Each failed try has seen the number grow, which is   *)
(* what entitles a read to give up.                                        *)
(***************************************************************************)
EXTENDS FrameChannel, ChannelFile, TLAPS

\* The buffer that readers of frame k are directed to.
Home(k) == (k - 1) % 2

\* The latest frame is whole, in the buffer its readers are directed to.
LatestIsWhole ==
    seq > 0 => \A w \in Words : buffer[Home(seq)][w] = seq

\* The words already copied in are those of the next frame.
NextIsPrepared ==
    /\ wpc = "idle" => unwritten = {}
    /\ wpc = "copy" => seq < MaxSeq
    /\ wpc = "copy" => \A w \in Words \ unwritten : buffer[WriteIndex][w] = seq + 1

\* Where r is in read_latest, and how often the number grew since it called.
ReadIsCounted(r) ==
    /\ rpc[r] = "idle" <=> asked[r] = Nothing
    /\ rpc[r] # "idle" => attempt[r] < Attempts
    /\ rpc[r] = "sample" => asked[r] + attempt[r] <= seq
    /\ rpc[r] = "copy" => asked[r] + attempt[r] <= before[r] /\ before[r] <= seq
    /\ rpc[r] # "copy" => after[r] = Nothing

\* What r has copied out so far, unless it will be discarded.
CopyIsSound(r) ==
    /\ rpc[r] = "copy" /\ before[r] = seq /\ seq > 0 =>
           \A w \in Words \ unread[r] : out[r][w] = seq
    /\ after[r] # Nothing =>
           /\ unread[r] = {}
           /\ before[r] <= after[r] /\ after[r] <= seq
           /\ after[r] = before[r] /\ before[r] > 0 =>
                  \A w \in Words : out[r][w] = before[r]

Inductive ==
    /\ TypeOK
    /\ LatestIsWhole
    /\ NextIsPrepared
    /\ \A r \in Readers : ReadIsCounted(r) /\ CopyIsSound(r)
    /\ NoTornFrame

-----------------------------------------------------------------------------
(***************************************************************************)
(* The two buffers.                                                        *)
(***************************************************************************)
\* Readers of frame k and the writer of frame k+1 use different buffers, and
\* readers of k+1 are directed to the one that was written.
LEMMA Alternation ==
    ASSUME NEW k \in Nat
    PROVE  /\ k % 2 \in {0, 1}
           /\ Home(k + 1) = k % 2
           /\ k > 0 => Home(k) \in {0, 1} /\ Home(k) # k % 2
  BY DEF Home

\* A reader that has sampled k > 0 reads the buffer of frame k.
LEMMA ReaderIsDirected ==
    ASSUME NEW r \in Readers, before[r] \in Nat
    PROVE  /\ ReadIndex(r) \in {0, 1}
           /\ before[r] > 0 => ReadIndex(r) = Home(before[r])
  BY Alternation DEF ReadIndex, Home

-----------------------------------------------------------------------------
(***************************************************************************)
(* The writer's steps.                                                     *)
(***************************************************************************)
\* Only the writer moved: every read is where it was.
LEMMA ReadsUndisturbed ==
    ASSUME TypeOK, \A r \in Readers : ReadIsCounted(r) /\ CopyIsSound(r),
           UNCHANGED readerVars, seq' \in Nat, seq' >= seq
    PROVE  \A r \in Readers : ReadIsCounted(r)' /\ CopyIsSound(r)'
<1> SUFFICES ASSUME NEW r \in Readers
             PROVE  ReadIsCounted(r)' /\ CopyIsSound(r)'
  OBVIOUS
<1> USE FrameChannelAssumption
<1>1. /\ seq \in Nat /\ before[r] \in Nat /\ attempt[r] \in Nat
      /\ asked[r] \in Nat \cup {Nothing} /\ after[r] \in Nat \cup {Nothing}
  BY DEF TypeOK, Numbers
<1>2. ReadIsCounted(r)'
  BY <1>1 DEF ReadIsCounted, readerVars
<1>3. rpc[r] = "copy" /\ before[r] = seq' => before[r] = seq
  <2>1. rpc[r] = "copy" => before[r] <= seq
    BY DEF ReadIsCounted
  <2> QED
    BY <2>1, <1>1
<1>4. after[r] # Nothing => after[r] <= seq'
  BY <1>1 DEF CopyIsSound
<1>5. CopyIsSound(r)'
  BY <1>3, <1>4 DEF CopyIsSound, readerVars
<1> QED
  BY <1>2, <1>5

LEMMA BeginPublishStep ==
    ASSUME Inductive, BeginPublish
    PROVE  Inductive'
<1> USE FrameChannelAssumption
<1>1. seq \in Nat /\ seq' = seq
  BY DEF BeginPublish, Inductive, TypeOK, Numbers
<1>2. TypeOK'
  BY DEF BeginPublish, Inductive, TypeOK, readerVars
<1>3. LatestIsWhole' /\ NextIsPrepared'
  BY DEF BeginPublish, Inductive, LatestIsWhole, NextIsPrepared
<1>4. \A r \in Readers : ReadIsCounted(r)' /\ CopyIsSound(r)'
  BY <1>1, ReadsUndisturbed DEF BeginPublish, Inductive
<1>5. NoTornFrame'
  BY DEF BeginPublish, Inductive, NoTornFrame, readerVars
<1> QED
  BY <1>2, <1>3, <1>4, <1>5 DEF Inductive

LEMMA CopyInStep ==
    ASSUME Inductive, NEW w \in Words, CopyIn(w)
    PROVE  Inductive'
<1> USE FrameChannelAssumption
<1>1. /\ seq \in Nat /\ seq' = seq /\ seq < MaxSeq /\ WriteIndex \in {0, 1}
      /\ seq > 0 => Home(seq) \in {0, 1} /\ Home(seq) # WriteIndex
  BY Alternation DEF CopyIn, Inductive, TypeOK, Numbers, NextIsPrepared, WriteIndex
<1>2. /\ buffer \in [{0, 1} -> [Words -> Numbers]]
      /\ buffer' = [buffer EXCEPT ![WriteIndex][w] = seq + 1]
      /\ unwritten \in SUBSET Words
      /\ unwritten' = unwritten \ {w}
      /\ UNCHANGED <<wpc, readerVars>> /\ wpc = "copy"
  BY DEF CopyIn, Inductive, TypeOK
<1>3. seq + 1 \in Numbers
  BY <1>1 DEF Numbers
<1>4. buffer' \in [{0, 1} -> [Words -> Numbers]]
  BY <1>1, <1>2, <1>3
<1>5. TypeOK'
  BY <1>1, <1>2, <1>4 DEF Inductive, TypeOK, readerVars
<1>6. LatestIsWhole'
  BY <1>1, <1>2 DEF Inductive, LatestIsWhole
<1>7. NextIsPrepared'
  BY <1>1, <1>2 DEF Inductive, NextIsPrepared, WriteIndex
<1>8. \A r \in Readers : ReadIsCounted(r)' /\ CopyIsSound(r)'
  BY <1>1, <1>2, ReadsUndisturbed DEF Inductive
<1>9. NoTornFrame'
  BY <1>2 DEF Inductive, NoTornFrame, readerVars
<1> QED
  BY <1>5, <1>6, <1>7, <1>8, <1>9 DEF Inductive

LEMMA StoreSeqStep ==
    ASSUME Inductive, StoreSeq
    PROVE  Inductive'
<1> USE FrameChannelAssumption
<1>1. /\ seq \in Nat /\ seq' = seq + 1 /\ seq' \in Numbers /\ seq' \in Nat
      /\ Home(seq') = WriteIndex
  BY Alternation DEF StoreSeq, Inductive, TypeOK, Numbers, NextIsPrepared, WriteIndex
<1>2. unwritten = {} /\ unwritten' = {} /\ wpc = "copy" /\ wpc' = "idle"
      /\ UNCHANGED <<buffer, readerVars>>
  BY DEF StoreSeq, MayStoreSeq
<1>3. TypeOK'
  BY <1>1, <1>2 DEF Inductive, TypeOK, readerVars
<1>4. LatestIsWhole'
  BY <1>1, <1>2 DEF Inductive, LatestIsWhole, NextIsPrepared
<1>5. NextIsPrepared'
  BY <1>2 DEF NextIsPrepared
<1>6. \A r \in Readers : ReadIsCounted(r)' /\ CopyIsSound(r)'
  BY <1>1, <1>2, ReadsUndisturbed DEF Inductive
<1>7. NoTornFrame'
  BY <1>2 DEF Inductive, NoTornFrame, readerVars
<1> QED
  BY <1>3, <1>4, <1>5, <1>6, <1>7 DEF Inductive

-----------------------------------------------------------------------------
(***************************************************************************)
(* The readers' steps.  Each touches the locals of one reader.             *)
(***************************************************************************)
\* What is left to show of a step of reader r.
LEMMA ReaderStep ==
    ASSUME Inductive, NEW r \in Readers, UNCHANGED writerVars, TypeOK',
           \A q \in Readers \ {r} :
               /\ rpc'[q] = rpc[q] /\ before'[q] = before[q] /\ after'[q] = after[q]
               /\ out'[q] = out[q] /\ unread'[q] = unread[q] /\ attempt'[q] = attempt[q]
               /\ asked'[q] = asked[q],
           ReadIsCounted(r)', CopyIsSound(r)', NoTornFrame'
    PROVE  Inductive'
<1>1. LatestIsWhole' /\ NextIsPrepared'
  BY DEF Inductive, LatestIsWhole, NextIsPrepared, writerVars, WriteIndex
<1>2. \A q \in Readers \ {r} : ReadIsCounted(q)' /\ CopyIsSound(q)'
  BY DEF Inductive, ReadIsCounted, CopyIsSound, writerVars
<1> QED
  BY <1>1, <1>2 DEF Inductive

\* A reply that is not a torn frame leaves none.
LEMMA ReplyGiven ==
    ASSUME TypeOK, NoTornFrame, NEW r \in Readers, NEW returned,
           reply' = [reply EXCEPT ![r] = returned],
           returned # Nothing /\ returned.ok =>
               (returned.seq > 0 => returned.values = [w \in Words |-> returned.seq])
    PROVE  NoTornFrame'
<1>1. \A q \in Readers : reply'[q] = IF q = r THEN returned ELSE reply[q]
  BY DEF TypeOK
<1> SUFFICES ASSUME NEW q \in Readers, reply'[q] # Nothing, reply'[q].ok, reply'[q].seq > 0
             PROVE  reply'[q].values = [w \in Words |-> reply'[q].seq]
  BY DEF NoTornFrame
<1>2. CASE q = r
  <2>1. reply'[q] = returned
    BY <1>1, <1>2
  <2> QED
    BY <2>1
<1>3. CASE q # r
  <2>1. reply'[q] = reply[q]
    BY <1>1, <1>3
  <2> QED
    BY <2>1 DEF NoTornFrame
<1> QED
  BY <1>2, <1>3

LEMMA BeginReadStep ==
    ASSUME Inductive, NEW r \in Readers, BeginRead(r)
    PROVE  Inductive'
<1> USE FrameChannelAssumption
<1>1. TypeOK
  BY DEF Inductive
<1>2. TypeOK'
  <2>1. Nothing \in Replies /\ 0 \in 0..Attempts
    BY DEF Replies
  <2> QED
    BY <1>1, <2>1 DEF BeginRead, TypeOK, writerVars
<1>3. ReadIsCounted(r)'
  BY <1>1 DEF BeginRead, Inductive, ReadIsCounted, TypeOK, writerVars, Numbers
<1>4. CopyIsSound(r)'
  BY <1>1 DEF BeginRead, Inductive, ReadIsCounted, CopyIsSound, TypeOK
<1>5. NoTornFrame'
  BY <1>1, ReplyGiven DEF BeginRead, Inductive
<1> QED
  BY <1>1, <1>2, <1>3, <1>4, <1>5, ReaderStep DEF BeginRead, TypeOK

LEMMA SampleStep ==
    ASSUME Inductive, NEW r \in Readers, Sample(r)
    PROVE  Inductive'
<1> USE FrameChannelAssumption
<1>1. TypeOK
  BY DEF Inductive
<1>2. Zeros \in [Words -> Numbers]
  BY DEF Zeros, Numbers
<1>3. TypeOK'
  BY <1>1, <1>2 DEF Sample, TypeOK, writerVars
<1>4. ReadIsCounted(r)'
  BY <1>1 DEF Sample, Inductive, ReadIsCounted, TypeOK, writerVars, Numbers
<1>5. CopyIsSound(r)'
  BY <1>1 DEF Sample, Inductive, ReadIsCounted, CopyIsSound, TypeOK
<1>6. NoTornFrame'
  BY DEF Sample, Inductive, NoTornFrame
<1> QED
  BY <1>1, <1>3, <1>4, <1>5, <1>6, ReaderStep DEF Sample, TypeOK

LEMMA CopyOutStep ==
    ASSUME Inductive, NEW r \in Readers, NEW w \in Words, CopyOut(r, w)
    PROVE  Inductive'
<1> USE FrameChannelAssumption
<1>1. TypeOK
  BY DEF Inductive
<1>2. before[r] \in Nat /\ seq \in Nat /\ ReadIndex(r) \in {0, 1}
  BY <1>1, ReaderIsDirected DEF TypeOK, Numbers
<1>3. buffer[ReadIndex(r)][w] \in Numbers
  BY <1>1, <1>2 DEF TypeOK
<1>4. TypeOK'
  BY <1>1, <1>3 DEF CopyOut, TypeOK, writerVars
<1>5. ReadIsCounted(r)'
  BY <1>1 DEF CopyOut, Inductive, ReadIsCounted, writerVars
<1>6. CopyIsSound(r)'
  <2>1. after[r] = Nothing
    BY DEF CopyOut, Inductive, CopyIsSound
  <2>2. before[r] = seq /\ seq > 0 => buffer[ReadIndex(r)][w] = seq
    BY <1>2, ReaderIsDirected DEF Inductive, LatestIsWhole
  <2> QED
    BY <1>1, <2>1, <2>2 DEF CopyOut, Inductive, CopyIsSound, TypeOK, writerVars
<1>7. NoTornFrame'
  BY DEF CopyOut, Inductive, NoTornFrame
<1> QED
  BY <1>1, <1>4, <1>5, <1>6, <1>7, ReaderStep DEF CopyOut, TypeOK

\* The one step that needs the loads in order.
LEMMA ResampleStep ==
    ASSUME LoadsInOrder, Inductive, NEW r \in Readers, Resample(r)
    PROVE  Inductive'
<1> USE FrameChannelAssumption
<1>1. TypeOK
  BY DEF Inductive
<1>2. TypeOK'
  BY <1>1 DEF Resample, TypeOK, writerVars
<1>3. ReadIsCounted(r)'
  BY <1>1 DEF Resample, Inductive, ReadIsCounted, TypeOK, writerVars
<1>4. CopyIsSound(r)'
  <2>1. unread[r] = {} /\ after'[r] = seq /\ before[r] <= seq /\ seq \in Nat
    BY <1>1 DEF Resample, Inductive, ReadIsCounted, TypeOK, Numbers
  <2>2. before[r] = seq /\ seq > 0 => \A w \in Words : out[r][w] = seq
    BY <2>1 DEF Resample, Inductive, CopyIsSound
  <2> QED
    BY <1>1, <2>1, <2>2 DEF Resample, Inductive, CopyIsSound, TypeOK, writerVars
<1>5. NoTornFrame'
  BY DEF Resample, Inductive, NoTornFrame
<1> QED
  BY <1>1, <1>2, <1>3, <1>4, <1>5, ReaderStep DEF Resample, TypeOK

LEMMA CompareStep ==
    ASSUME Inductive, NEW r \in Readers, Compare(r)
    PROVE  Inductive'
<1> USE FrameChannelAssumption
<1>1. TypeOK
  BY DEF Inductive
<1>2. /\ before[r] \in Nat /\ after[r] \in Nat /\ seq \in Nat /\ attempt[r] \in Nat
      /\ asked[r] \in Nat /\ asked[r] + attempt[r] <= before[r]
      /\ before[r] <= after[r] /\ after[r] <= seq /\ attempt[r] < Attempts
  BY <1>1 DEF Compare, Inductive, ReadIsCounted, CopyIsSound, TypeOK, Numbers
<1>3. /\ out[r] \in [Words -> Numbers] /\ before[r] \in Numbers
      /\ Undisturbed(r) /\ before[r] > 0 => out[r] = [w \in Words |-> before[r]]
  BY <1>1, <1>2 DEF Compare, Inductive, CopyIsSound, TypeOK, Undisturbed
<1>4. after' = [after EXCEPT ![r] = Nothing]
      /\ UNCHANGED <<before, out, unread, writerVars>>
  BY DEF Compare
<1>5. CASE Undisturbed(r)
  <2>1. Return(r, Frame(before[r], out[r])) /\ UNCHANGED attempt
    BY <1>5 DEF Compare
  <2>2. Frame(before[r], out[r]) \in Replies
    BY <1>3 DEF Frame, Replies
  <2>3. TypeOK'
    BY <1>1, <1>4, <2>1, <2>2 DEF Return, TypeOK, writerVars
  <2>4. rpc'[r] = "idle" /\ asked'[r] = Nothing /\ after'[r] = Nothing
        /\ reply'[r] = Frame(before[r], out[r])
    BY <1>1, <1>4, <2>1 DEF Return, TypeOK
  <2>5. ReadIsCounted(r)' /\ CopyIsSound(r)'
    BY <2>4 DEF ReadIsCounted, CopyIsSound
  <2>6. NoTornFrame'
    <3> DEFINE returned == Frame(before[r], out[r])
    <3>1. returned.seq = before[r] /\ returned.values = out[r]
      BY DEF Frame
    <3>2. returned.seq > 0 => returned.values = [w \in Words |-> returned.seq]
      BY <1>3, <1>5, <3>1
    <3> HIDE DEF returned
    <3>3. reply' = [reply EXCEPT ![r] = returned]
      BY <2>1 DEF Return, returned
    <3> QED
      BY <1>1, <3>2, <3>3, ReplyGiven DEF Inductive
  <2> QED
    BY <1>1, <1>3, <1>4, <1>5, <2>1, <2>3, <2>5, <2>6, ReaderStep DEF Return, TypeOK
<1>6. CASE ~Undisturbed(r) /\ attempt[r] + 1 < Attempts
  <2>1. /\ attempt' = [attempt EXCEPT ![r] = @ + 1]
        /\ attempt'[r] = attempt[r] + 1
        /\ rpc' = [rpc EXCEPT ![r] = "sample"]
        /\ UNCHANGED <<asked, reply>>
    BY <1>1, <1>6 DEF Compare, TypeOK
  <2>2. TypeOK'
    BY <1>1, <1>2, <1>4, <1>6, <2>1 DEF TypeOK, writerVars
  <2>3. ReadIsCounted(r)'
    <3>1. rpc'[r] = "sample" /\ asked'[r] = asked[r] /\ seq' = seq /\ after'[r] = Nothing
      BY <1>1, <1>4, <2>1 DEF TypeOK, writerVars
    <3>2. asked[r] + (attempt[r] + 1) <= seq
      BY <1>2, <1>6 DEF Undisturbed
    <3>3. asked[r] # Nothing
      BY <1>2
    <3> QED
      BY <1>6, <2>1, <3>1, <3>2, <3>3 DEF ReadIsCounted
  <2>4. CopyIsSound(r)'
    BY <1>1, <1>4, <2>1 DEF CopyIsSound, TypeOK
  <2>5. NoTornFrame'
    BY <2>1 DEF Inductive, NoTornFrame
  <2> QED
    BY <1>1, <1>4, <2>1, <2>2, <2>3, <2>4, <2>5, ReaderStep DEF TypeOK
<1>7. CASE ~Undisturbed(r) /\ ~(attempt[r] + 1 < Attempts)
  <2>1. /\ attempt' = [attempt EXCEPT ![r] = @ + 1]
        /\ Return(r, Torn)
    BY <1>1, <1>2, <1>7 DEF Compare, TypeOK
  <2>2. TypeOK'
    <3>1. Torn \in Replies /\ attempt[r] + 1 \in 0..Attempts
      BY <1>2 DEF Replies
    <3> QED
      BY <1>1, <1>2, <1>4, <2>1, <3>1 DEF Return, TypeOK, writerVars
  <2>3. rpc'[r] = "idle" /\ asked'[r] = Nothing /\ after'[r] = Nothing /\ reply'[r] = Torn
    BY <1>1, <1>4, <2>1 DEF Return, TypeOK
  <2>4. ReadIsCounted(r)' /\ CopyIsSound(r)'
    BY <2>3 DEF ReadIsCounted, CopyIsSound
  <2>5. NoTornFrame'
    BY <1>1, <2>1, ReplyGiven DEF Inductive, Return, Torn
  <2> QED
    BY <1>1, <1>4, <2>1, <2>2, <2>4, <2>5, ReaderStep DEF Return, TypeOK
<1> QED
  BY <1>5, <1>6, <1>7

-----------------------------------------------------------------------------
(***************************************************************************)
(* The theorems.                                                           *)
(***************************************************************************)
LEMMA InitInductive == Init => Inductive
<1> SUFFICES ASSUME Init PROVE Inductive
  OBVIOUS
<1> USE FrameChannelAssumption DEF Init
<1>1. Zeros \in [Words -> Numbers] /\ 0 \in Numbers
  BY DEF Zeros, Numbers
<1>2. TypeOK
  BY <1>1 DEF TypeOK, Replies
<1>3. LatestIsWhole /\ NextIsPrepared
  BY DEF LatestIsWhole, NextIsPrepared
<1>4. \A r \in Readers : ReadIsCounted(r) /\ CopyIsSound(r)
  BY DEF ReadIsCounted, CopyIsSound
<1>5. NoTornFrame
  BY DEF NoTornFrame
<1> QED
  BY <1>2, <1>3, <1>4, <1>5 DEF Inductive

\* The invariant is inductive if loads are kept in order.
THEOREM ChannelInvariance == LoadsInOrder => (Spec => []Inductive)
<1> SUFFICES ASSUME LoadsInOrder PROVE Spec => []Inductive
  OBVIOUS
<1>1. Inductive /\ [Next]_vars => Inductive'
  <2> SUFFICES ASSUME Inductive, [Next]_vars PROVE Inductive'
    OBVIOUS
  <2>1. CASE UNCHANGED vars
    BY <2>1 DEF vars, writerVars, readerVars, Inductive, TypeOK, LatestIsWhole,
         NextIsPrepared, WriteIndex, ReadIsCounted, CopyIsSound, NoTornFrame
  <2>2. CASE Publish
    BY <2>2, BeginPublishStep, CopyInStep, StoreSeqStep DEF Publish
  <2>3. CASE \E r \in Readers : BeginRead(r) \/ ReadOn(r)
    BY <2>3, BeginReadStep, SampleStep, CopyOutStep, ResampleStep, CompareStep DEF ReadOn
  <2> QED
    BY <2>1, <2>2, <2>3 DEF Next
<1> QED
  BY <1>1, InitInductive, PTL DEF Spec

\* Every variable keeps its type; in particular no read makes more than its
\* attempts.
THEOREM ChannelTypeCorrect == LoadsInOrder => (Spec => []TypeOK)
<1>1. Inductive => TypeOK
  BY DEF Inductive
<1> QED
  BY <1>1, ChannelInvariance, PTL

\* The recheck of the sequence number discards every torn read, if loads are
\* kept in order.
THEOREM NoTornFrameReturned == LoadsInOrder => (Spec => []NoTornFrame)
<1>1. Inductive => NoTornFrame
  BY DEF Inductive
<1> QED
  BY <1>1, ChannelInvariance, PTL

-----------------------------------------------------------------------------
(***************************************************************************)
(* The refinement.                                                         *)
(***************************************************************************)
\* What a completed comparison replies is what the register may reply.
LEMMA CompareRefines ==
    ASSUME Inductive, NEW r \in Readers, Compare(r)
    PROVE  [Register!Next]_(Register!vars)
<1> USE FrameChannelAssumption
<1>1. /\ before[r] \in Nat /\ after[r] \in Nat /\ seq \in Nat /\ attempt[r] \in Nat
      /\ asked[r] \in Nat /\ asked[r] + attempt[r] <= before[r] /\ asked[r] # Nothing
      /\ before[r] <= after[r] /\ after[r] <= seq /\ attempt[r] < Attempts
  BY DEF Compare, Inductive, ReadIsCounted, CopyIsSound, TypeOK, Numbers
<1>2. /\ out[r] \in [Words -> Numbers]
      /\ Undisturbed(r) /\ before[r] > 0 => out[r] = [w \in Words |-> before[r]]
  BY <1>1 DEF Compare, Inductive, CopyIsSound, TypeOK, Undisturbed
<1>3. seq' = seq
  BY DEF Compare, writerVars
<1>4. CASE Undisturbed(r)
  <2>1. reply' = [reply EXCEPT ![r] = Frame(before[r], out[r])]
        /\ asked' = [asked EXCEPT ![r] = Nothing]
    BY <1>4 DEF Compare, Return
  <2>2. before[r] \in asked[r]..seq
    BY <1>1
  <2>3. Register!Answer(r)
    BY <1>1, <1>2, <1>3, <1>4, <2>1, <2>2
    DEF Register!Answer, Register!Return, Register!Frame, Register!Whole, Frame
  <2> QED
    BY <2>3 DEF Register!Next
<1>5. CASE ~Undisturbed(r) /\ attempt[r] + 1 < Attempts
  <2>1. UNCHANGED <<asked, reply>>
    BY <1>5 DEF Compare, Inductive, TypeOK
  <2> QED
    BY <1>3, <2>1 DEF Register!vars
<1>6. CASE ~Undisturbed(r) /\ ~(attempt[r] + 1 < Attempts)
  <2>1. reply' = [reply EXCEPT ![r] = Torn] /\ asked' = [asked EXCEPT ![r] = Nothing]
    BY <1>1, <1>6 DEF Compare, Return, Inductive, TypeOK
  <2>2. asked[r] + Attempts <= seq
    BY <1>1, <1>6 DEF Undisturbed
  <2>3. Register!GiveUp(r)
    BY <1>1, <1>3, <2>1, <2>2 DEF Register!GiveUp, Register!Return, Register!Torn, Torn
  <2> QED
    BY <2>3 DEF Register!Next
<1> QED
  BY <1>4, <1>5, <1>6

LEMMA StepRefines ==
    Inductive /\ [Next]_vars => [Register!Next]_(Register!vars)
<1> SUFFICES ASSUME Inductive, [Next]_vars
             PROVE  [Register!Next]_(Register!vars)
  OBVIOUS
<1>1. CASE UNCHANGED vars
  BY <1>1 DEF vars, writerVars, readerVars, Register!vars
<1>2. CASE BeginPublish \/ \E w \in Words : CopyIn(w)
  BY <1>2 DEF BeginPublish, CopyIn, readerVars, Register!vars
<1>3. CASE StoreSeq
  BY <1>3 DEF StoreSeq, readerVars, Register!Next, Register!Publish
<1>4. ASSUME NEW r \in Readers, BeginRead(r)
      PROVE  Register!Next
  <2>1. asked[r] = Nothing
    BY <1>4 DEF BeginRead, Inductive, ReadIsCounted
  <2>2. Register!Ask(r)
    BY <1>4, <2>1 DEF BeginRead, writerVars, Register!Ask
  <2> QED
    BY <2>2 DEF Register!Next
<1>5. ASSUME NEW r \in Readers, Sample(r) \/ (\E w \in Words : CopyOut(r, w)) \/ Resample(r)
      PROVE  UNCHANGED Register!vars
  BY <1>5 DEF Sample, CopyOut, Resample, writerVars, Register!vars
<1> QED
  BY <1>1, <1>2, <1>3, <1>4, <1>5, CompareRefines DEF Next, Publish, ReadOn

\* To its readers the channel is an atomic register: every read returns a frame
\* that was the latest at some moment of the read, and gives up only if frames
\* were published throughout.
THEOREM RegisterRefinement == LoadsInOrder => (Spec => ImplementsRegister)
<1>1. Init => Register!Init
  BY DEF Init, Register!Init
<1> QED
  BY <1>1, StepRefines, ChannelInvariance, PTL DEF Spec, ImplementsRegister, Register!Spec

-----------------------------------------------------------------------------
(***************************************************************************)
(* ChannelFile.  The argument, for a client that waits: while a call of    *)
(* the reader's is under way the file is not made again, except that it    *)
(* may be made for the first time.  So a field it has loaded is zero or    *)
(* the file's own, the length of a buffer that it believes in is zero or   *)
(* the file's, and what it copies while the number stays what it was is    *)
(* the latest frame, which the writer does not touch.                      *)
(***************************************************************************)
\* The file, by how far create and publish have got.
FileSoFar ==
    /\ made = <<>> => making = "idle" /\ reading = "closed"
    /\ making = "set_len" => header = Blank /\ number = 0 /\ len = 0
    /\ made # <<>> /\ making # "set_len" =>
           len = 1 + 2 * Size(Latest) /\ Len(words) = 2 * Size(Latest)
    /\ making = "header" =>
           /\ number = 0 /\ at \in DOMAIN Fields
           /\ \A i \in DOMAIN Fields :
                  header[Fields[i]] = IF i < at THEN HeaderOf(Latest)[Fields[i]] ELSE 0
    /\ made # <<>> /\ ~Creating => header = HeaderOf(Latest)
    /\ making = "copy" => number < MaxNumber /\ at \in 1..(Size(Latest) + 1)

\* Word i of the buffer that readers of frame k are directed to.
WordOf(k, i) == words[((k - 1) % 2) * Size(Latest) + i]

FrameOf(k) == [file |-> Len(made), seq |-> k]

\* The latest frame is whole, and the next is prepared in the other buffer.
WordsSoFar ==
    /\ number > 0 => \A i \in 1..Size(Latest) : WordOf(number, i) = FrameOf(number)
    /\ making = "copy" => \A i \in 1..(at - 1) : WordOf(number + 1, i) = FrameOf(number + 1)

\* Where the reader is, and what there is of the file meanwhile.
FileIsThere ==
    /\ reading \in Busy /\ Creating => Len(made) = 1
    /\ reading = "opened" /\ Len(made) = 1 => len > 0
    /\ reading = "open" => cached.len = 0 \/ cached.len = len
    /\ reading \in {"check", "sample", "copy"} => len > 0
    /\ settled => made # <<>> /\ ~Creating
    /\ reading = "open" /\ settled => cached.len = len
    /\ reading # "fault"

\* What has been loaded of the header is the file's, or zero.
LoadedSoFar ==
    /\ seen = [f \in DOMAIN seen |-> seen[f]]
    /\ reading = "check" => DOMAIN seen \subseteq All(Checked)
    /\ reading \in {"open", "check"} =>
           \A f \in DOMAIN seen : \/ seen[f] = HeaderOf(Latest)[f]
                                  \/ seen[f] = 0 /\ ~settled

\* What the reader believes in while it copies, and what it has copied.
CopiedSoFar ==
    /\ reading \in {"check", "sample", "copy"} => tried < Tries
    /\ reading \in {"sample", "copy"} =>
           /\ cached.header["bytes"] \in {0, Size(Latest)}
           /\ settled => <<cached.header["x"], cached.header["y"]>> = Latest
    /\ reading = "copy" =>
           /\ sampled <= number /\ Len(copied) <= cached.header["bytes"]
           /\ sampled = number /\ number > 0 =>
                  \A i \in 1..Len(copied) : copied[i] = FrameOf(number)

FileInductive ==
    /\ FileTypeOK /\ FileSoFar /\ WordsSoFar /\ FileIsThere /\ LoadedSoFar
    /\ CopiedSoFar /\ FrameIsWhole /\ StaleReaderIsTold

-----------------------------------------------------------------------------
\* What the words above take for granted: a file has extents, and its header
\* six fields.
LEMMA FileFacts ==
    ASSUME FileTypeOK, made # <<>>
    PROVE  /\ Len(made) \in Nat \ {0} /\ Latest \in Dims
           /\ Latest[1] \in Nat \ {0} /\ Latest[2] \in Nat \ {0}
           /\ Latest = <<Latest[1], Latest[2]>>
           /\ Size(Latest) \in Nat \ {0}
<1>1. Len(made) \in Nat \ {0} /\ Latest \in Dims
  BY DEF FileTypeOK, Latest
<1>2. Latest \in (Nat \ {0}) \X (Nat \ {0})
  BY <1>1, ChannelFileAssumption
<1>3. /\ Latest[1] \in Nat \ {0} /\ Latest[2] \in Nat \ {0}
      /\ Latest = <<Latest[1], Latest[2]>>
  BY <1>2
<1>4. \A a, b \in Nat \ {0} : a * b \in Nat \ {0}
  OBVIOUS
<1>5. Size(Latest) \in Nat \ {0}
  BY <1>3, <1>4 DEF Size
<1> QED
  BY <1>1, <1>3, <1>5

LEMMA SixFields ==
    /\ DOMAIN Blank = {"magic", "version", "x", "y", "channels", "bytes"}
    /\ All(Fields) = DOMAIN Blank
    /\ All(Checked) = {"x", "y", "bytes"}
    /\ Blank \in [DOMAIN Blank -> Nat]
    /\ \A f \in DOMAIN Blank : Blank[f] = 0
<1>1. DOMAIN Blank = {"magic", "version", "x", "y", "channels", "bytes"}
  BY DEF Blank, HeaderOf
<1>2. All(Fields) = DOMAIN Blank
  BY <1>1 DEF All, Fields
<1>3. All(Checked) = {"x", "y", "bytes"}
  BY DEF All, Checked
<1>4. Blank \in [DOMAIN Blank -> Nat] /\ \A f \in DOMAIN Blank : Blank[f] = 0
  BY DEF Blank
<1> QED
  BY <1>1, <1>2, <1>3, <1>4

\* A header is its fields.
LEMMA HeaderByFields ==
    ASSUME NEW d
    PROVE  /\ HeaderOf(d)["magic"] = 1 /\ HeaderOf(d)["version"] = 1
           /\ HeaderOf(d)["x"] = d[1] /\ HeaderOf(d)["y"] = d[2]
           /\ HeaderOf(d)["channels"] = 1 /\ HeaderOf(d)["bytes"] = Size(d)
           /\ HeaderOf(d) = [f \in DOMAIN Blank |-> HeaderOf(d)[f]]
<1>1. HeaderOf(d) = [f \in DOMAIN Blank |-> HeaderOf(d)[f]]
  BY SixFields DEF HeaderOf
<1> QED
  BY <1>1 DEF HeaderOf

LEMMA HeaderIsNatural ==
    ASSUME FileTypeOK, made # <<>>
    PROVE  \A f \in DOMAIN Blank : HeaderOf(Latest)[f] \in Nat
  BY FileFacts, HeaderByFields, SixFields

LEMMA SameHeader ==
    ASSUME NEW d, NEW h, h = [f \in DOMAIN Blank |-> h[f]],
           \A f \in DOMAIN Blank : h[f] = HeaderOf(d)[f]
    PROVE  h = HeaderOf(d)
<1>1. HeaderOf(d) = [f \in DOMAIN Blank |-> HeaderOf(d)[f]]
  BY HeaderByFields
<1> QED
  BY <1>1

\* A field that is due has not been loaded.
LEMMA DueIsNew ==
    ASSUME NEW fields \in {Fields, Checked},
           DOMAIN seen \subseteq All(fields), DOMAIN seen # All(fields)
    PROVE  Due(fields) \in All(fields) \ DOMAIN seen
<1> DEFINE Right(i) == /\ i \in DOMAIN fields /\ fields[i] \notin DOMAIN seen
                       /\ \A j \in 1..(i - 1) : fields[j] \in DOMAIN seen
<1>1. \E i \in DOMAIN fields : Right(i)
  BY DEF Fields, Checked, All
<1>2. Right(CHOOSE i \in DOMAIN fields : Right(i))
  BY <1>1
<1> QED
  BY <1>2 DEF Due, All

\* The words of the two buffers.
LEMMA TwoBuffers ==
    ASSUME NEW s \in Nat \ {0}, NEW n \in Nat, NEW i \in 1..s, NEW j \in 1..s
    PROVE  /\ (n % 2) * s + i \in 1..(2 * s)
           /\ (n % 2) * s + i = (n % 2) * s + j => i = j
           /\ n > 0 => /\ ((n - 1) % 2) * s + i \in 1..(2 * s)
                       /\ ((n - 1) % 2) * s + j # (n % 2) * s + i
           /\ (n + 1) - 1 = n
<1>1. n % 2 \in {0, 1} /\ (n > 0 => (n - 1) % 2 = 1 - (n % 2))
  OBVIOUS
<1>2. 0 * s = 0 /\ 1 * s = s
  OBVIOUS
<1>3. CASE n % 2 = 0
  BY <1>1, <1>2, <1>3
<1>4. CASE n % 2 = 1
  BY <1>1, <1>2, <1>4
<1> QED
  BY <1>1, <1>3, <1>4

-----------------------------------------------------------------------------
(***************************************************************************)
(* The writer's steps.                                                     *)
(***************************************************************************)
\* A step of the writer on the file that is there, seen by the reader.
LEMMA ReaderStays ==
    ASSUME ~Racing, FileInductive, FileTypeOK', UNCHANGED <<reader, made>>, made # <<>>,
           number' >= number, Creating' => Creating,
           len' = len \/ (making = "set_len" /\ len' > 0)
    PROVE  /\ FileIsThere' /\ LoadedSoFar' /\ CopiedSoFar'
           /\ FrameIsWhole' /\ StaleReaderIsTold'
<1> USE ChannelFileAssumption
<1>0. /\ FileTypeOK /\ FileSoFar /\ FileIsThere /\ LoadedSoFar /\ CopiedSoFar
      /\ FrameIsWhole /\ StaleReaderIsTold
      /\ UNCHANGED <<reading, seen, cached, sampled, copied, tried, answer, settled, made>>
      /\ Latest' = Latest
  BY DEF FileInductive, reader, locals, Latest
<1>1. Creating => making = "set_len" \/ making = "header"
  BY DEF Creating
<1>2. making = "set_len" => len = 0 /\ Creating
  BY <1>0 DEF FileSoFar, Creating
<1>3. FileIsThere'
  BY <1>0, <1>1, <1>2 DEF FileIsThere, FileTypeOK
<1>4. LoadedSoFar'
  BY <1>0 DEF LoadedSoFar
<1>5. CopiedSoFar'
  <2>1. reading = "copy" /\ sampled = number' => sampled = number
    BY <1>0 DEF CopiedSoFar, FileTypeOK
  <2>2. reading = "copy" => sampled <= number'
    BY <1>0 DEF CopiedSoFar, FileTypeOK
  <2>3. reading \in {"sample", "copy"} =>
           /\ cached'.header["bytes"] \in {0, Size(Latest')}
           /\ settled' => <<cached'.header["x"], cached'.header["y"]>> = Latest'
    BY <1>0 DEF CopiedSoFar
  <2>4. sampled = number' /\ number' > 0 /\ reading = "copy" =>
            \A i \in 1..Len(copied) : copied[i] = [file |-> Len(made), seq |-> number']
    BY <1>0, <2>1 DEF CopiedSoFar, FrameOf
  <2> QED
    BY <1>0, <2>2, <2>3, <2>4 DEF CopiedSoFar, FrameOf
<1>6. FrameIsWhole' /\ StaleReaderIsTold'
  BY <1>0 DEF FrameIsWhole, StaleReaderIsTold
<1> QED
  BY <1>3, <1>4, <1>5, <1>6

LEMMA TruncateStep ==
    ASSUME ~Racing, FileInductive, NEW d \in Dims, Truncate(d)
    PROVE  FileInductive'
<1> USE ChannelFileAssumption
<1>0. /\ FileTypeOK /\ FileSoFar /\ FileIsThere /\ LoadedSoFar /\ FrameIsWhole
      /\ made' = Append(made, d) /\ len' = 0 /\ header' = Blank /\ number' = 0 /\ words' = <<>>
      /\ making' = "set_len" /\ settled' = FALSE
      /\ UNCHANGED <<at, reading, seen, cached, sampled, copied, tried, answer>>
      /\ reading \notin Busy /\ Len(made) < MaxFiles /\ making = "idle"
  BY DEF FileInductive, Truncate, locals
<1>1. /\ made' \in Seq(Dims) /\ Len(made') = Len(made) + 1 /\ Len(made) \in Nat
      /\ made' # <<>>
      /\ \A k \in 1..Len(made) : made'[k] = made[k]
  BY <1>0 DEF FileTypeOK
<1>2. FileTypeOK'
  <2>1. settled' \in BOOLEAN
    BY <1>0
  <2>2. words' \in Seq(Frames \cup {None}) /\ number' \in 0..MaxNumber
    BY <1>0
  <2>3. Len(made') <= MaxFiles
    BY <1>0, <1>1
  <2> QED
    BY <1>0, <1>1, <2>1, <2>2, <2>3, SixFields DEF FileTypeOK
<1>3. FileSoFar'
  BY <1>0, <1>1 DEF FileSoFar, Creating
<1>4. WordsSoFar'
  BY <1>0 DEF WordsSoFar
<1>5. FileIsThere'
  <2>1. reading = "opened" => made # <<>>
    BY <1>0 DEF FileSoFar
  <2>2. reading = "opened" => Len(made') # 1
    BY <2>1, <1>0, <1>1 DEF FileTypeOK
  <2> QED
    BY <1>0, <1>1, <2>2 DEF FileIsThere, Busy, FileTypeOK
<1>6. LoadedSoFar' /\ CopiedSoFar'
  BY <1>0 DEF LoadedSoFar, CopiedSoFar, Busy
<1>7. FrameIsWhole'
  <2> SUFFICES ASSUME answer.ok, answer.seq > 0, answer.values # <<>>
               PROVE  \E k \in 1..Len(made') :
                         /\ Size(made'[k]) = Len(answer.values)
                         /\ \A i \in DOMAIN answer.values :
                                answer.values[i] = [file |-> k, seq |-> answer.seq]
    BY <1>0 DEF FrameIsWhole
  <2>1. PICK k \in 1..Len(made) :
            /\ Size(made[k]) = Len(answer.values)
            /\ \A i \in DOMAIN answer.values :
                   answer.values[i] = [file |-> k, seq |-> answer.seq]
    BY <1>0 DEF FrameIsWhole
  <2>2. k \in 1..Len(made') /\ made'[k] = made[k]
    BY <1>1
  <2> QED
    BY <2>1, <2>2
<1>8. StaleReaderIsTold'
  BY <1>0 DEF StaleReaderIsTold
<1> QED
  BY <1>2, <1>3, <1>4, <1>5, <1>6, <1>7, <1>8 DEF FileInductive

LEMMA SetLenStep ==
    ASSUME ~Racing, FileInductive, SetLen
    PROVE  FileInductive'
<1> USE ChannelFileAssumption
<1>0. /\ FileTypeOK /\ FileSoFar /\ made # <<>> /\ making = "set_len"
      /\ len' = 1 + 2 * Size(Latest) /\ words' = [i \in 1..(2 * Size(Latest)) |-> None]
      /\ making' = "header" /\ at' = 1
      /\ UNCHANGED <<made, header, number, reader>>
      /\ Latest' = Latest
  BY DEF FileInductive, SetLen, FileSoFar, Latest
<1>1. Size(Latest) \in Nat \ {0}
  BY <1>0, FileFacts
<1>2. words' \in Seq(Frames \cup {None}) /\ Len(words') = 2 * Size(Latest)
  BY <1>0, <1>1
<1>3. FileTypeOK'
  <2>1. len' \in Nat /\ at' \in Nat
    BY <1>0, <1>1
  <2> QED
    BY <1>0, <1>2, <2>1 DEF FileTypeOK, reader, locals
<1>4. header = Blank /\ number = 0
  BY <1>0 DEF FileSoFar
<1>5. FileSoFar'
  <2>1. \A i \in DOMAIN Fields : header'[Fields[i]] = 0 /\ ~(i < 1)
    BY <1>0, <1>4, SixFields DEF Fields
  <2>2. at' \in DOMAIN Fields /\ DOMAIN Fields = 1..6
    BY <1>0 DEF Fields
  <2> HIDE DEF Fields
  <2>3. \A i \in DOMAIN Fields :
            header'[Fields[i]] = IF i < at' THEN HeaderOf(Latest')[Fields[i]] ELSE 0
    BY <1>0, <2>1
  <2> QED
    BY <1>0, <1>2, <1>4, <2>2, <2>3 DEF FileSoFar, Creating
<1>6. WordsSoFar'
  BY <1>0, <1>4 DEF WordsSoFar
<1>7. len' > 0 /\ number' >= number /\ Creating /\ (Creating' => Creating)
  BY <1>0, <1>1, <1>4 DEF Creating
<1>8. UNCHANGED <<reader, made>>
  BY <1>0
<1>R. /\ FileIsThere' /\ LoadedSoFar' /\ CopiedSoFar'
      /\ FrameIsWhole' /\ StaleReaderIsTold'
  BY <1>0, <1>3, <1>5, <1>6, <1>7, <1>8, ReaderStays
<1> QED
  BY <1>0, <1>3, <1>5, <1>6, <1>7, <1>8, <1>R DEF FileInductive

LEMMA StoreFieldStep ==
    ASSUME ~Racing, FileInductive, StoreField
    PROVE  FileInductive'
<1> USE ChannelFileAssumption
<1>0. /\ FileTypeOK /\ FileSoFar /\ made # <<>> /\ making = "header" /\ at \in DOMAIN Fields
      /\ header' = [header EXCEPT ![Fields[at]] = HeaderOf(Latest)[Fields[at]]]
      /\ at' = at + 1
      /\ making' = IF at = Len(Fields) THEN "idle" ELSE making
      /\ UNCHANGED <<made, len, number, words, reader>>
      /\ Latest' = Latest
  BY DEF FileInductive, StoreField, FileSoFar, Latest
<1>1. Fields[at] \in DOMAIN Blank /\ HeaderOf(Latest)[Fields[at]] \in Nat
  BY <1>0, SixFields, HeaderIsNatural DEF Fields
<1>2. header' \in [DOMAIN Blank -> Nat] /\ header \in [DOMAIN Blank -> Nat]
  BY <1>0, <1>1 DEF FileTypeOK
<1>3. FileTypeOK'
  BY <1>0, <1>2 DEF FileTypeOK, reader, locals
<1>4. number = 0 /\ len = 1 + 2 * Size(Latest) /\ Len(words) = 2 * Size(Latest)
  BY <1>0 DEF FileSoFar
<1>5. \A i \in DOMAIN Fields :
          header'[Fields[i]] = IF i < at + 1 THEN HeaderOf(Latest)[Fields[i]] ELSE 0
  <2> SUFFICES ASSUME NEW i \in DOMAIN Fields
               PROVE  header'[Fields[i]] = IF i < at + 1 THEN HeaderOf(Latest)[Fields[i]] ELSE 0
    OBVIOUS
  <2>1. Fields[i] \in DOMAIN Blank /\ (Fields[i] = Fields[at] <=> i = at)
    BY <1>0, SixFields DEF Fields
  <2>2. header[Fields[i]] = IF i < at THEN HeaderOf(Latest)[Fields[i]] ELSE 0
    BY <1>0 DEF FileSoFar
  <2>3. i \in 1..6 /\ at \in 1..6
    BY <1>0 DEF Fields
  <2> QED
    BY <1>0, <1>2, <2>1, <2>2, <2>3
<1>6. at = Len(Fields) => header' = HeaderOf(Latest)
  <2> SUFFICES ASSUME at = Len(Fields)
               PROVE  header' = HeaderOf(Latest)
    OBVIOUS
  <2>1. \A f \in DOMAIN Blank : header'[f] = HeaderOf(Latest)[f]
    BY <1>5, SixFields DEF Fields
  <2> QED
    BY <1>2, <2>1, SameHeader
<1>7. FileSoFar'
  <2>1. at = Len(Fields) \/ at' \in DOMAIN Fields
    BY <1>0 DEF Fields
  <2> QED
    BY <1>0, <1>4, <1>5, <1>6, <2>1 DEF FileSoFar, Creating
<1>8. WordsSoFar'
  BY <1>0, <1>4 DEF WordsSoFar
<1>9. /\ Creating' => Creating
      /\ number' >= number /\ UNCHANGED <<reader, made>>
      /\ len' = len \/ (making = "set_len" /\ len' > 0)
  BY <1>0, <1>4 DEF Creating
<1>R. /\ FileIsThere' /\ LoadedSoFar' /\ CopiedSoFar'
      /\ FrameIsWhole' /\ StaleReaderIsTold'
  BY <1>0, <1>3, <1>7, <1>8, <1>9, ReaderStays
<1> QED
  BY <1>0, <1>3, <1>7, <1>8, <1>9, <1>R DEF FileInductive

LEMMA BeginFrameStep ==
    ASSUME ~Racing, FileInductive, BeginFrame
    PROVE  FileInductive'
<1> USE ChannelFileAssumption
<1>0. /\ FileTypeOK /\ FileSoFar /\ WordsSoFar /\ made # <<>> /\ making = "idle"
      /\ number < MaxNumber /\ making' = "copy" /\ at' = 1
      /\ UNCHANGED <<made, len, header, number, words, reader>>
      /\ Latest' = Latest
  BY DEF FileInductive, BeginFrame, file, Latest
<1>1. Size(Latest) \in Nat \ {0}
  BY <1>0, FileFacts
<1>2. FileTypeOK'
  BY <1>0 DEF FileTypeOK, reader, locals
<1>3. FileSoFar'
  BY <1>0, <1>1 DEF FileSoFar, Creating
<1>4. WordsSoFar'
  BY <1>0 DEF WordsSoFar, WordOf, FrameOf
<1>5. /\ Creating' => Creating
      /\ number' >= number /\ UNCHANGED <<reader, made>>
      /\ len' = len \/ (making = "set_len" /\ len' > 0)
  BY <1>0 DEF Creating, FileTypeOK
<1>R. /\ FileIsThere' /\ LoadedSoFar' /\ CopiedSoFar'
      /\ FrameIsWhole' /\ StaleReaderIsTold'
  BY <1>0, <1>2, <1>3, <1>4, <1>5, ReaderStays
<1> QED
  BY <1>0, <1>2, <1>3, <1>4, <1>5, <1>R DEF FileInductive

LEMMA CopyWordInStep ==
    ASSUME ~Racing, FileInductive, CopyWordIn
    PROVE  FileInductive'
<1> USE ChannelFileAssumption
<1> DEFINE s == Size(Latest)
           w == (number % 2) * s + at
<1>0. /\ FileTypeOK /\ FileSoFar /\ WordsSoFar /\ made # <<>> /\ making = "copy"
      /\ at <= Size(Latest) /\ at' = at + 1
      /\ words' = [words EXCEPT ![w] = FrameOf(number + 1)]
      /\ UNCHANGED <<made, len, header, number, making, reader>>
      /\ Latest' = Latest
  BY DEF FileInductive, CopyWordIn, FileSoFar, FrameOf, Latest
<1>1. s \in Nat \ {0} /\ Len(made) \in 1..MaxFiles
  BY <1>0, FileFacts DEF FileTypeOK
<1>2. /\ number \in Nat /\ number < MaxNumber /\ at \in 1..s
      /\ Len(words) = 2 * s /\ words \in Seq(Frames \cup {None})
  BY <1>0, <1>1 DEF FileSoFar, FileTypeOK, Creating
<1> HIDE DEF s
<1>3. w \in 1..(2 * s)
  BY <1>1, <1>2, TwoBuffers
<1>4. FrameOf(number + 1) \in Frames
  BY <1>1, <1>2 DEF FrameOf, Frames
<1> HIDE DEF w
<1>5. /\ words' \in Seq(Frames \cup {None}) /\ Len(words') = 2 * s
      /\ words'[w] = FrameOf(number + 1)
      /\ \A v \in 1..(2 * s) : v # w => words'[v] = words[v]
  BY <1>0, <1>2, <1>3, <1>4
<1>6. FileTypeOK'
  BY <1>0, <1>2, <1>5 DEF FileTypeOK, reader, locals
<1>7. FileSoFar'
  <2>1. at + 1 \in 1..(s + 1)
    BY <1>1, <1>2
  <2>2. /\ len = 1 + 2 * s /\ header = HeaderOf(Latest)
    BY <1>0 DEF FileSoFar, Creating, s
  <2> QED
    BY <1>0, <1>2, <1>5, <2>1, <2>2 DEF FileSoFar, Creating, s
<1>8. WordsSoFar'
  <2>1. ASSUME number > 0, NEW i \in 1..s
        PROVE  words'[((number - 1) % 2) * s + i] = FrameOf(number)
    <3>1. /\ ((number - 1) % 2) * s + i \in 1..(2 * s)
          /\ ((number - 1) % 2) * s + i # w
      BY <1>1, <1>2, <2>1, TwoBuffers DEF w
    <3> QED
      BY <1>0, <1>5, <2>1, <3>1 DEF WordsSoFar, WordOf, s
  <2>2. ASSUME NEW i \in 1..at
        PROVE  words'[(number % 2) * s + i] = FrameOf(number + 1)
    <3>1. CASE i = at
      BY <1>5, <3>1 DEF w
    <3>2. CASE i # at
      <4>1. i \in 1..(at - 1) /\ i \in 1..s
        BY <1>1, <1>2, <3>2
      <4>2. (number % 2) * s + i \in 1..(2 * s) /\ (number % 2) * s + i # w
        BY <1>1, <1>2, <3>2, <4>1, TwoBuffers DEF w
      <4>3. words[(number % 2) * s + i] = FrameOf(number + 1)
        BY <1>0, <1>2, <4>1, TwoBuffers DEF WordsSoFar, WordOf, s
      <4> QED
        BY <1>5, <4>2, <4>3
    <3> QED
      BY <3>1, <3>2
  <2>3. (number + 1) - 1 = number /\ (at + 1) - 1 = at
    BY <1>2
  <2>4. number > 0 => \A i \in 1..s : words'[((number - 1) % 2) * s + i] = FrameOf(number)
    BY <2>1
  <2>5. \A i \in 1..((at + 1) - 1) :
            words'[(((number + 1) - 1) % 2) * s + i] = FrameOf(number + 1)
    BY <2>2, <2>3
  <2> QED
    BY <1>0, <2>4, <2>5 DEF WordsSoFar, WordOf, FrameOf, s
<1>9. /\ Creating' => Creating
      /\ number' >= number /\ UNCHANGED <<reader, made>>
      /\ len' = len \/ (making = "set_len" /\ len' > 0)
  BY <1>0, <1>2 DEF Creating
<1>R. /\ FileIsThere' /\ LoadedSoFar' /\ CopiedSoFar'
      /\ FrameIsWhole' /\ StaleReaderIsTold'
  BY <1>0, <1>6, <1>7, <1>8, <1>9, ReaderStays
<1> QED
  BY <1>0, <1>6, <1>7, <1>8, <1>9, <1>R DEF FileInductive

LEMMA StoreNumberStep ==
    ASSUME ~Racing, FileInductive, StoreNumber
    PROVE  FileInductive'
<1> USE ChannelFileAssumption
<1>0. /\ FileTypeOK /\ FileSoFar /\ WordsSoFar /\ made # <<>> /\ making = "copy"
      /\ at > Size(Latest) /\ number' = number + 1 /\ making' = "idle"
      /\ UNCHANGED <<at, made, len, header, words, reader>>
      /\ Latest' = Latest
  BY DEF FileInductive, StoreNumber, FileSoFar, Latest
<1>1. Size(Latest) \in Nat \ {0}
  BY <1>0, FileFacts
<1>2. number \in Nat /\ number < MaxNumber /\ at = Size(Latest) + 1
  <2>1. number < MaxNumber /\ at \in 1..(Size(Latest) + 1)
    BY <1>0 DEF FileSoFar
  <2>2. number \in Nat
    BY <1>0 DEF FileTypeOK
  <2> QED
    BY <1>0, <1>1, <2>1, <2>2
<1>3. FileTypeOK'
  BY <1>0, <1>2 DEF FileTypeOK, reader, locals
<1>4. FileSoFar'
  BY <1>0 DEF FileSoFar, Creating
<1>5. WordsSoFar'
  <2>1. at - 1 = Size(Latest)
    BY <1>1, <1>2
  <2>2. \A i \in 1..Size(Latest) : WordOf(number + 1, i) = FrameOf(number + 1)
    BY <1>0, <2>1 DEF WordsSoFar
  <2> QED
    BY <1>0, <2>2 DEF WordsSoFar, WordOf, FrameOf
<1>6. /\ Creating' => Creating
      /\ number' >= number /\ UNCHANGED <<reader, made>>
      /\ len' = len \/ (making = "set_len" /\ len' > 0)
  BY <1>0, <1>2 DEF Creating
<1>R. /\ FileIsThere' /\ LoadedSoFar' /\ CopiedSoFar'
      /\ FrameIsWhole' /\ StaleReaderIsTold'
  BY <1>0, <1>3, <1>4, <1>5, <1>6, ReaderStays
<1> QED
  BY <1>0, <1>3, <1>4, <1>5, <1>6, <1>R DEF FileInductive

-----------------------------------------------------------------------------
(***************************************************************************)
(* The reader's steps.                                                     *)
(***************************************************************************)
\* Every step of the reader leaves the file and its writer alone.
LEMMA WriterStays ==
    ASSUME FileInductive, UNCHANGED writer, made # <<>>
    PROVE  FileSoFar' /\ WordsSoFar' /\ Latest' = Latest
<1>1. FileSoFar /\ WordsSoFar /\ UNCHANGED <<made, len, header, number, words, making, at>>
  BY DEF FileInductive, writer, file
<1>2. Latest' = Latest
  BY <1>1 DEF Latest
<1>3. FileSoFar'
  BY <1>1, <1>2 DEF FileSoFar, Creating
<1>4. WordsSoFar'
  BY <1>1, <1>2 DEF WordsSoFar, WordOf, FrameOf
<1> QED
  BY <1>2, <1>3, <1>4

\* While a reader uses the file, a file is there with room for both buffers.
LEMMA RoomForBoth ==
    ASSUME FileInductive, reading \in {"check", "sample", "copy"}
    PROVE  /\ made # <<>> /\ Size(Latest) \in Nat \ {0}
           /\ len = 1 + 2 * Size(Latest) /\ len # 0
           /\ Len(words) = 2 * Size(Latest)
<1>1. made # <<>> /\ len > 0
  BY DEF FileInductive, FileSoFar, FileIsThere
<1>2. making # "set_len"
  BY <1>1 DEF FileInductive, FileSoFar
<1>3. Size(Latest) \in Nat \ {0}
  BY <1>1, FileFacts DEF FileInductive
<1>4. len = 1 + 2 * Size(Latest) /\ Len(words) = 2 * Size(Latest)
  BY <1>1, <1>2 DEF FileInductive, FileSoFar
<1> QED
  BY <1>1, <1>3, <1>4

\* What the reader ended with before is as good when another call is under way.
LEMMA AnswerStays ==
    ASSUME FileInductive, UNCHANGED <<answer, made>>,
           reading' # "opened" \/ UNCHANGED <<reading, settled, cached>>
    PROVE  FrameIsWhole' /\ StaleReaderIsTold'
<1>1. FrameIsWhole /\ StaleReaderIsTold
  BY DEF FileInductive
<1>2. Latest' = Latest
  BY DEF Latest
<1>3. FrameIsWhole'
  BY <1>1 DEF FrameIsWhole
<1>4. StaleReaderIsTold'
  BY <1>1, <1>2 DEF StaleReaderIsTold
<1> QED
  BY <1>3, <1>4

\* Neither is said of a call that failed.
LEMMA RefusalSaysNothing ==
    ASSUME answer'.ok = FALSE
    PROVE  FrameIsWhole' /\ StaleReaderIsTold'
  BY DEF FrameIsWhole, StaleReaderIsTold

LEMMA OpenStep ==
    ASSUME ~Racing, FileInductive, Open
    PROVE  FileInductive'
<1> USE ChannelFileAssumption
<1>0. /\ FileTypeOK /\ FileIsThere /\ made # <<>> /\ (~Creating \/ Len(made) = 1)
      /\ reading' = "open" /\ seen' = <<>> /\ settled' = ~Creating
      /\ cached' = [header |-> Blank, len |-> len]
      /\ UNCHANGED writer /\ UNCHANGED <<sampled, copied, tried, answer>>
      /\ UNCHANGED <<made, len, header, number, words, making, at>>
  BY DEF FileInductive, Open, Begin, MayUse, locals, writer, file
<1>1. DOMAIN seen' = {} /\ seen' = [f \in DOMAIN seen' |-> seen'[f]]
  BY <1>0
<1>2. FileTypeOK'
  <2>1. settled' \in BOOLEAN
    BY <1>0 DEF Creating
  <2>2. cached' \in [header : [DOMAIN Blank -> Nat], len : Nat]
    BY <1>0, SixFields DEF FileTypeOK
  <2>3. reading' \in Busy \cup {"closed", "opened", "fault"}
    BY <1>0 DEF Busy
  <2> QED
    BY <1>0, <1>1, <2>1, <2>2, <2>3 DEF FileTypeOK
<1>3. FileIsThere'
  <2>1. cached'.len = len
    BY <1>0
  <2> QED
    BY <1>0, <2>1 DEF FileIsThere, Creating
<1>4. LoadedSoFar'
  BY <1>0, <1>1 DEF LoadedSoFar
<1>5. CopiedSoFar'
  BY <1>0 DEF CopiedSoFar
<1>6. FrameIsWhole' /\ StaleReaderIsTold'
  BY <1>0, AnswerStays
<1> QED
  BY <1>0, <1>2, <1>3, <1>4, <1>5, <1>6, WriterStays DEF FileInductive

\* The part of loading a field that open and read_latest share.
LEMMA LoadOne ==
    ASSUME FileInductive, made # <<>>, reading \in {"open", "check"}, len > 0,
           NEW f \in DOMAIN Blank \ DOMAIN seen,
           seen' = LoadField(f), UNCHANGED <<writer, reading, cached, locals, answer, settled>>,
           reading = "check" => f \in All(Checked)
    PROVE  FileInductive'
<1>0. /\ FileTypeOK /\ FileSoFar /\ FileIsThere /\ LoadedSoFar /\ CopiedSoFar
      /\ UNCHANGED <<reading, cached, sampled, copied, tried, answer, settled>>
      /\ UNCHANGED <<made, len, header, number, words, making, at>>
      /\ UNCHANGED writer
      /\ DOMAIN seen \subseteq DOMAIN Blank
  BY DEF FileInductive, FileTypeOK, locals, writer, file
<1>1. /\ DOMAIN seen' = DOMAIN seen \cup {f}
      /\ seen' = [g \in DOMAIN seen' |-> seen'[g]]
      /\ \A g \in DOMAIN seen : seen'[g] = seen[g]
      /\ seen'[f] = header[f]
  BY DEF LoadField
<1>2. FileTypeOK'
  BY <1>0, <1>1 DEF FileTypeOK
<1>3. FileIsThere'
  BY <1>0 DEF FileIsThere, Creating
<1>4. FileSoFar' /\ WordsSoFar' /\ Latest' = Latest
  BY <1>0, WriterStays
<1>5. header[f] = HeaderOf(Latest)[f] \/ (header[f] = 0 /\ ~settled)
  <2>1. CASE ~Creating
    BY <1>0, <2>1 DEF FileSoFar
  <2>2. CASE Creating
    <3>1. making = "header" /\ ~settled
      BY <1>0, <2>2 DEF FileSoFar, FileIsThere, Creating
    <3>2. PICK i \in DOMAIN Fields : Fields[i] = f
      BY SixFields DEF Fields
    <3> QED
      BY <1>0, <3>1, <3>2 DEF FileSoFar
  <2> QED
    BY <2>1, <2>2
<1>6. LoadedSoFar'
  <2>1. reading = "check" => DOMAIN seen' \subseteq All(Checked)
    BY <1>0, <1>1 DEF LoadedSoFar
  <2>2. \A g \in DOMAIN seen : seen[g] = HeaderOf(Latest)[g] \/ (seen[g] = 0 /\ ~settled)
    BY <1>0 DEF LoadedSoFar
  <2>3. \A g \in DOMAIN seen' : seen'[g] = HeaderOf(Latest)[g] \/ (seen'[g] = 0 /\ ~settled)
    BY <1>1, <1>5, <2>2
  <2> QED
    BY <1>0, <1>1, <1>4, <2>1, <2>3 DEF LoadedSoFar
<1>7. CopiedSoFar'
  BY <1>0 DEF CopiedSoFar
<1>8. FrameIsWhole' /\ StaleReaderIsTold'
  BY <1>0, AnswerStays
<1> QED
  BY <1>2, <1>3, <1>4, <1>6, <1>7, <1>8 DEF FileInductive

LEMMA LoadForOpenStep ==
    ASSUME ~Racing, FileInductive, LoadForOpen
    PROVE  FileInductive'
<1>0. /\ reading = "open" /\ cached.len > 0 /\ DOMAIN seen # All(Fields)
      /\ FileTypeOK /\ FileSoFar /\ FileIsThere
  BY DEF FileInductive, LoadForOpen
<1>1. made # <<>> /\ len > 0
  BY <1>0 DEF FileSoFar, FileIsThere
<1>2. len # 0
  BY <1>1
<1>3. /\ seen' = LoadField(Due(Fields))
      /\ UNCHANGED <<writer, reading, cached, locals, answer, settled>>
  BY <1>2 DEF LoadForOpen
<1>4. Due(Fields) \in DOMAIN Blank \ DOMAIN seen
  BY <1>0, DueIsNew, SixFields DEF FileTypeOK
<1> QED
  BY <1>0, <1>1, <1>3, <1>4, LoadOne

LEMMA ValidateStep ==
    ASSUME ~Racing, FileInductive, Validate
    PROVE  FileInductive'
<1> USE ChannelFileAssumption
<1>0. /\ FileTypeOK /\ FileSoFar /\ FileIsThere /\ LoadedSoFar
      /\ reading = "open" /\ (cached.len = 0 \/ DOMAIN seen = All(Fields))
      /\ UNCHANGED <<seen, sampled, copied, tried, settled>>
      /\ UNCHANGED writer
      /\ UNCHANGED <<made, len, header, number, words, making, at>>
  BY DEF FileInductive, Validate, writer, file, locals
<1>1. made # <<>>
  BY <1>0 DEF FileSoFar
<1>2. FileSoFar' /\ WordsSoFar' /\ Latest' = Latest
  BY <1>0, <1>1, WriterStays
<1>3. CASE Refusal # None
  <2>1. reading' = "closed" /\ answer' = Refused(Refusal) /\ cached' = cached
    BY <1>3 DEF Validate, End
  <2>2. Refusal \in Errors
    BY <1>3 DEF Refusal, Errors
  <2>3. answer' \in Answers /\ answer'.ok = FALSE
    BY <2>1, <2>2 DEF Answers, Refused
  <2>4. reading' \in Busy \cup {"closed", "opened", "fault"}
    BY <2>1
  <2>5. FileTypeOK'
    BY <1>0, <2>1, <2>3, <2>4 DEF FileTypeOK
  <2>6. FileIsThere' /\ LoadedSoFar' /\ CopiedSoFar'
    BY <1>0, <2>1 DEF FileIsThere, LoadedSoFar, CopiedSoFar, Creating, Busy
  <2> QED
    BY <1>2, <2>3, <2>5, <2>6, RefusalSaysNothing DEF FileInductive
<1>4. CASE Refusal = None
  <2>1. /\ reading' = "opened" /\ answer' = Opened
        /\ cached' = [cached EXCEPT !.header = seen]
    BY <1>4 DEF Validate, End
  <2>2. cached.len # 0
    BY <1>4, NoneAssumption DEF Refusal, Errors
  <2>3. \A f \in DOMAIN Blank : seen[f] \in Nat
    <3>1. \A f \in DOMAIN Blank : seen[f] = HeaderOf(Latest)[f] \/ seen[f] = 0
      BY <1>0, <2>2, SixFields DEF LoadedSoFar
    <3> QED
      BY <1>0, <1>1, <3>1, HeaderIsNatural
  <2>4. seen \in [DOMAIN Blank -> Nat]
    BY <1>0, <2>2, <2>3, SixFields DEF LoadedSoFar
  <2>5. cached' \in [header : [DOMAIN Blank -> Nat], len : Nat]
    BY <1>0, <2>1, <2>4 DEF FileTypeOK
  <2>6. answer' \in Answers /\ answer'.ok = FALSE
    BY <2>1 DEF Answers, Opened
  <2>7. reading' \in Busy \cup {"closed", "opened", "fault"}
    BY <2>1
  <2>8. FileTypeOK'
    BY <1>0, <2>5, <2>6, <2>7 DEF FileTypeOK
  <2>9. len > 0
    BY <1>0, <2>2 DEF FileIsThere, FileTypeOK
  <2>10. FileIsThere' /\ LoadedSoFar' /\ CopiedSoFar'
    BY <1>0, <2>1, <2>9 DEF FileIsThere, LoadedSoFar, CopiedSoFar, Creating, Busy
  <2> QED
    BY <1>2, <2>6, <2>8, <2>10, RefusalSaysNothing DEF FileInductive
<1> QED
  BY <1>3, <1>4

LEMMA ReadLatestStep ==
    ASSUME ~Racing, FileInductive, ReadLatest
    PROVE  FileInductive'
<1> USE ChannelFileAssumption
<1>0. /\ FileTypeOK /\ FileSoFar /\ FileIsThere /\ reading = "opened"
      /\ (~Creating \/ Len(made) = 1)
      /\ reading' = "check" /\ seen' = <<>> /\ settled' = ~Creating /\ tried' = 0
      /\ UNCHANGED writer /\ UNCHANGED <<cached, sampled, copied, answer>>
      /\ UNCHANGED <<made, len, header, number, words, making, at>>
  BY DEF FileInductive, ReadLatest, Begin, MayUse, writer, file
<1>1. made # <<>>
  BY <1>0 DEF FileSoFar
<1>2. FileSoFar' /\ WordsSoFar' /\ Latest' = Latest
  BY <1>0, <1>1, WriterStays
<1>3. DOMAIN seen' = {} /\ seen' = [f \in DOMAIN seen' |-> seen'[f]]
  BY <1>0
<1>4. FileTypeOK'
  <2>1. settled' \in BOOLEAN
    BY <1>0 DEF Creating
  <2>2. reading' \in Busy \cup {"closed", "opened", "fault"} /\ tried' \in 0..Tries
    BY <1>0 DEF Busy
  <2> QED
    BY <1>0, <1>3, <2>1, <2>2 DEF FileTypeOK
<1>5. len > 0
  <2>1. CASE Len(made) = 1
    BY <1>0, <2>1 DEF FileIsThere
  <2>2. CASE ~Creating
    <3>1. len = 1 + 2 * Size(Latest)
      BY <1>0, <1>1, <2>2 DEF FileSoFar, Creating
    <3> QED
      BY <1>0, <1>1, <3>1, FileFacts
  <2> QED
    BY <1>0, <2>1, <2>2
<1>6. FileIsThere'
  BY <1>0, <1>1, <1>5 DEF FileIsThere, Creating
<1>7. LoadedSoFar' /\ CopiedSoFar'
  BY <1>0, <1>3 DEF LoadedSoFar, CopiedSoFar
<1>8. FrameIsWhole' /\ StaleReaderIsTold'
  BY <1>0, AnswerStays
<1> QED
  BY <1>2, <1>4, <1>6, <1>7, <1>8 DEF FileInductive

LEMMA LoadForCheckStep ==
    ASSUME ~Racing, FileInductive, LoadForCheck
    PROVE  FileInductive'
<1>0. reading = "check" /\ DOMAIN seen # All(Checked) /\ LoadedSoFar /\ FileIsThere
  BY DEF FileInductive, LoadForCheck
<1>1. made # <<>> /\ len # 0 /\ len > 0
  BY <1>0, RoomForBoth DEF FileIsThere
<1>2. /\ seen' = LoadField(Due(Checked))
      /\ UNCHANGED <<writer, reading, cached, locals, answer, settled>>
  BY <1>1 DEF LoadForCheck
<1>3. Due(Checked) \in All(Checked) \ DOMAIN seen
  BY <1>0, DueIsNew DEF LoadedSoFar
<1>4. Due(Checked) \in DOMAIN Blank \ DOMAIN seen
  BY <1>3, SixFields
<1> QED
  BY <1>0, <1>1, <1>2, <1>3, <1>4, LoadOne

LEMMA CompareGeometryStep ==
    ASSUME ~Racing, FileInductive, CompareGeometry
    PROVE  FileInductive'
<1> USE ChannelFileAssumption
<1>0. /\ FileTypeOK /\ FileSoFar /\ FileIsThere /\ LoadedSoFar /\ CopiedSoFar
      /\ reading = "check" /\ DOMAIN seen = All(Checked)
      /\ UNCHANGED <<seen, cached, sampled, copied, tried, settled>>
      /\ UNCHANGED writer
      /\ UNCHANGED <<made, len, header, number, words, making, at>>
  BY DEF FileInductive, CompareGeometry, writer, file, locals
<1>1. made # <<>> /\ len > 0
  BY <1>0 DEF FileSoFar, FileIsThere
<1>2. FileSoFar' /\ WordsSoFar' /\ Latest' = Latest
  BY <1>0, <1>1, WriterStays
<1>3. CASE SameGeometry
  <2>1. reading' = "sample" /\ answer' = answer
    BY <1>3 DEF CompareGeometry
  <2>2. FileTypeOK'
    <3>1. reading' \in Busy \cup {"closed", "opened", "fault"}
      BY <2>1 DEF Busy
    <3> QED
      BY <1>0, <2>1, <3>1 DEF FileTypeOK
  <2>3. FileIsThere' /\ LoadedSoFar'
    BY <1>0, <1>1, <2>1 DEF FileIsThere, LoadedSoFar, Creating, Busy
  <2>4. \A f \in {"x", "y", "bytes"} :
            /\ cached.header[f] = HeaderOf(Latest)[f] \/ (cached.header[f] = 0 /\ ~settled)
    BY <1>0, <1>3, SixFields DEF SameGeometry, LoadedSoFar
  <2>5. cached.header["bytes"] \in {0, Size(Latest)}
    BY <2>4, HeaderByFields
  <2>6. settled => cached.header["x"] = Latest[1] /\ cached.header["y"] = Latest[2]
    BY <2>4, HeaderByFields
  <2>7. Latest = <<Latest[1], Latest[2]>>
    BY <1>0, <1>1, FileFacts
  <2>8. settled => <<cached.header["x"], cached.header["y"]>> = Latest
    BY <2>6, <2>7
  <2>9. CopiedSoFar'
    BY <1>0, <1>2, <2>1, <2>5, <2>8 DEF CopiedSoFar
  <2>10. FrameIsWhole' /\ StaleReaderIsTold'
    BY <1>0, <2>1, AnswerStays
  <2> QED
    BY <1>2, <2>2, <2>3, <2>9, <2>10 DEF FileInductive
<1>4. CASE ~SameGeometry
  <2>1. reading' = "opened" /\ answer' = Refused("reallocated")
    BY <1>4 DEF CompareGeometry, End
  <2>2. answer' \in Answers /\ answer'.ok = FALSE
    BY <2>1 DEF Answers, Refused, Errors
  <2>3. FileTypeOK'
    <3>1. reading' \in Busy \cup {"closed", "opened", "fault"}
      BY <2>1
    <3> QED
      BY <1>0, <2>2, <3>1 DEF FileTypeOK
  <2>4. FileIsThere' /\ LoadedSoFar' /\ CopiedSoFar'
    BY <1>0, <1>1, <2>1 DEF FileIsThere, LoadedSoFar, CopiedSoFar, Creating, Busy
  <2> QED
    BY <1>2, <2>2, <2>3, <2>4, RefusalSaysNothing DEF FileInductive
<1> QED
  BY <1>3, <1>4

LEMMA SampleNumberStep ==
    ASSUME ~Racing, FileInductive, SampleNumber
    PROVE  FileInductive'
<1> USE ChannelFileAssumption
<1>0. /\ FileTypeOK /\ FileSoFar /\ FileIsThere /\ LoadedSoFar /\ CopiedSoFar
      /\ reading = "sample"
      /\ UNCHANGED settled /\ UNCHANGED writer
      /\ UNCHANGED <<made, len, header, number, words, making, at>>
  BY DEF FileInductive, SampleNumber, writer, file
<1>1. made # <<>> /\ len > 0 /\ len # 0
  BY <1>0, RoomForBoth DEF FileIsThere
<1>2. /\ sampled' = number /\ copied' = <<>> /\ reading' = "copy"
      /\ UNCHANGED <<seen, cached, tried, answer>>
  BY <1>1 DEF SampleNumber
<1>3. FileSoFar' /\ WordsSoFar' /\ Latest' = Latest
  BY <1>0, <1>1, WriterStays
<1>4. FileTypeOK'
  <2>1. reading' \in Busy \cup {"closed", "opened", "fault"} /\ copied' \in Seq(Frames \cup {None})
    BY <1>2 DEF Busy
  <2> QED
    BY <1>0, <1>2, <2>1 DEF FileTypeOK
<1>5. FileIsThere' /\ LoadedSoFar'
  BY <1>0, <1>1, <1>2 DEF FileIsThere, LoadedSoFar, Creating, Busy
<1>6. CopiedSoFar'
  <2>1. Len(copied') = 0 /\ cached.header["bytes"] \in Nat /\ sampled' <= number'
    <3>1. cached.header \in [DOMAIN Blank -> Nat] /\ number \in Nat
      BY <1>0 DEF FileTypeOK
    <3>2. number <= number'
      BY <1>0, <3>1
    <3> QED
      BY <1>0, <1>2, <3>1, <3>2, SixFields
  <2>2. Len(copied') <= cached'.header["bytes"] /\ 1..Len(copied') = {}
    BY <1>2, <2>1
  <2>3. /\ cached.header["bytes"] \in {0, Size(Latest)}
        /\ settled => <<cached.header["x"], cached.header["y"]>> = Latest
        /\ tried < Tries
    BY <1>0 DEF CopiedSoFar
  <2> QED
    BY <1>0, <1>2, <1>3, <2>1, <2>2, <2>3 DEF CopiedSoFar
<1>7. FrameIsWhole' /\ StaleReaderIsTold'
  BY <1>0, <1>2, AnswerStays
<1> QED
  BY <1>3, <1>4, <1>5, <1>6, <1>7 DEF FileInductive

LEMMA CopyWordOutStep ==
    ASSUME ~Racing, FileInductive, CopyWordOut
    PROVE  FileInductive'
<1> USE ChannelFileAssumption
<1> DEFINE s == Size(Latest)
           c == Len(copied)
           v == Start + c + 1
<1>0. /\ FileTypeOK /\ FileSoFar /\ WordsSoFar /\ FileIsThere /\ LoadedSoFar /\ CopiedSoFar
      /\ reading = "copy" /\ c < cached.header["bytes"]
      /\ UNCHANGED settled /\ UNCHANGED writer
      /\ UNCHANGED <<made, len, header, number, words, making, at>>
  BY DEF FileInductive, CopyWordOut, writer, file
<1>1. /\ made # <<>> /\ s \in Nat \ {0} /\ len = 1 + 2 * s
      /\ Len(words) = 2 * s
  BY <1>0, RoomForBoth
<1>2. /\ c \in Nat /\ number \in Nat /\ sampled \in Nat
      /\ words \in Seq(Frames \cup {None}) /\ copied \in Seq(Frames \cup {None})
  BY <1>0 DEF FileTypeOK
<1>3. cached.header["bytes"] = s /\ c + 1 \in 1..s
  <2>1. cached.header["bytes"] \in {0, s}
    BY <1>0 DEF CopiedSoFar
  <2> HIDE DEF s
  <2> QED
    BY <1>0, <1>1, <1>2, <2>1
<1>4. /\ Start = (IF sampled = 0 THEN 0 ELSE ((sampled - 1) % 2) * s)
      /\ sampled = 0 => v = (0 % 2) * s + (c + 1)
      /\ sampled > 0 => v = ((sampled - 1) % 2) * s + (c + 1)
  <2>1. Start = (IF sampled = 0 THEN 0 ELSE (sampled - 1) % 2) * s
    BY <1>3 DEF Start
  <2> HIDE DEF s
  <2>2. 0 * s = 0 /\ 0 % 2 = 0
    BY <1>1
  <2>3. sampled > 0 => ((sampled - 1) % 2) * s \in Nat
    BY <1>1, <1>2, <1>3, TwoBuffers
  <2>4. Start = (IF sampled = 0 THEN 0 ELSE ((sampled - 1) % 2) * s)
    BY <2>1, <2>2
  <2> HIDE DEF c
  <2> QED
    BY <1>1, <1>2, <2>2, <2>3, <2>4
<1> HIDE DEF s, c, v
<1>5. v \in 1..(2 * s)
  <2>1. CASE sampled = 0
    <3>1. 0 \in Nat /\ (0 % 2) * s + (c + 1) \in 1..(2 * s)
      BY <1>1, <1>3, TwoBuffers
    <3> QED
      BY <1>4, <2>1, <3>1
  <2>2. CASE sampled > 0
    BY <1>1, <1>2, <1>3, <1>4, <2>2, TwoBuffers
  <2> QED
    BY <1>2, <2>1, <2>2
<1>6. /\ copied' = Append(copied, words[v])
      /\ UNCHANGED <<reading, seen, cached, sampled, tried, answer>>
  <2>1. ~(v >= len)
    BY <1>1, <1>5
  <2> QED
    BY <2>1 DEF CopyWordOut, v, c
<1>7. /\ words[v] \in Frames \cup {None} /\ copied' \in Seq(Frames \cup {None})
      /\ Len(copied') = c + 1 /\ copied'[c + 1] = words[v]
      /\ \A i \in 1..c : copied'[i] = copied[i]
  BY <1>1, <1>2, <1>5, <1>6 DEF c
<1>8. FileTypeOK'
  BY <1>0, <1>6, <1>7 DEF FileTypeOK
<1>9. FileSoFar' /\ WordsSoFar' /\ Latest' = Latest
  BY <1>0, <1>1, WriterStays
<1>10. FileIsThere' /\ LoadedSoFar'
  BY <1>0, <1>6 DEF FileIsThere, LoadedSoFar, Creating
<1>11. CopiedSoFar'
  <2>1. ASSUME sampled = number, number > 0, NEW i \in 1..(c + 1)
        PROVE  copied'[i] = FrameOf(number)
    <3>1. CASE i = c + 1
      <4>1. words[v] = WordOf(number, c + 1)
        BY <1>4, <2>1 DEF WordOf, s
      <4>2. WordOf(number, c + 1) = FrameOf(number)
        BY <1>0, <1>3, <2>1 DEF WordsSoFar, s
      <4> QED
        BY <1>7, <3>1, <4>1, <4>2
    <3>2. CASE i # c + 1
      <4>1. i \in 1..c
        BY <1>2, <3>2
      <4>2. copied[i] = FrameOf(number)
        BY <1>0, <2>1, <4>1 DEF CopiedSoFar, c
      <4> QED
        BY <1>7, <4>1, <4>2
    <3> QED
      BY <3>1, <3>2
  <2>2. Len(copied') <= cached'.header["bytes"]
    BY <1>2, <1>3, <1>6, <1>7
  <2>3. sampled = number /\ number > 0 =>
            \A i \in 1..Len(copied') : copied'[i] = [file |-> Len(made), seq |-> number]
    BY <1>7, <2>1 DEF FrameOf
  <2>4. /\ cached.header["bytes"] \in {0, Size(Latest)}
        /\ settled => <<cached.header["x"], cached.header["y"]>> = Latest
        /\ tried < Tries /\ sampled <= number
    BY <1>0 DEF CopiedSoFar
  <2> QED
    BY <1>0, <1>6, <1>9, <2>2, <2>3, <2>4 DEF CopiedSoFar, FrameOf
<1>12. FrameIsWhole' /\ StaleReaderIsTold'
  BY <1>0, <1>6, AnswerStays
<1> QED
  BY <1>8, <1>9, <1>10, <1>11, <1>12 DEF FileInductive

LEMMA SampleAgainStep ==
    ASSUME ~Racing, FileInductive, SampleAgain
    PROVE  FileInductive'
<1> USE ChannelFileAssumption
<1>0. /\ FileTypeOK /\ FileSoFar /\ FileIsThere /\ LoadedSoFar /\ CopiedSoFar
      /\ reading = "copy" /\ Len(copied) = cached.header["bytes"]
      /\ UNCHANGED settled /\ UNCHANGED writer
      /\ UNCHANGED <<made, len, header, number, words, making, at>>
  BY DEF FileInductive, SampleAgain, writer, file
<1>1. made # <<>> /\ len > 0 /\ len # 0 /\ Len(made) \in 1..MaxFiles
  BY <1>0, RoomForBoth, FileFacts DEF FileIsThere, FileTypeOK
<1>2. FileSoFar' /\ WordsSoFar' /\ Latest' = Latest
  BY <1>0, <1>1, WriterStays
<1>3. /\ cached.header["bytes"] \in {0, Size(Latest)}
      /\ settled => <<cached.header["x"], cached.header["y"]>> = Latest
      /\ tried < Tries /\ tried \in Nat
  BY <1>0 DEF CopiedSoFar, FileTypeOK
<1>4. CASE number = sampled
  <2>1. /\ reading' = "opened" /\ answer' = [ok |-> TRUE, seq |-> sampled, values |-> copied]
        /\ UNCHANGED <<seen, cached, sampled, copied, tried>>
    BY <1>1, <1>4 DEF SampleAgain, End, locals
  <2>2. answer' \in [ok : {TRUE}, seq : 0..MaxNumber, values : Seq(Frames \cup {None})]
    BY <1>0, <2>1 DEF FileTypeOK
  <2>3. FileTypeOK'
    <3>1. reading' \in Busy \cup {"closed", "opened", "fault"}
      BY <2>1
    <3>2. answer' \in Answers
      BY <2>2 DEF Answers
    <3> QED
      BY <1>0, <2>1, <3>1, <3>2 DEF FileTypeOK
  <2>4. FileIsThere' /\ LoadedSoFar' /\ CopiedSoFar'
    BY <1>0, <1>1, <2>1 DEF FileIsThere, LoadedSoFar, CopiedSoFar, Creating, Busy
  <2>5. FrameIsWhole'
    <3> SUFFICES ASSUME sampled > 0, copied # <<>>
                 PROVE  \E k \in 1..Len(made) :
                           /\ Size(made[k]) = Len(copied)
                           /\ \A i \in DOMAIN copied :
                                  copied[i] = [file |-> k, seq |-> sampled]
      BY <1>0, <2>1 DEF FrameIsWhole
    <3>1. Len(copied) # 0 /\ DOMAIN copied = 1..Len(copied)
      BY <1>0 DEF FileTypeOK
    <3>2. Size(Latest) = Len(copied)
      BY <1>0, <1>3, <3>1
    <3>3. \A i \in DOMAIN copied : copied[i] = FrameOf(number)
      BY <1>0, <1>4, <3>1 DEF CopiedSoFar
    <3>4. Len(made) \in 1..Len(made)
      BY <1>1
    <3> QED
      BY <1>4, <3>2, <3>3, <3>4 DEF FrameOf, Latest
  <2>6. StaleReaderIsTold'
    BY <1>0, <1>2, <1>3, <2>1 DEF StaleReaderIsTold
  <2> QED
    BY <1>2, <2>3, <2>4, <2>5, <2>6 DEF FileInductive
<1>5. CASE number # sampled
  <2>1. /\ tried' = tried + 1 /\ UNCHANGED <<seen, cached, sampled, copied>>
        /\ IF tried' = Tries THEN reading' = "opened" /\ answer' = Refused("torn")
           ELSE reading' = "sample" /\ answer' = answer
    BY <1>1, <1>5 DEF SampleAgain, End
  <2>2. tried' \in 0..Tries /\ (tried' # Tries => tried' < Tries)
    BY <1>3, <2>1
  <2>3. Refused("torn") \in Answers /\ Refused("torn").ok = FALSE
    BY DEF Answers, Refused, Errors
  <2>4. FileTypeOK'
    <3>1. reading' \in Busy \cup {"closed", "opened", "fault"}
      BY <2>1 DEF Busy
    <3>2. answer' \in Answers
      BY <1>0, <2>1, <2>3 DEF FileTypeOK
    <3> QED
      BY <1>0, <2>1, <2>2, <3>1, <3>2 DEF FileTypeOK
  <2>5. FileIsThere' /\ LoadedSoFar'
    BY <1>0, <1>1, <2>1 DEF FileIsThere, LoadedSoFar, Creating, Busy
  <2>6. CopiedSoFar'
    BY <1>0, <1>2, <1>3, <2>1, <2>2 DEF CopiedSoFar
  <2>7. FrameIsWhole' /\ StaleReaderIsTold'
    <3>1. CASE tried' = Tries
      BY <2>1, <2>3, <3>1, RefusalSaysNothing
    <3>2. CASE tried' # Tries
      BY <1>0, <2>1, <3>2, AnswerStays
    <3> QED
      BY <3>1, <3>2
  <2> QED
    BY <1>2, <2>4, <2>5, <2>6, <2>7 DEF FileInductive
<1> QED
  BY <1>4, <1>5

-----------------------------------------------------------------------------
(***************************************************************************)
(* The theorems about the file.                                            *)
(***************************************************************************)
LEMMA FileInitInductive ==
    FileInit => FileInductive
<1> SUFFICES ASSUME FileInit
             PROVE  FileInductive
  OBVIOUS
<1> USE ChannelFileAssumption
<1>1. /\ made = <<>> /\ len = 0 /\ header = Blank /\ number = 0 /\ words = <<>>
      /\ making = "idle" /\ at = 1 /\ reading = "closed" /\ seen = <<>>
      /\ cached = [header |-> Blank, len |-> 0]
      /\ sampled = 0 /\ copied = <<>> /\ tried = 0 /\ answer = Opened
      /\ settled = FALSE
  BY DEF FileInit
<1>2. DOMAIN seen = {} /\ seen = [f \in DOMAIN seen |-> seen[f]]
  BY <1>1
<1>3. settled \in BOOLEAN
  BY <1>1
<1>4. answer \in Answers /\ answer.ok = FALSE
  BY <1>1 DEF Answers, Opened
<1>5. cached \in [header : [DOMAIN Blank -> Nat], len : Nat]
  BY <1>1, SixFields
<1>6. FileTypeOK
  BY <1>1, <1>2, <1>3, <1>4, <1>5, SixFields DEF FileTypeOK
<1>7. FileSoFar /\ WordsSoFar /\ FileIsThere
  BY <1>1 DEF FileSoFar, WordsSoFar, FileIsThere, Busy
<1>8. LoadedSoFar /\ CopiedSoFar
  BY <1>1, <1>2 DEF LoadedSoFar, CopiedSoFar
<1>9. FrameIsWhole /\ StaleReaderIsTold
  BY <1>4 DEF FrameIsWhole, StaleReaderIsTold
<1> QED
  BY <1>6, <1>7, <1>8, <1>9 DEF FileInductive

LEMMA FileStutter ==
    ASSUME FileInductive, UNCHANGED fileVars
    PROVE  FileInductive'
<1>1. /\ UNCHANGED <<made, len, header, number, words, making, at>>
      /\ UNCHANGED <<reading, seen, cached, sampled, copied, tried, answer, settled>>
      /\ Latest' = Latest
  BY DEF fileVars, writer, file, reader, locals, Latest
<1>2. FileTypeOK'
  BY <1>1 DEF FileInductive, FileTypeOK
<1>3. FileSoFar' /\ WordsSoFar'
  BY <1>1 DEF FileInductive, FileSoFar, WordsSoFar, WordOf, FrameOf, Creating
<1>4. FileIsThere' /\ LoadedSoFar'
  BY <1>1 DEF FileInductive, FileIsThere, LoadedSoFar, Creating
<1>5. CopiedSoFar'
  BY <1>1 DEF FileInductive, CopiedSoFar, FrameOf
<1>6. FrameIsWhole' /\ StaleReaderIsTold'
  BY <1>1 DEF FileInductive, FrameIsWhole, StaleReaderIsTold
<1> QED
  BY <1>2, <1>3, <1>4, <1>5, <1>6 DEF FileInductive

LEMMA FileStep ==
    ~Racing /\ FileInductive /\ [FileNext]_fileVars => FileInductive'
<1> SUFFICES ASSUME ~Racing, FileInductive, [FileNext]_fileVars
             PROVE  FileInductive'
  OBVIOUS
<1>1. CASE \E d \in Dims : Truncate(d)
  BY <1>1, TruncateStep
<1>2. CASE SetLen
  BY <1>2, SetLenStep
<1>3. CASE StoreField
  BY <1>3, StoreFieldStep
<1>4. CASE BeginFrame
  BY <1>4, BeginFrameStep
<1>5. CASE CopyWordIn
  BY <1>5, CopyWordInStep
<1>6. CASE StoreNumber
  BY <1>6, StoreNumberStep
<1>7. CASE Open
  BY <1>7, OpenStep
<1>8. CASE LoadForOpen
  BY <1>8, LoadForOpenStep
<1>9. CASE Validate
  BY <1>9, ValidateStep
<1>10. CASE ReadLatest
  BY <1>10, ReadLatestStep
<1>11. CASE LoadForCheck
  BY <1>11, LoadForCheckStep
<1>12. CASE CompareGeometry
  BY <1>12, CompareGeometryStep
<1>13. CASE SampleNumber
  BY <1>13, SampleNumberStep
<1>14. CASE CopyWordOut
  BY <1>14, CopyWordOutStep
<1>15. CASE SampleAgain
  BY <1>15, SampleAgainStep
<1>16. CASE UNCHANGED fileVars
  BY <1>16, FileStutter
<1> QED
  BY <1>1, <1>2, <1>3, <1>4, <1>5, <1>6, <1>7, <1>8, <1>9, <1>10, <1>11, <1>12,
     <1>13, <1>14, <1>15, <1>16 DEF FileNext

LEMMA FileInvariant ==
    ~Racing => (FileSpec => []FileInductive)
<1> SUFFICES ASSUME ~Racing
             PROVE  FileSpec => []FileInductive
  OBVIOUS
<1>1. FileInductive /\ [FileNext]_fileVars => FileInductive'
  BY FileStep
<1> QED
  BY <1>1, FileInitInductive, PTL DEF FileSpec

\* While no client races the making of the file, what a read returns under the
\* number of a publish is one publish of one file, whatever the resolutions,
\* the number of files, of frames and of tries.
THEOREM ReadsOneFrame ==
    ~Racing => (FileSpec => []FrameIsWhole)
<1> SUFFICES ASSUME ~Racing
             PROVE  FileSpec => []FrameIsWhole
  OBVIOUS
<1>1. FileInductive => FrameIsWhole
  BY DEF FileInductive
<1> QED
  BY <1>1, FileInvariant, PTL

\* Nor does a reader then leave its mapping, and one that believes in an
\* earlier file is told instead of being given a frame.
THEOREM RemakingIsSafe ==
    ~Racing => (FileSpec => []RemadeFileIsSafe)
<1> SUFFICES ASSUME ~Racing
             PROVE  FileSpec => []RemadeFileIsSafe
  OBVIOUS
<1>1. FileInductive => RemadeFileIsSafe
  BY DEF FileInductive, RemadeFileIsSafe, FileIsThere, NeverFaults
<1> QED
  BY <1>1, FileInvariant, PTL

\* And a call of open that begins once the file is complete accepts it, with
\* the file's own header.
LEMMA SettledOpenSucceeds ==
    ASSUME ~Racing, FileInductive, [FileNext]_fileVars,
           reading = "open", settled, reading' # "open"
    PROVE  reading' = "opened" /\ cached'.header = HeaderOf(Latest)
<1> USE ChannelFileAssumption
<1>0. /\ FileTypeOK /\ FileSoFar /\ FileIsThere /\ LoadedSoFar
  BY DEF FileInductive
<1>1. /\ made # <<>> /\ ~Creating /\ cached.len = len
      /\ Size(Latest) \in Nat \ {0} /\ Latest[1] \in Nat /\ Latest[2] \in Nat
  BY <1>0, FileFacts DEF FileIsThere
<1>2. len = 1 + 2 * Size(Latest)
  BY <1>0, <1>1 DEF FileSoFar, Creating
<1>3. len > 0 /\ len # 0
  BY <1>1, <1>2
<1>4. Validate
  <2>1. ~LoadForOpen
    BY <1>3 DEF LoadForOpen
  <2>2. \A d \in Dims : ~Truncate(d)
    BY DEF Truncate, Busy
  <2>3. ~(SetLen \/ StoreField \/ BeginFrame \/ CopyWordIn \/ StoreNumber)
    BY DEF SetLen, StoreField, BeginFrame, CopyWordIn, StoreNumber, reader
  <2>4. ~(Open \/ ReadLatest \/ LoadForCheck \/ CompareGeometry)
    BY DEF Open, ReadLatest, LoadForCheck, CompareGeometry
  <2>5. ~(SampleNumber \/ CopyWordOut \/ SampleAgain)
    BY DEF SampleNumber, CopyWordOut, SampleAgain
  <2>6. ~(UNCHANGED fileVars)
    BY DEF fileVars, reader
  <2> QED
    BY <2>1, <2>2, <2>3, <2>4, <2>5, <2>6 DEF FileNext
<1>5. DOMAIN seen = DOMAIN Blank
  BY <1>1, <1>3, <1>4, SixFields DEF Validate
<1>6. \A f \in DOMAIN Blank : seen[f] = HeaderOf(Latest)[f]
  BY <1>0, <1>5 DEF LoadedSoFar
<1>7. seen = HeaderOf(Latest)
  BY <1>0, <1>5, <1>6, SameHeader DEF LoadedSoFar
<1>8. Refusal = None
  <2>1. /\ seen["magic"] = 1 /\ seen["version"] = 1
        /\ seen["bytes"] = Size(Latest) /\ seen["x"] = Latest[1] /\ seen["y"] = Latest[2]
        /\ seen["channels"] = 1
    BY <1>7, HeaderByFields
  <2>2. Latest[1] * Latest[2] * 1 = Size(Latest)
    BY <1>1 DEF Size
  <2>3. ~(cached.len < 1 + 2 * seen["bytes"])
    BY <1>1, <1>2, <2>1
  <2> QED
    BY <1>1, <1>3, <2>1, <2>2, <2>3 DEF Refusal
<1>9. reading' = "opened" /\ cached' = [cached EXCEPT !.header = seen]
  BY <1>4, <1>8 DEF Validate, End
<1> QED
  BY <1>0, <1>7, <1>9 DEF FileTypeOK

THEOREM OpenSucceeds ==
    ~Racing => (FileSpec => CompleteFileOpens)
<1> SUFFICES ASSUME ~Racing
             PROVE  FileSpec => CompleteFileOpens
  OBVIOUS
<1>1. FileInductive /\ [FileNext]_fileVars =>
          [reading = "open" /\ settled /\ reading' # "open" =>
              reading' = "opened" /\ cached'.header = HeaderOf(Latest)]_fileVars
  BY SettledOpenSucceeds
<1> QED
  BY <1>1, FileInvariant, PTL DEF FileSpec, CompleteFileOpens
=============================================================================
