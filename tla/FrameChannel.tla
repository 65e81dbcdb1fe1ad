---------------------------- MODULE FrameChannel ----------------------------
(***************************************************************************)
(* elements-ipc's frame channel: two buffers and a sequence number in a    *)
(* memory-mapped file, one writer and any number of readers, no lock.      *)
(*                                                                         *)
(* Only the sequence number is accessed atomically; the buffers are copied *)
(* word by word, in any order.  The k-th published frame has the value k   *)
(* in each of its words, so a mixture is recognisable; a new file is all   *)
(* zeros.  The file is created once here and never resized.                *)
(*                                                                         *)
(* The module docs call the buffer copies a data race.  LoadsInOrder says  *)
(* which outcomes of it the platform has: if TRUE, each thread's accesses  *)
(* take effect in program order (as on x86); if FALSE, plain loads of the  *)
(* copy may be satisfied after the acquire load that follows them (as on   *)
(* ARM, where an acquire load does not hold back earlier loads).           *)
(***************************************************************************)
EXTENDS Integers, FiniteSets

CONSTANTS
    Readers,        \* the FrameReaders of the file
    Words,          \* the values of one frame
    Attempts,       \* the tries of one read_latest: 3 in the code
    LoadsInOrder,   \* the platform's memory ordering, see above
    MaxSeq,         \* bound: frames published in a behaviour
    Nothing         \* no value, no reply

ASSUME FrameChannelAssumption ==
    /\ Attempts \in Nat /\ Attempts > 0
    /\ LoadsInOrder \in BOOLEAN
    /\ MaxSeq \in Nat
    /\ Nothing \notin Nat

VARIABLES
    seq,        \* the sequence number in the header
    buffer,     \* the two buffers
    unwritten,  \* the words publish has still to copy in
    wpc,        \* where the writer is
    rpc,        \* where each reader is
    before,     \* each reader's local of that name
    after,      \* each reader's local of that name, or Nothing
    out,        \* the copy each reader is making
    unread,     \* the words each reader has still to copy
    attempt,    \* the failed tries of each reader's read
    asked,      \* the sequence number when each read was called, or Nothing
    reply       \* what each reader's last read_latest returned, or Nothing

writerVars == <<seq, buffer, unwritten, wpc>>
readerVars == <<rpc, before, after, out, unread, attempt, asked, reply>>
vars == <<writerVars, readerVars>>

Zeros == [w \in Words |-> 0]

Frame(k, values) == [ok |-> TRUE, seq |-> k, values |-> values]

Torn == [ok |-> FALSE]

Numbers == 0..MaxSeq

Replies == [ok : {TRUE}, seq : Numbers, values : [Words -> Numbers]] \cup {Torn, Nothing}

TypeOK ==
    /\ seq \in Numbers
    /\ buffer \in [{0, 1} -> [Words -> Numbers]]
    /\ unwritten \in SUBSET Words
    /\ wpc \in {"idle", "copy"}
    /\ rpc \in [Readers -> {"idle", "sample", "copy"}]
    /\ before \in [Readers -> Numbers]
    /\ after \in [Readers -> Numbers \cup {Nothing}]
    /\ out \in [Readers -> [Words -> Numbers]]
    /\ unread \in [Readers -> SUBSET Words]
    /\ attempt \in [Readers -> 0..Attempts]
    /\ asked \in [Readers -> Numbers \cup {Nothing}]
    /\ reply \in [Readers -> Replies]

Init ==
    /\ seq = 0
    /\ buffer = [i \in {0, 1} |-> Zeros]
    /\ unwritten = {}
    /\ wpc = "idle"
    /\ rpc = [r \in Readers |-> "idle"]
    /\ before = [r \in Readers |-> 0]
    /\ after = [r \in Readers |-> Nothing]
    /\ out = [r \in Readers |-> Zeros]
    /\ unread = [r \in Readers |-> {}]
    /\ attempt = [r \in Readers |-> 0]
    /\ asked = [r \in Readers |-> Nothing]
    /\ reply = [r \in Readers |-> Nothing]

-----------------------------------------------------------------------------
(***************************************************************************)
(* FrameWriter::publish.  (A slice of the wrong length is refused before   *)
(* anything is touched.)                                                   *)
(***************************************************************************)
\* Faulty variant of WriteIndex: the buffer that readers are directed to.
WriteIndexLatest == IF seq = 0 THEN 0 ELSE (seq - 1) % 2

WriteIndex == seq % 2

BeginPublish ==
    /\ wpc = "idle"
    /\ seq < MaxSeq
    /\ wpc' = "copy"
    /\ unwritten' = Words
    /\ UNCHANGED <<seq, buffer, readerVars>>

CopyIn(w) ==
    /\ wpc = "copy"
    /\ w \in unwritten
    /\ buffer' = [buffer EXCEPT ![WriteIndex][w] = seq + 1]
    /\ unwritten' = unwritten \ {w}
    /\ UNCHANGED <<seq, wpc, readerVars>>

\* Faulty variant of MayStoreSeq: the number is stored before the copy ends.
MayStoreSeqEarly == TRUE

\* The release store: the words copied in are visible before the number.
MayStoreSeq == unwritten = {}

StoreSeq ==
    /\ wpc = "copy"
    /\ MayStoreSeq
    /\ seq' = seq + 1
    /\ unwritten' = {}
    /\ wpc' = "idle"
    /\ UNCHANGED <<buffer, readerVars>>

-----------------------------------------------------------------------------
(***************************************************************************)
(* FrameReader::read_latest.                                               *)
(***************************************************************************)
\* Faulty variant of BeginRead: the tries of the last read still count.
BeginReadTired(r) ==
    /\ rpc[r] = "idle"
    /\ rpc' = [rpc EXCEPT ![r] = "sample"]
    /\ asked' = [asked EXCEPT ![r] = seq]
    /\ reply' = [reply EXCEPT ![r] = Nothing]
    /\ UNCHANGED <<before, after, out, unread, attempt, writerVars>>

BeginRead(r) ==
    /\ rpc[r] = "idle"
    /\ rpc' = [rpc EXCEPT ![r] = "sample"]
    /\ attempt' = [attempt EXCEPT ![r] = 0]
    /\ asked' = [asked EXCEPT ![r] = seq]
    /\ reply' = [reply EXCEPT ![r] = Nothing]
    /\ UNCHANGED <<before, after, out, unread, writerVars>>

\* Faulty variant of Sample: wait for the first frame instead of reading zeros.
SamplePublished(r) ==
    /\ rpc[r] = "sample"
    /\ seq > 0
    /\ before' = [before EXCEPT ![r] = seq]
    /\ out' = [out EXCEPT ![r] = Zeros]
    /\ unread' = [unread EXCEPT ![r] = Words]
    /\ rpc' = [rpc EXCEPT ![r] = "copy"]
    /\ UNCHANGED <<after, attempt, asked, reply, writerVars>>

Sample(r) ==
    /\ rpc[r] = "sample"
    /\ before' = [before EXCEPT ![r] = seq]
    /\ out' = [out EXCEPT ![r] = Zeros]
    /\ unread' = [unread EXCEPT ![r] = Words]
    /\ rpc' = [rpc EXCEPT ![r] = "copy"]
    /\ UNCHANGED <<after, attempt, asked, reply, writerVars>>

ReadIndex(r) == IF before[r] = 0 THEN 0 ELSE (before[r] - 1) % 2

CopyOut(r, w) ==
    /\ rpc[r] = "copy"
    /\ w \in unread[r]
    /\ out' = [out EXCEPT ![r][w] = buffer[ReadIndex(r)][w]]
    /\ unread' = [unread EXCEPT ![r] = @ \ {w}]
    /\ UNCHANGED <<rpc, before, after, attempt, asked, reply, writerVars>>

\* The acquire load after the copy.
Resample(r) ==
    /\ rpc[r] = "copy"
    /\ after[r] = Nothing
    /\ LoadsInOrder => unread[r] = {}
    /\ after' = [after EXCEPT ![r] = seq]
    /\ UNCHANGED <<rpc, before, out, unread, attempt, asked, reply, writerVars>>

Return(r, answer) ==
    /\ reply' = [reply EXCEPT ![r] = answer]
    /\ asked' = [asked EXCEPT ![r] = Nothing]
    /\ rpc' = [rpc EXCEPT ![r] = "idle"]

Undisturbed(r) == after[r] = before[r]

\* Both samples are taken and the copy is complete: compare the samples.
Compare(r) ==
    /\ rpc[r] = "copy"
    /\ unread[r] = {}
    /\ after[r] # Nothing
    /\ IF Undisturbed(r)
         THEN Return(r, Frame(before[r], out[r])) /\ UNCHANGED attempt
         ELSE /\ attempt' = [attempt EXCEPT ![r] = @ + 1]
              /\ IF attempt'[r] < Attempts
                   THEN rpc' = [rpc EXCEPT ![r] = "sample"] /\ UNCHANGED <<asked, reply>>
                   ELSE Return(r, Torn)
    /\ after' = [after EXCEPT ![r] = Nothing]
    /\ UNCHANGED <<before, out, unread, writerVars>>

-----------------------------------------------------------------------------
Publish == BeginPublish \/ (\E w \in Words : CopyIn(w)) \/ StoreSeq

ReadOn(r) == Sample(r) \/ (\E w \in Words : CopyOut(r, w)) \/ Resample(r) \/ Compare(r)

Next ==
    \/ Publish
    \/ \E r \in Readers : BeginRead(r) \/ ReadOn(r)

\* A reader in read_latest is a running thread; nothing is assumed of the
\* writer, which may stop at any point.
Spec == Init /\ [][Next]_vars /\ \A r \in Readers : WF_vars(ReadOn(r))

-----------------------------------------------------------------------------
(***************************************************************************)
(* Correctness.                                                            *)
(***************************************************************************)
\* "No reader ever returns a partially-written value to its caller as if it
\* were complete": a frame returned under the number of a publish is exactly
\* that publish, in every word.
NoTornFrame ==
    \A r \in Readers :
        reply[r] # Nothing /\ reply[r].ok =>
            (reply[r].seq > 0 => reply[r].values = [w \in Words |-> reply[r].seq])

\* "Returns sequence 0 and zeros if nothing has been published yet."
ZerosBeforeTheFirstFrame ==
    \A r \in Readers :
        reply[r] # Nothing /\ reply[r].ok =>
            (reply[r].seq = 0 => reply[r].values = Zeros)

\* read_latest returns, even if the writer publishes at every moment or stops
\* half-way through a frame.
ReadReturns ==
    \A r \in Readers : rpc[r] # "idle" ~> rpc[r] = "idle"

(***************************************************************************)
(* The promise: an atomic register.                                        *)
(***************************************************************************)
Register == INSTANCE FrameRegister WITH latest <- seq, Values <- Numbers

\* Every read returns a frame that was the latest one at some moment of the
\* read, never an older one, and reports Torn only if the writer published at
\* least once per attempt.
ImplementsRegister == Register!Spec
=============================================================================
