----------------------------- MODULE GpuErrors -----------------------------
(***************************************************************************)
(* How a GPU fault becomes the error of a call: GpuContext::scoped, the    *)
(* handler of errors raised outside any scope, the device-lost callback    *)
(* and GpuContext::wait, with the three users that keep what they made:    *)
(* PipelineCache::get_or_create, FieldPool::acquire and Field::read_back.  *)
(*                                                                         *)
(* Every call is a sequence of steps.  A step inside a scope first runs    *)
(* its closure, which may raise any errors, and then resolves them; the    *)
(* device may be lost at any moment, and between calls an error may be     *)
(* raised that belongs to none of them.                                    *)
(***************************************************************************)
EXTENDS Integers, Sequences

CONSTANTS
    Keys,           \* the pipelines' keys
    Sources,        \* shader sources
    MaxTextures,    \* bound: textures a pool tries to create
    None            \* no pipeline, no error

VARIABLES
    lost,       \* the device-lost callback has run
    stray,      \* the uncaptured error held for the next scoped call: its
                \* kind and the call that raised it, or None
    captured,   \* the errors in the scopes of the running scoped call
    cache,      \* each key's pipeline, by its source
    pool,       \* next_generation, and the generations free and handed out
    call,       \* the call in progress, or the last one: op, key, source, step
    phase,      \* idle, or at the run or the resolve half of the step
    answer,     \* how the last call ended, or None
    owed,       \* errors raised and not yet taken up by a report
    broken,     \* the keys and generations made while an error was raised
    created     \* textures the device really created

context == <<lost, stray, captured>>
kept == <<cache, pool>>
history == <<owed, broken, created>>
gpuVars == <<context, kept, call, phase, answer, history>>

ErrorKinds == {"validation", "internal", "out_of_memory"}
Results == ErrorKinds \cup {"ok", "device_lost"}

severity == [out_of_memory |-> 3, internal |-> 2, validation |-> 1]

Steps == [compile |-> <<"create">>, acquire |-> <<"create">>, submit |-> <<"submit">>,
          read_back |-> <<"stage", "map", "wait", "unmap">>]
Operations == DOMAIN Steps

Calls == [op : Operations, key : Keys, source : Sources, step : 1..4]
Textures == 0..(MaxTextures - 1)

\* An error of the stray slot, and the answer of a call.
Strays == [kind : ErrorKinds, from : Operations \cup {None}]
Answers == [result : Results, source : Sources \cup {None}]

ASSUME GpuErrorsAssumption ==
    /\ MaxTextures \in Nat
    /\ None \notin Sources \cup ErrorKinds \cup Strays \cup Answers
    /\ Keys \cap Textures = {}

GpuTypeOK ==
    /\ lost \in BOOLEAN
    /\ stray \in Strays \cup {None}
    /\ captured \in SUBSET ErrorKinds
    /\ cache \in [Keys -> Sources \cup {None}]
    /\ pool \in [next : 0..MaxTextures, free : SUBSET Textures, handed : SUBSET Textures]
    /\ pool.free \cap pool.handed = {}
    /\ call \in Calls
    /\ phase \in {"idle", "run", "resolve"}
    /\ answer \in Answers \cup {None}
    /\ owed \in SUBSET ErrorKinds
    /\ broken \in SUBSET (Keys \cup Textures)
    /\ created \in 0..MaxTextures

GpuInit ==
    /\ lost = FALSE /\ stray = None /\ captured = {}
    /\ cache = [k \in Keys |-> None]
    /\ pool = [next |-> 0, free |-> {}, handed |-> {}]
    /\ call \in [op : {"submit"}, key : Keys, source : Sources, step : {1}]
    /\ phase = "idle" /\ answer = None
    /\ owed = {} /\ broken = {} /\ created = 0

-----------------------------------------------------------------------------
(***************************************************************************)
(* The handlers.                                                           *)
(***************************************************************************)
\* Faulty variant of KeepMostSevere: the first error stays.
KeepFirst(new) == IF stray = None THEN new ELSE stray

KeepMostSevere(new) ==
    IF stray = None \/ severity[new.kind] > severity[stray.kind] THEN new ELSE stray

\* The most severe kind in the scopes: one each, popped in this order.
InScope ==
    IF captured = {} THEN None
    ELSE CHOOSE k \in captured : \A j \in captured : severity[k] >= severity[j]

OutOfMemory ==
    \/ "out_of_memory" \in captured
    \/ stray # None /\ stray.kind = "out_of_memory"

\* Faulty variant of ResolveErrors: what the internal scope caught is dropped.
ResolveErrorsQuiet ==
    IF lost THEN "device_lost"
    ELSE IF OutOfMemory THEN "out_of_memory"
    ELSE IF InScope = "validation" THEN InScope
    ELSE IF stray # None THEN stray.kind
    ELSE "ok"

ResolveErrors ==
    IF lost THEN "device_lost"
    ELSE IF OutOfMemory THEN "out_of_memory"
    ELSE IF InScope # None THEN InScope
    ELSE IF stray # None THEN stray.kind
    ELSE "ok"

Lose ==
    /\ lost' = TRUE
    /\ UNCHANGED <<stray, captured, kept, call, phase, answer, history>>

\* An error raised while no scope is open, by something other than the call.
RaiseStray(kind) ==
    /\ phase \in {"idle", "run"}
    /\ stray' = KeepMostSevere([kind |-> kind, from |-> None])
    /\ owed' = owed \cup {kind}
    /\ UNCHANGED <<lost, captured, kept, call, phase, answer, broken, created>>

-----------------------------------------------------------------------------
(***************************************************************************)
(* Calls begin.                                                            *)
(***************************************************************************)
Begin(op, key, source) ==
    /\ phase = "idle"
    /\ call' = [op |-> op, key |-> key, source |-> source, step |-> 1]

Answer(result, source) == answer' = [result |-> result, source |-> source]

\* Faulty variant of CacheHit: the key alone decides.
CacheHitByKey(key, source) == Answer("ok", cache[key])

CacheHit(key, source) ==
    IF cache[key] = source THEN Answer("ok", cache[key]) ELSE Answer("validation", None)

GetOrCreate(key, source) ==
    /\ Begin("compile", key, source)
    /\ IF cache[key] = None THEN phase' = "run" /\ UNCHANGED answer
       ELSE CacheHit(key, source) /\ UNCHANGED phase
    /\ UNCHANGED <<context, kept, history>>

\* Faulty variant of Reuse: the texture is not taken off the free list.
ReuseStillFree(t) ==
    /\ Begin("acquire", call.key, call.source)
    /\ t \in pool.free
    /\ pool' = [pool EXCEPT !.handed = @ \cup {t}]
    /\ Answer("ok", None)
    /\ UNCHANGED <<context, cache, phase, history>>

Reuse(t) ==
    /\ Begin("acquire", call.key, call.source)
    /\ t \in pool.free
    /\ pool' = [pool EXCEPT !.free = @ \ {t}, !.handed = @ \cup {t}]
    /\ Answer("ok", None)
    /\ UNCHANGED <<context, cache, phase, history>>

\* The generation is counted before the texture is created.
Allocate ==
    /\ Begin("acquire", call.key, call.source)
    /\ pool.free = {} /\ pool.next < MaxTextures
    /\ pool' = [pool EXCEPT !.next = @ + 1]
    /\ phase' = "run"
    /\ UNCHANGED <<context, cache, answer, history>>

Release(t) ==
    /\ phase = "idle" /\ t \in pool.handed
    /\ pool' = [pool EXCEPT !.free = @ \cup {t}, !.handed = @ \ {t}]
    /\ UNCHANGED <<context, cache, call, phase, answer, history>>

Clear ==
    /\ phase = "idle"
    /\ pool' = [pool EXCEPT !.free = {}]
    /\ UNCHANGED <<context, cache, call, phase, answer, history>>

Use(op) ==
    /\ op \in {"submit", "read_back"} /\ pool.handed # {}
    /\ Begin(op, call.key, call.source)
    /\ phase' = "run"
    /\ UNCHANGED <<context, kept, answer, history>>

-----------------------------------------------------------------------------
(***************************************************************************)
(* The steps of a call.                                                    *)
(***************************************************************************)
Step == Steps[call.op][call.step]

\* Faulty variant of Scoped: map_async is called outside any scope.
ScopedSome == Step \in {"create", "submit", "stage", "unmap"}

Scoped == Step \in {"create", "submit", "stage", "map", "unmap"}

\* What the call is making.
Object ==
    CASE call.op = "compile" -> {call.key}
      [] call.op = "acquire" -> {pool.next - 1}
      [] OTHER -> {}

\* What the closure makes.
Makes(errors) ==
    /\ broken' = IF errors = {} THEN broken \ Object ELSE broken \cup Object
    /\ created' = IF call.op = "acquire" /\ errors = {} THEN created + 1 ELSE created

\* The closure of scoped, with what it raises in the scopes around it.
RunScoped ==
    /\ phase = "run" /\ Step # "wait"
    /\ \E errors \in SUBSET ErrorKinds :
        /\ owed' = owed \cup errors
        /\ Makes(errors)
        /\ IF Scoped THEN captured' = errors /\ phase' = "resolve" /\ UNCHANGED <<stray, call>>
           ELSE /\ \/ errors = {} /\ UNCHANGED stray
                   \/ \E k \in errors : stray' = [kind |-> k, from |-> call.op]
                /\ call' = [call EXCEPT !.step = @ + 1]
                /\ UNCHANGED <<captured, phase>>
    /\ UNCHANGED <<lost, kept, answer>>

\* Faulty variant of TakeStray: the slot is read and not emptied.
TakeStrayCopy == stray' = stray

TakeStray == stray' = None

\* The call returns what it made.
Finish ==
    /\ phase' = "idle"
    /\ Answer("ok", IF call.op = "compile" THEN call.source ELSE None)
    /\ cache' = IF call.op = "compile" THEN [cache EXCEPT ![call.key] = call.source] ELSE cache
    /\ pool' = IF call.op = "acquire" THEN [pool EXCEPT !.handed = @ \cup {pool.next - 1}]
               ELSE pool

Fail(result) ==
    /\ phase' = "idle"
    /\ Answer(result, None)
    /\ UNCHANGED kept

Resolve ==
    /\ phase = "resolve"
    /\ IF ResolveErrors # "ok" THEN Fail(ResolveErrors) /\ UNCHANGED call
       ELSE IF call.step = Len(Steps[call.op]) THEN Finish /\ UNCHANGED call
       ELSE phase' = "run" /\ call' = [call EXCEPT !.step = @ + 1] /\ UNCHANGED <<answer, kept>>
    /\ captured' = {} /\ owed' = {} /\ TakeStray
    /\ UNCHANGED <<lost, broken, created>>

\* poll returns, fails or panics; both failures are reported as a lost device.
\* If it returns, the map callback has run in it, and what it was given is
\* received: a map can fail here too, on a lost device as on a good one.
Wait ==
    /\ phase = "run" /\ Step = "wait"
    /\ \/ \E result \in {"device_lost", "validation"} : Fail(result) /\ UNCHANGED call
       \/ call' = [call EXCEPT !.step = @ + 1] /\ UNCHANGED <<phase, answer, kept>>
    /\ UNCHANGED <<context, history>>

GpuNext ==
    \/ Lose
    \/ \E k \in ErrorKinds : RaiseStray(k)
    \/ \E k \in Keys, s \in Sources : GetOrCreate(k, s)
    \/ \E t \in Textures : Reuse(t) \/ Release(t)
    \/ Allocate \/ Clear
    \/ \E op \in Operations : Use(op)
    \/ RunScoped \/ Resolve \/ Wait

GpuSpec == GpuInit /\ [][GpuNext]_gpuVars

-----------------------------------------------------------------------------
(***************************************************************************)
(* Correctness.                                                            *)
(***************************************************************************)
\* Nothing made while an error was raised is kept: no such pipeline is in the
\* cache for the next call to hit, no such texture is in the pool or with a
\* caller.  What scoped reports is all that get_or_create and acquire look at.
NothingBrokenIsKept ==
    /\ \A k \in Keys : cache[k] # None => k \notin broken
    /\ (pool.free \cup pool.handed) \cap broken = {}

\* "A cache hit cannot silently return the wrong pipeline": get_or_create
\* answers with a pipeline of the source it was asked for, or with an error.
PipelineIsOfItsSource ==
    phase = "idle" /\ call.op = "compile" /\ answer # None /\ answer.result = "ok" =>
        answer.source = call.source

\* What a later call is given from the cache or the pool is what it asked for.
KeptThingsAreSound == GpuTypeOK /\ NothingBrokenIsKept /\ PipelineIsOfItsSource

\* A report accounts for everything raised since the one before it: errors
\* never pass for success, and out of memory, which tells the daemon to free
\* memory, is never hidden by anything but the loss of the device.
NothingIsHidden ==
    [][phase = "resolve" /\ owed # {} =>
          /\ ResolveErrors # "ok"
          /\ "out_of_memory" \in owed => ResolveErrors \in {"out_of_memory", "device_lost"}]_gpuVars

\* "The next scoped call reports it, once": a call fails only for a lost
\* device or for errors raised since the last report.
ReportedOnce ==
    [][phase = "resolve" /\ ResolveErrors # "ok" => lost \/ ResolveErrors \in owed]_gpuVars

\* Both at once: a call fails for what was raised since the last report, and
\* always then.
ReportsAreExact == NothingIsHidden /\ ReportedOnce

\* What a call raises it reports itself: the only errors left for a later,
\* unrelated call are those no call raised.
OwnErrorsStayOwn == stray # None => stray.from = None

\* "How many fresh GPU textures this pool has ever allocated."
AllocationsCountTextures == phase = "idle" => pool.next = created
=============================================================================
