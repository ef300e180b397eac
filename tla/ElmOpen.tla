------------------------------ MODULE ElmOpen ------------------------------
(***************************************************************************)
(* ElmJ2534/ElmLink: SerialElmLink opens a COM port whose CreateFileA may  *)
(* hang inside the Bluetooth stack for ever.  Each open() therefore starts *)
(* a worker thread and waits for it up to a deadline; the two share a      *)
(* reference-counted OpenCtx, and whichever of them comes late cleans up.  *)
(* The device lock keeps the calls that open and close the link apart from *)
(* each other: one caller, and any number of left-behind workers.          *)
(* The unload of the library is not kept apart: when it does not get the   *)
(* lock, ElmDevice::shutdown() calls close() without it, and so do the     *)
(* destructors after it.                                                   *)
(***************************************************************************)
EXTENDS Integers

CONSTANTS
    Attempts,  \* open() calls; CreateFileA of call a yields handle a
    NoHandle   \* INVALID_HANDLE_VALUE

ASSUME OpenAssumption == NoHandle \notin Attempts

VARIABLES
    ctx,     \* the OpenCtx of each attempt
    worker,  \* where its worker thread is
    got,     \* the worker's local h
    caller,  \* where the caller is in open() or close()
    cur,     \* the attempt it makes
    mine,    \* the handle it read in close()
    taken,   \* its local result
    handle,  \* handle_ of the link
    unload,  \* where the unload is in close()
    seen,    \* the handle it read there
    live,    \* the handles the operating system holds open for us
    raced,   \* history: the handles the caller and the unload had in hand at once
    twice    \* history: the handles closed when they were closed already

linkVars == <<handle, unload, mine, seen, raced, twice>>
openVars == <<ctx, worker, got, caller, cur, taken, live, linkVars>>

Handles == Attempts \cup {NoHandle}
NewCtx(n) == [refs |-> n, result |-> NoHandle, finished |-> FALSE, abandoned |-> FALSE]

OpenInit ==
    /\ ctx = [a \in Attempts |-> NewCtx(0)]
    /\ worker = [a \in Attempts |-> "none"]
    /\ got = [a \in Attempts |-> NoHandle]
    /\ caller = "idle" /\ cur = NoHandle /\ mine = NoHandle /\ taken = NoHandle
    /\ handle = NoHandle /\ unload = "out" /\ seen = NoHandle
    /\ live = {} /\ raced = {} /\ twice = {}

\* CloseHandle(h)
Closes(h) ==
    /\ live' = live \ {h}
    /\ twice' = twice \cup ({h} \ (live \cup {NoHandle}))

InHand == {handle, mine, taken, seen} \ {NoHandle}
Meet(both) == raced' = IF both THEN raced \cup InHand ELSE raced

----------------------------------------------------------------------------
\* The caller: close() and open(), under the device lock

\* close() tests handle_, closes it and resets it.
Close ==
    /\ caller = "idle" /\ handle # NoHandle
    /\ caller' = "closing" /\ mine' = handle
    /\ Meet(unload # "out")
    /\ UNCHANGED <<ctx, worker, got, cur, taken, live, handle, unload, seen, twice>>

\* The handle is the one of the test, or it is read again.
CloseOld ==
    /\ caller = "closing"
    /\ \E h \in {mine, handle} : Closes(h)
    /\ caller' = "clearing" /\ mine' = NoHandle
    /\ Meet(unload # "out")
    /\ UNCHANGED <<ctx, worker, got, cur, taken, handle, unload, seen>>

ClearOld ==
    /\ caller = "clearing"
    /\ handle' = NoHandle
    /\ caller' = IF cur = NoHandle THEN "idle" ELSE "spawn"
    /\ UNCHANGED <<ctx, worker, got, cur, taken, live, unload, mine, seen, raced, twice>>

\* open() first closes what was open.
OpenCall(a) ==
    /\ caller = "idle" /\ worker[a] = "none"
    /\ cur' = a
    /\ mine' = handle
    /\ \/ handle = NoHandle /\ caller' = "spawn" /\ UNCHANGED raced
       \/ handle # NoHandle /\ caller' = "closing" /\ Meet(unload # "out")
    /\ UNCHANGED <<ctx, worker, got, taken, live, handle, unload, seen, twice>>

\* It makes the context and starts the worker; with no thread both references
\* are dropped and it fails.
MFirstRefs == 1
FirstRefs == 2

Spawn ==
    /\ caller = "spawn"
    /\ \/ /\ ctx' = [ctx EXCEPT ![cur] = NewCtx(FirstRefs)]
          /\ worker' = [worker EXCEPT ![cur] = "opening"]
          /\ caller' = "wait" /\ UNCHANGED cur
       \/ /\ worker' = [worker EXCEPT ![cur] = "gone"]
          /\ caller' = "idle" /\ cur' = NoHandle /\ UNCHANGED ctx
    /\ UNCHANGED <<got, taken, live, linkVars>>

\* WaitForSingleObject ends with the thread or at the deadline.
MWaited ==
    /\ caller = "wait" /\ worker[cur] = "gone"
    /\ caller' = "decide"
    /\ UNCHANGED <<ctx, worker, got, cur, taken, live, linkVars>>
Waited ==
    /\ caller = "wait"
    /\ caller' = "decide"
    /\ UNCHANGED <<ctx, worker, got, cur, taken, live, linkVars>>

\* Under the context's lock: take the published handle, or leave word.
MDecide ==
    /\ caller = "decide"
    /\ caller' = "release"
    /\ taken' = IF ctx[cur].finished THEN ctx[cur].result ELSE NoHandle
    /\ UNCHANGED <<ctx, worker, got, cur, live, linkVars>>
Decide ==
    /\ caller = "decide"
    /\ caller' = "release"
    /\ IF ctx[cur].finished
       THEN taken' = ctx[cur].result /\ UNCHANGED ctx
       ELSE taken' = NoHandle /\ ctx' = [ctx EXCEPT ![cur].abandoned = TRUE]
    /\ UNCHANGED <<worker, got, cur, live, linkVars>>

\* ctxRelease(); then the handle becomes the link's, if there is one.
CallerRelease ==
    /\ caller = "release"
    /\ ctx' = [ctx EXCEPT ![cur].refs = @ - 1]
    /\ taken' = NoHandle
    /\ \/ /\ taken = NoHandle
          /\ caller' = "idle" /\ cur' = NoHandle /\ UNCHANGED <<handle, raced>>
       \/ /\ taken # NoHandle
          /\ caller' = "configure" /\ handle' = taken /\ UNCHANGED cur
          /\ Meet(unload # "out")
    /\ UNCHANGED <<worker, got, live, unload, mine, seen, twice>>

\* configure(): a port that refuses its settings is closed again.
Configure ==
    /\ caller = "configure"
    /\ cur' = NoHandle
    /\ \/ caller' = "idle" /\ UNCHANGED <<live, raced, twice>>
       \/ caller' = "clearing" /\ Closes(handle) /\ Meet(unload # "out")
    /\ UNCHANGED <<ctx, worker, got, taken, handle, unload, mine, seen>>

----------------------------------------------------------------------------
\* The unload: close() of shutdown() and of the destructors, without the lock

UnloadTest ==
    /\ unload = "out" /\ handle # NoHandle
    /\ unload' = "closing" /\ seen' = handle
    /\ Meet(caller \in {"closing", "clearing"})
    /\ UNCHANGED <<ctx, worker, got, caller, cur, taken, live, handle, mine, twice>>

UnloadClose ==
    /\ unload = "closing"
    /\ \E h \in {seen, handle} : Closes(h)
    /\ unload' = "clearing" /\ seen' = NoHandle
    /\ UNCHANGED <<ctx, worker, got, caller, cur, taken, handle, mine, raced>>

UnloadClear ==
    /\ unload = "clearing"
    /\ handle' = NoHandle /\ unload' = "out"
    /\ UNCHANGED <<ctx, worker, got, caller, cur, taken, live, mine, seen, raced, twice>>

----------------------------------------------------------------------------
\* The worker, elmOpenWorker()

\* CreateFileA returns, if it ever does; the port is opened without sharing.
Opened(a) ==
    /\ worker[a] = "opening"
    /\ worker' = [worker EXCEPT ![a] = "opened"]
    /\ \/ UNCHANGED <<got, live>>
       \/ live = {} /\ live' = {a} /\ got' = [got EXCEPT ![a] = a]
    /\ UNCHANGED <<ctx, caller, cur, taken, linkVars>>

\* Under the context's lock: publish, unless the caller has gone.
MPublish(a) ==
    /\ worker[a] = "opened"
    /\ ctx' = [ctx EXCEPT ![a].result = got[a], ![a].finished = TRUE]
    /\ got' = [got EXCEPT ![a] = NoHandle]
    /\ worker' = [worker EXCEPT ![a] = "release"]
    /\ UNCHANGED <<caller, cur, taken, live, linkVars>>
Publish(a) ==
    /\ worker[a] = "opened"
    /\ IF ctx[a].abandoned
       THEN worker' = [worker EXCEPT ![a] = "orphan"] /\ UNCHANGED <<ctx, got>>
       ELSE /\ ctx' = [ctx EXCEPT ![a].result = got[a], ![a].finished = TRUE]
            /\ got' = [got EXCEPT ![a] = NoHandle]
            /\ worker' = [worker EXCEPT ![a] = "release"]
    /\ UNCHANGED <<caller, cur, taken, live, linkVars>>

CloseOrphan(a) ==
    /\ worker[a] = "orphan"
    /\ Closes(got[a])
    /\ got' = [got EXCEPT ![a] = NoHandle]
    /\ worker' = [worker EXCEPT ![a] = "release"]
    /\ UNCHANGED <<ctx, caller, cur, taken, handle, unload, mine, seen, raced>>

WorkerRelease(a) ==
    /\ worker[a] = "release"
    /\ ctx' = [ctx EXCEPT ![a].refs = @ - 1]
    /\ worker' = [worker EXCEPT ![a] = "gone"]
    /\ UNCHANGED <<got, caller, cur, taken, live, linkVars>>

----------------------------------------------------------------------------
CallerStep == CloseOld \/ ClearOld \/ Spawn \/ Waited \/ Decide \/ CallerRelease \/ Configure
UnloadStep == UnloadTest \/ UnloadClose \/ UnloadClear
WorkerStep(a) == Publish(a) \/ CloseOrphan(a) \/ WorkerRelease(a)

OpenNext ==
    \/ Close \/ CallerStep \/ UnloadStep
    \/ \E a \in Attempts : OpenCall(a) \/ Opened(a) \/ WorkerStep(a)

OpenSpec == OpenInit /\ [][OpenNext]_openVars

\* Threads run; nothing makes CreateFileA return.
FairOpenSpec == OpenSpec /\ WF_openVars(CallerStep)
                         /\ \A a \in Attempts : WF_openVars(WorkerStep(a))

----------------------------------------------------------------------------
\* Properties

CtxType == [refs : Int, result : Handles, finished : BOOLEAN, abandoned : BOOLEAN]

TypeInv ==
    /\ ctx \in [Attempts -> CtxType]
    /\ worker \in [Attempts -> {"none", "opening", "opened", "orphan", "release", "gone"}]
    /\ got \in [Attempts -> Handles]
    /\ caller \in {"idle", "closing", "clearing", "spawn", "wait", "decide", "release", "configure"}
    /\ unload \in {"out", "closing", "clearing"}
    /\ cur \in Handles /\ taken \in Handles /\ mine \in Handles
    /\ handle \in Handles /\ seen \in Handles
    /\ live \subseteq Attempts /\ raced \subseteq Attempts /\ twice \subseteq Attempts

TypeOK == TypeInv /\ \A a \in Attempts : ctx[a].refs \in 0..2

\* Why OneOwner holds: where each handle can be, given where the threads are.
Places ==
    /\ caller = "idle" => cur = NoHandle
    /\ caller \in {"spawn", "wait", "decide", "release", "configure"} => cur # NoHandle
    /\ taken # NoHandle => caller = "release" /\ taken = cur
    /\ mine # NoHandle => caller = "closing"
    /\ seen # NoHandle => unload = "closing"
    /\ handle # NoHandle => caller \in {"idle", "closing", "clearing", "configure"}
    /\ caller = "configure" => handle \in {cur, NoHandle}
    /\ \A a \in Attempts :
        /\ got[a] # NoHandle => got[a] = a /\ worker[a] \in {"opened", "orphan"}
        /\ ctx[a].result # NoHandle => ctx[a].result = a /\ ctx[a].finished
        /\ ctx[a].finished => worker[a] \in {"release", "gone"} /\ ~ctx[a].abandoned
        /\ worker[a] = "orphan" => ctx[a].abandoned
        /\ worker[a] = "release" => ctx[a].finished \/ ctx[a].abandoned
        /\ worker[a] = "none" => ctx[a] = NewCtx(0)
        /\ (cur = a /\ caller \in {"closing", "clearing", "spawn"}) => worker[a] = "none"
        /\ (cur = a /\ caller \in {"wait", "decide", "release", "configure"}) => worker[a] # "none"
        /\ (cur = a /\ caller \in {"wait", "decide"}) => ~ctx[a].abandoned
        /\ (cur = a /\ caller \in {"wait", "decide", "release"}) => a \notin raced \cup {seen}
        /\ worker[a] \in {"opening", "opened"} =>
              ctx[a].abandoned \/ (cur = a /\ caller \in {"wait", "decide"})
        /\ a \in raced \cup {taken, handle, mine, seen} => ctx[a].finished

\* What the two threads in close() have in hand is one handle, or it is raced.
HandsMeet ==
    /\ (caller \in {"closing", "clearing"} /\ unload # "out") => InHand \ {taken} \subseteq raced
    /\ caller = "closing" => mine = handle \/ InHand \ {taken} \subseteq raced
    /\ unload = "closing" => seen = handle \/ InHand \ {taken} \subseteq raced

\* The handles that are open are the ones something points to; the link points
\* to its handle until close() has closed it.
InContext(a) == ctx[a].result = a /\ cur = a /\ caller \in {"wait", "decide"}
LinkHolds(a) == handle = a /\ caller # "clearing" /\ unload # "clearing"
Held ==
    /\ \A a \in Attempts \ raced :
        a \in live <=> got[a] = a \/ InContext(a) \/ taken = a \/ LinkHolds(a)
    /\ twice \subseteq raced

\* Who is answerable for handle a: its worker, its context (published and not
\* yet taken), the caller that took it, or the link.
Owners(a) ==
    { o \in {"worker", "context", "caller", "link"} :
        \/ o = "worker" /\ got[a] = a
        \/ o = "context" /\ InContext(a)
        \/ o = "caller" /\ taken = a
        \/ o = "link" /\ LinkHolds(a) }

\* Whenever the deadline strikes and wherever the unload falls, a handle the
\* system holds open for us has exactly one owner, who will close it, and a
\* closed one has none: no RFCOMM channel is leaked and none is closed twice.
\* Excepted are the handles that the caller and the unload, which does not take
\* the lock, had in hand at once; they are never a worker's or a context's.
OneOwner ==
    /\ \A a \in Attempts \ raced :
        IF a \in live THEN \E o \in Owners(a) : Owners(a) = {o} ELSE Owners(a) = {}
    /\ twice \subseteq raced
    /\ \A a \in raced : Owners(a) \subseteq {"link"}

\* Without the exception: open() and close() beside the unload's close() can
\* close a handle twice, and leave one open that nobody will close.
ClosedOnce ==
    /\ twice = {}
    /\ \A a \in live : Owners(a) # {}

\* A context is alive as long as the caller or its worker can still touch it,
\* and freed by the last of them: its count is the number of its users.
CallerUses(a) == cur = a /\ caller \in {"wait", "decide", "release"}
WorkerUses(a) == worker[a] \in {"opening", "opened", "orphan", "release"}
RefsCountUsers ==
    \A a \in Attempts :
        ctx[a].refs = (IF CallerUses(a) THEN 1 ELSE 0) + (IF WorkerUses(a) THEN 1 ELSE 0)

\* A late success after the deadline does not keep the port busy.
OrphanCloses ==
    \A a \in Attempts : (worker[a] = "opened" /\ ctx[a].abandoned) ~> (a \notin live)

\* open() returns even if CreateFileA never does.
OpenReturns == (caller # "idle") ~> (caller = "idle")

=============================================================================
