--------------------------- MODULE DaemonSessions ---------------------------
(***************************************************************************)
(* The daemon's durable chat sessions (src/internal/daemon): concurrent    *)
(* POST /v1/chat handlers with the agent loops they start, and the calls   *)
(* that meet them: POST /v1/cancel, DELETE of a session, acquiring and     *)
(* releasing a lease.  A chat holds a slot of concurrencySem and the lock  *)
(* of its session's stripe from before it loads the session until after it *)
(* saved it; a cancel takes neither, a deletion takes the stripe lock, a   *)
(* lease call loads and saves the file without any lock.                   *)
(*                                                                         *)
(* A session file is a transcript and a fence.  The transcript says how far*)
(* the turn of each chat has got in it; the loop of a chat works on its own*)
(* transcript, seeded from the file, and may shorten it at any time        *)
(* (compaction, the clean-up of a cancelled turn).  session.Save is one    *)
(* step here: ChatDurability models its temporary file and rename.         *)
(***************************************************************************)
EXTENDS Naturals, FiniteSets

CONSTANTS
    Requests,    \* POST /v1/chat calls
    Calls,       \* cancel, delete, acquire and release calls
    Sessions,    \* session ids
    Stripes,     \* the locks of sessionLocks
    MaxSlots,    \* capacity of concurrencySem
    MaxCrashes,  \* bound: how often the daemon process dies
    MaxEvents,   \* bound: crashes and calls together
    Earlier,     \* the fence of a lease acquired before
    None         \* no holder, no entry, no fence, no session

ASSUME SlotsAssumption == MaxSlots \in Nat \ {0}
ASSUME CrashAssumption == MaxCrashes \in Nat
ASSUME NamesAssumption == /\ None \notin Requests \cup Calls \cup Sessions \cup {Earlier}
                          /\ Earlier \notin Calls

VARIABLES
    saved,      \* saved[s]: the session file, None when there is none
    stripe,     \* stripe[s]: the lock the id hashes to
    holder,     \* holder[l]: the chat that holds lock l
    cancels,    \* cancels[s]: the chat whose cancel func is registered
    pc,         \* pc[r]: where chat r's handler is
    target,     \* target[r]: the session id of chat r
    kind,       \* kind[r]: is the id new, is the answer streamed
    transcript, \* transcript[r]: the engine session of chat r, RawMessages
    loop,       \* loop[r]: the agent loop r started
    cancelled,  \* cancelled[r]: r's generation context is done
    gone,       \* gone[r]: r's client has disconnected
    reply,      \* reply[r]: what r's client was told
    cpc,        \* cpc[c]: where call c is
    op,         \* op[c]: which call c is, and of which session
    copy,       \* copy[c]: the session file a lease call loaded
    hit,        \* hit[c]: the entry a cancel call read
    fate,       \* fate[s]: history: was s deleted, or replaced by a stale copy
    crashes

chat == <<pc, target, kind, transcript, loop, cancelled, gone, reply>>
api  == <<cpc, op, copy, hit>>
vars == <<saved, stripe, holder, cancels, chat, api, fate, crashes>>

Fences == Calls \cup {Earlier, None}
Kinds == [fresh : BOOLEAN, sse : BOOLEAN]

\* How far the turn of a chat has got in a transcript: it is not in it, the prompt
\* is, the answer is.  "dropped" is history: a loop that had the turn in its
\* transcript took some of it out.
Progress == {"none", "prompt", "answered", "dropped"}
Transcripts == [Requests -> Progress]
Files == [turns : Transcripts, fence : Fences]
Ops   == [what : {"cancel", "delete", "acquire", "release"},
          on : Sessions, fence : Fences]

\* No session is not a file, no call is not an operation.
ASSUME NothingAssumption == None \notin Files \cup Ops

NoKind == [fresh |-> FALSE, sse |-> FALSE]
NoTurns == [u \in Requests |-> "none"]
Empty == [turns |-> NoTurns, fence |-> None]

\* Between taking a slot and giving it back.
HasSlot   == {"waiting", "loaded", "draining", "publishing", "streaming", "stuck",
              "returning", "unlocking"}
\* Between lock.Lock() and the deferred Unlock.
HasLock   == HasSlot \ {"waiting"}
\* Between registerCancel and the deferred unregisterCancel.
Generates == {"draining", "publishing", "streaming", "stuck"}

TypeOK ==
    /\ saved \in [Sessions -> Files \cup {None}]
    /\ stripe \in [Sessions -> Stripes]
    /\ holder \in [Stripes -> Requests \cup {None}]
    /\ cancels \in [Sessions -> Requests \cup {None}]
    /\ pc \in [Requests -> {"idle", "done"} \cup HasSlot]
    /\ target \in [Requests -> Sessions \cup {None}]
    /\ kind \in [Requests -> Kinds]
    /\ transcript \in [Requests -> Transcripts]
    /\ loop \in [Requests -> {"none", "running", "blocked", "answered", "stopped"}]
    /\ cancelled \in [Requests -> BOOLEAN]
    /\ gone \in [Requests -> BOOLEAN]
    /\ reply \in [Requests -> {"none", "refused", "exposed", "answered"}]
    /\ cpc \in [Calls -> {"idle", "called", "read", "loaded", "replied"}]
    /\ op \in [Calls -> Ops \cup {None}]
    /\ copy \in [Calls -> Files \cup {None}]
    /\ hit \in [Calls -> Requests \cup {None}]
    /\ fate \in [Sessions -> {"kept", "deleted", "overwritten"}]
    /\ crashes \in 0..MaxCrashes

\* A daemon that was just started over a store that may hold sessions.
Init ==
    /\ saved \in [Sessions -> {[Empty EXCEPT !.fence = Earlier], Empty, None}]
    /\ stripe \in [Sessions -> Stripes]
    /\ holder = [l \in Stripes |-> None]
    /\ cancels = [s \in Sessions |-> None]
    /\ pc = [r \in Requests |-> "idle"]
    /\ target = [r \in Requests |-> None]
    /\ kind = [r \in Requests |-> NoKind]
    /\ transcript = [r \in Requests |-> NoTurns]
    /\ loop = [r \in Requests |-> "none"]
    /\ cancelled = [r \in Requests |-> FALSE]
    /\ gone = [r \in Requests |-> FALSE]
    /\ reply = [r \in Requests |-> "none"]
    /\ cpc = [c \in Calls |-> "idle"]
    /\ op = [c \in Calls |-> None]
    /\ copy = [c \in Calls |-> None]
    /\ hit = [c \in Calls |-> None]
    /\ fate = [s \in Sessions |-> "kept"]
    /\ crashes = 0

-----------------------------------------------------------------------------
(* POST /v1/chat                                                           *)

\* An id newSessionID can return: 16 random bytes nobody has used.
Unused(s) == /\ saved[s] = None /\ fate[s] = "kept"
             /\ \A r \in Requests : target[r] # s
             /\ \A c \in Calls : op[c] # None => op[c].on # s

\* Nobody but its handler knows a new id before the handler gave it out.
Known(s) == \A r \in Requests : (target[r] = s /\ kind[r].fresh) => reply[r] # "none"

SlotsTaken == Cardinality({r \in Requests : pc[r] \in HasSlot})

\* A chat beyond the cap is refused with 503, it does not queue; one beyond the
\* rate limit or with a malformed body is refused at any time.
Refuse(r) ==
    /\ pc[r] = "idle"
    /\ pc' = [pc EXCEPT ![r] = "done"]
    /\ reply' = [reply EXCEPT ![r] = "refused"]
    /\ UNCHANGED <<saved, stripe, holder, cancels, target, kind, transcript, loop,
                   cancelled, gone, api, fate, crashes>>

\* The chat takes a slot and settles its session id: the client's, or a new one.
Admit(r, s, k) ==
    /\ pc[r] = "idle" /\ SlotsTaken < MaxSlots
    /\ IF k.fresh THEN Unused(s) ELSE Known(s)
    /\ pc' = [pc EXCEPT ![r] = "waiting"]
    /\ target' = [target EXCEPT ![r] = s]
    /\ kind' = [kind EXCEPT ![r] = k]
    /\ UNCHANGED <<saved, stripe, holder, cancels, transcript, loop, cancelled, gone,
                   reply, api, fate, crashes>>

\* Faulty: the stripe lock is not waited for.
TakeLockUnguarded(r) ==
    LET s == target[r]
        found == kind[r].fresh \/ saved[s] # None
    IN
    /\ pc[r] = "waiting"
    /\ holder' = [holder EXCEPT ![stripe[s]] = r]
    /\ pc' = [pc EXCEPT ![r] = IF found THEN "loaded" ELSE "unlocking"]
    /\ transcript' = [transcript EXCEPT ![r] = IF kind[r].fresh \/ ~found THEN NoTurns
                                              ELSE saved[s].turns]
    /\ UNCHANGED <<saved, stripe, cancels, target, kind, loop, cancelled, gone,
                   reply, api, fate, crashes>>

\* The lock of the id's stripe; Lock() does not look at the request's context.
\* Under it a continuation loads the session and seeds the engine with it, and
\* a deleted or unknown session is a 404.
TakeLock(r) ==
    LET s == target[r]
        found == kind[r].fresh \/ saved[s] # None
    IN
    /\ pc[r] = "waiting" /\ holder[stripe[s]] = None
    /\ holder' = [holder EXCEPT ![stripe[s]] = r]
    /\ pc' = [pc EXCEPT ![r] = IF found THEN "loaded" ELSE "unlocking"]
    /\ reply' = [reply EXCEPT ![r] = IF found THEN @ ELSE "refused"]
    /\ transcript' = [transcript EXCEPT ![r] = IF kind[r].fresh \/ ~found THEN NoTurns
                                              ELSE saved[s].turns]
    /\ UNCHANGED <<saved, stripe, cancels, target, kind, loop, cancelled, gone,
                   api, fate, crashes>>

\* The handler returns an error before it started a generation: a file that
\* cannot be read, a directory, autonomy or turn limit it refuses, an engine
\* that cannot be built.
Fail(r) ==
    /\ pc[r] = "loaded"
    /\ pc' = [pc EXCEPT ![r] = "unlocking"]
    /\ reply' = [reply EXCEPT ![r] = "refused"]
    /\ UNCHANGED <<saved, stripe, holder, cancels, target, kind, transcript, loop,
                   cancelled, gone, api, fate, crashes>>

\* AddUser, registerCancel and Stream: the loop runs under a context derived
\* from the request's, which is already done when the client has left.
Generate(r) ==
    /\ pc[r] = "loaded"
    /\ transcript' = [transcript EXCEPT ![r][r] = "prompt"]
    /\ cancels' = [cancels EXCEPT ![target[r]] = r]
    /\ loop' = [loop EXCEPT ![r] = "running"]
    /\ cancelled' = [cancelled EXCEPT ![r] = gone[r]]
    /\ pc' = [pc EXCEPT ![r] = IF kind[r].sse THEN "publishing" ELSE "draining"]
    /\ UNCHANGED <<saved, stripe, holder, target, kind, gone, reply, api, fate, crashes>>

\* Stream refused to start: the deferred calls undo the registration.
GenerateFails(r) ==
    /\ pc[r] = "loaded"
    /\ cancels' = [cancels EXCEPT ![target[r]] = r]
    /\ pc' = [pc EXCEPT ![r] = "returning"]
    /\ reply' = [reply EXCEPT ![r] = "refused"]
    /\ UNCHANGED <<saved, stripe, holder, target, kind, transcript, loop, cancelled,
                   gone, api, fate, crashes>>

\* Faulty: the fence field is filled with the id.
SavedFileFenced(r) == [turns |-> transcript[r], fence |-> target[r]]

\* What persistDaemonSession writes: the engine's transcript as the loop has made
\* it by now, and no fence, whatever fence the file had.
SavedFile(r) == [turns |-> transcript[r], fence |-> None]

\* Faulty: the id goes out before the user's turn is saved.
PublishUnsaved(r) ==
    /\ pc[r] = "publishing"
    /\ reply' = [reply EXCEPT ![r] = "exposed"]
    /\ pc' = [pc EXCEPT ![r] = "streaming"]
    /\ UNCHANGED <<saved, stripe, holder, cancels, target, kind, transcript, loop,
                   cancelled, gone, api, fate, crashes>>

\* A streaming chat saves the user's turn before the id goes out in a header.
Publish(r) ==
    /\ pc[r] = "publishing"
    /\ saved' = [saved EXCEPT ![target[r]] = SavedFile(r)]
    /\ reply' = [reply EXCEPT ![r] = "exposed"]
    /\ pc' = [pc EXCEPT ![r] = "streaming"]
    /\ UNCHANGED <<stripe, holder, cancels, target, kind, transcript, loop, cancelled,
                   gone, api, fate, crashes>>

\* The handler receives from the event channel; the loop has closed it.
Reading(r) == pc[r] \in {"draining", "streaming"}
Ended(r) == loop[r] \in {"answered", "stopped"}

\* The loop closed the event channel: the turn is saved, then the client is
\* told (the done event of a stream, the JSON answer).
SaveTurn(r) ==
    /\ Reading(r) /\ Ended(r)
    /\ saved' = [saved EXCEPT ![target[r]] = SavedFile(r)]
    /\ reply' = [reply EXCEPT ![r] = "answered"]
    /\ pc' = [pc EXCEPT ![r] = "returning"]
    /\ UNCHANGED <<stripe, holder, cancels, target, kind, transcript, loop, cancelled,
                   gone, api, fate, crashes>>

\* persistDaemonSession failed, at the start of a stream or at the end.
SaveFails(r) ==
    /\ \/ pc[r] = "publishing"
       \/ Reading(r) /\ Ended(r)
    /\ reply' = [reply EXCEPT ![r] = IF @ = "exposed" THEN @ ELSE "refused"]
    /\ pc' = [pc EXCEPT ![r] = "returning"]
    /\ UNCHANGED <<saved, stripe, holder, cancels, target, kind, transcript, loop,
                   cancelled, gone, api, fate, crashes>>

\* streamSSE sees the request's context done and returns without a save.
StreamAbandoned(r) ==
    /\ pc[r] = "streaming" /\ gone[r]
    /\ pc' = [pc EXCEPT ![r] = "returning"]
    /\ UNCHANGED <<saved, stripe, holder, cancels, target, kind, transcript, loop,
                   cancelled, gone, reply, api, fate, crashes>>

\* Faulty: no write deadline, only a broken connection fails a write.
WriteFailsLate(r) ==
    /\ pc[r] \in {"streaming", "stuck"} /\ gone[r]
    /\ cancelled' = [cancelled EXCEPT ![r] = TRUE]
    /\ pc' = [pc EXCEPT ![r] = "returning"]
    /\ UNCHANGED <<saved, stripe, holder, cancels, target, kind, transcript, loop,
                   gone, reply, api, fate, crashes>>

\* A write fails (the client stalled until the 90 s deadline, or is gone):
\* abortStreamedSession cancels the session's registered generation.
WriteFails(r) ==
    /\ pc[r] = "stuck" \/ (pc[r] = "streaming" /\ gone[r])
    /\ LET e == cancels[target[r]] IN
       cancelled' = IF e = None THEN cancelled
                                ELSE [cancelled EXCEPT ![e] = TRUE]
    /\ pc' = [pc EXCEPT ![r] = "returning"]
    /\ UNCHANGED <<saved, stripe, holder, cancels, target, kind, transcript, loop,
                   gone, reply, api, fate, crashes>>

\* The deferred calls: unregisterCancel (if the generation was registered; it
\* compares code pointers, which are equal for every generation, so it deletes
\* whatever entry the session has), Unlock, and the slot.  Then net/http ends the
\* request's context, which ends the generation's: on most paths nobody else
\* cancels it.  What the handler knew is gone with it.
Leave(r) ==
    LET s == target[r] IN
    /\ pc[r] \in {"returning", "unlocking"}
    /\ cancels' = [cancels EXCEPT ![s] = IF pc[r] = "returning" THEN None ELSE @]
    /\ holder' = [holder EXCEPT ![stripe[s]] = None]
    /\ pc' = [pc EXCEPT ![r] = "done"]
    /\ cancelled' = [cancelled EXCEPT ![r] = TRUE]
    /\ kind' = [kind EXCEPT ![r] = NoKind]
    /\ transcript' = [transcript EXCEPT ![r] = NoTurns]
    /\ gone' = [gone EXCEPT ![r] = FALSE]
    /\ UNCHANGED <<saved, stripe, target, loop, reply, api, fate, crashes>>

-----------------------------------------------------------------------------
(* The agent loop and the client, as the handler sees them                 *)

\* Transcript m after some of its turns were taken out, or none.
Shortened(m) ==
    {[u \in Requests |-> IF u \in d THEN "dropped" ELSE m[u]] :
        d \in SUBSET {u \in Requests : m[u] # "none"}}

Loop(r, from, to) == loop[r] = from /\ loop' = [loop EXCEPT ![r] = to]
besideLoop == <<saved, stripe, holder, cancels, pc, target, kind, cancelled, gone,
                reply, api, fate, crashes>>

\* Before a turn of the loop the context governor may collapse, summarise or cut
\* the transcript.
LoopCompacts(r) ==
    /\ loop[r] = "running"
    /\ \E m \in Shortened(transcript[r]) :
          m # transcript[r] /\ transcript' = [transcript EXCEPT ![r] = m]
    /\ UNCHANGED <<besideLoop, loop>>

\* The loop ends: when its context is done, TrimIncompleteTurn cuts the transcript
\* at the last tool call without results, however far back that is.
Leaves(r, m) ==
    \E n \in IF cancelled[r] THEN Shortened(m) ELSE {m} :
        transcript' = [transcript EXCEPT ![r] = n]

\* It ends with an answer in the transcript ...
LoopAnswers(r) ==
    /\ Loop(r, "running", "answered")
    /\ Leaves(r, [transcript[r] EXCEPT ![r] = IF @ = "prompt" THEN "answered" ELSE @])
    /\ UNCHANGED besideLoop

\* ... or without one: an error, or its context is done.
LoopStops(r) ==
    /\ Loop(r, "running", "stopped")
    /\ Leaves(r, transcript[r])
    /\ UNCHANGED besideLoop

\* Some sends to the event channel do not look at the context.  When the 64 places
\* of its buffer are taken and the handler does not receive, not yet or never
\* again, the loop stays in such a send, cancelled or not ...
LoopBlocks(r) ==
    ~Reading(r) /\ Loop(r, "running", "blocked") /\ UNCHANGED <<besideLoop, transcript>>

\* ... until the handler receives.
LoopUnblocks(r) ==
    Reading(r) /\ Loop(r, "blocked", "running") /\ UNCHANGED <<besideLoop, transcript>>

\* The connection breaks: net/http ends the request's context, of which the
\* generation's is a child.
Disconnect(r) ==
    /\ pc[r] \notin {"idle", "done"} /\ ~gone[r]
    /\ gone' = [gone EXCEPT ![r] = TRUE]
    /\ cancelled' = [cancelled EXCEPT ![r] = @ \/ loop[r] # "none"]
    /\ UNCHANGED <<saved, stripe, holder, cancels, pc, target, kind, transcript, loop,
                   reply, api, fate, crashes>>

\* The client stops reading: the handler is stuck in a write.
Stall(r) ==
    /\ pc[r] = "streaming" /\ ~gone[r]
    /\ pc' = [pc EXCEPT ![r] = "stuck"]
    /\ UNCHANGED <<saved, stripe, holder, cancels, target, kind, transcript, loop,
                   cancelled, gone, reply, api, fate, crashes>>

-----------------------------------------------------------------------------
(* The other calls                                                         *)

\* Bound: there is room for one more call or crash.
Room == Cardinality({c \in Calls : cpc[c] # "idle"}) + crashes < MaxEvents

\* A call comes in; a release without a fence is answered as one with another's.
CallArrives(c, o) ==
    /\ cpc[c] = "idle" /\ Known(o.on) /\ Room
    /\ (o.what = "release") = (o.fence # None)
    /\ o.fence \in Calls => (cpc[o.fence] = "replied" /\ op[o.fence].what = "acquire")
    /\ op' = [op EXCEPT ![c] = o]
    /\ cpc' = [cpc EXCEPT ![c] = "called"]
    /\ UNCHANGED <<saved, stripe, holder, cancels, chat, copy, hit, fate, crashes>>

Answer(c) == cpc' = [cpc EXCEPT ![c] = "replied"]

\* Faulty: the cancel handler takes the stripe lock.
CancelLooksLocked(c) ==
    /\ cpc[c] = "called" /\ op[c].what = "cancel"
    /\ holder[stripe[op[c].on]] = None
    /\ hit' = [hit EXCEPT ![c] = cancels[op[c].on]]
    /\ Answer(c)
    /\ UNCHANGED <<saved, stripe, holder, cancels, chat, op, copy, fate, crashes>>

\* handleCancel takes no stripe lock.  cancelSession reads the entry under
\* cancelMu ...
CancelLooks(c) ==
    /\ cpc[c] = "called" /\ op[c].what = "cancel"
    /\ hit' = [hit EXCEPT ![c] = cancels[op[c].on]]
    /\ IF cancels[op[c].on] = None
       THEN Answer(c)
       ELSE cpc' = [cpc EXCEPT ![c] = "read"]
    /\ UNCHANGED <<saved, stripe, holder, cancels, chat, op, copy, fate, crashes>>

\* ... and calls the func after unlocking it.
CancelStrikes(c) ==
    /\ cpc[c] = "read" /\ op[c].what = "cancel"
    /\ cancelled' = [cancelled EXCEPT ![hit[c]] = TRUE]
    /\ Answer(c)
    /\ UNCHANGED <<saved, stripe, holder, cancels, pc, target, kind, transcript, loop,
                   gone, reply, op, copy, hit, fate, crashes>>

\* Faulty: a deletion does not wait for the stripe lock.
DeleteUnlocked(c) ==
    LET s == op[c].on IN
    /\ cpc[c] = "called" /\ op[c].what = "delete"
    /\ saved' = [saved EXCEPT ![s] = None]
    /\ fate' = [fate EXCEPT ![s] = IF saved[s] = None THEN @ ELSE "deleted"]
    /\ Answer(c)
    /\ UNCHANGED <<stripe, holder, cancels, chat, op, copy, hit, crashes>>

\* handleDeleteSession, under the stripe lock: the file is removed, or there
\* is none (404), or it cannot be removed.
DeleteSession(c) ==
    LET s == op[c].on IN
    /\ cpc[c] = "called" /\ op[c].what = "delete"
    /\ holder[stripe[s]] = None
    /\ \/ /\ saved[s] # None
          /\ saved' = [saved EXCEPT ![s] = None]
          /\ fate' = [fate EXCEPT ![s] = "deleted"]
       \/ UNCHANGED <<saved, fate>>
    /\ Answer(c)
    /\ UNCHANGED <<stripe, holder, cancels, chat, op, copy, hit, crashes>>

\* handleAcquireLease: load or create ...
AcquireLoads(c) ==
    /\ cpc[c] = "called" /\ op[c].what = "acquire"
    /\ copy' = [copy EXCEPT ![c] = saved[op[c].on]]
    /\ cpc' = [cpc EXCEPT ![c] = "loaded"]
    /\ UNCHANGED <<saved, stripe, holder, cancels, chat, op, hit, fate, crashes>>

\* handleReleaseLease compares the presented fence with FenceOf: an unset
\* fence is "released" at once, another one a 409.
ReleaseChecks(c) ==
    LET s == op[c].on
        current == IF saved[s] = None THEN None ELSE saved[s].fence
    IN
    /\ cpc[c] = "called" /\ op[c].what = "release"
    /\ IF current # None /\ current = op[c].fence
       THEN cpc' = [cpc EXCEPT ![c] = "read"]
       ELSE Answer(c)
    /\ UNCHANGED <<saved, stripe, holder, cancels, chat, op, copy, hit, fate, crashes>>

\* ... and loads the session again.
ReleaseLoads(c) ==
    /\ cpc[c] = "read" /\ op[c].what = "release"
    /\ IF saved[op[c].on] = None
       THEN Answer(c) /\ UNCHANGED copy
       ELSE /\ copy' = [copy EXCEPT ![c] = saved[op[c].on]]
            /\ cpc' = [cpc EXCEPT ![c] = "loaded"]
    /\ UNCHANGED <<saved, stripe, holder, cancels, chat, op, hit, fate, crashes>>

\* Has the turn got as far in the transcript where it is p as where it is q?
Reaches(p, q) == q = "none" \/ p = q \/ p = "dropped" \/ (p = "answered" /\ q = "prompt")

\* Transcript m goes on from transcript n: no turn is lost but those that were
\* taken out of it.
GoesOnFrom(m, n) == \A u \in Requests : Reaches(m[u], n[u])

\* Does file f lack a turn that file g has?
Behind(f, g) == g # None /\ ~GoesOnFrom(f.turns, g.turns)

\* Both end with SetFence and a Save of the copy they loaded, or fail to save.
LeaseSaves(c) ==
    LET s == op[c].on
        old == IF copy[c] = None THEN Empty ELSE copy[c]
        new == [old EXCEPT !.fence = IF op[c].what = "acquire" THEN c ELSE None]
    IN
    /\ cpc[c] = "loaded"
    /\ \/ /\ saved' = [saved EXCEPT ![s] = new]
          /\ fate' = [fate EXCEPT ![s] =
                        IF @ = "deleted" \/ Behind(new, saved[s])
                        THEN "overwritten" ELSE @]
       \/ UNCHANGED <<saved, fate>>
    /\ copy' = [copy EXCEPT ![c] = None]
    /\ Answer(c)
    /\ UNCHANGED <<stripe, holder, cancels, chat, op, hit, crashes>>

-----------------------------------------------------------------------------

\* The process dies: the handlers, their loops, the locks and the entries are
\* gone, the files stay, and so does what the clients were told.
Crash ==
    /\ crashes < MaxCrashes /\ Room
    /\ crashes' = crashes + 1
    /\ pc' = [r \in Requests |-> IF pc[r] = "idle" THEN "idle" ELSE "done"]
    /\ loop' = [r \in Requests |-> IF loop[r] \in {"running", "blocked"} THEN "stopped"
                                  ELSE loop[r]]
    /\ holder' = [l \in Stripes |-> None]
    /\ cancels' = [s \in Sessions |-> None]
    /\ cpc' = [c \in Calls |-> IF cpc[c] = "idle" THEN "idle" ELSE "replied"]
    /\ kind' = [r \in Requests |-> NoKind]
    /\ transcript' = [r \in Requests |-> NoTurns]
    /\ gone' = [r \in Requests |-> FALSE]
    /\ cancelled' = [r \in Requests |-> pc[r] # "idle"]
    /\ copy' = [c \in Calls |-> None]
    /\ UNCHANGED <<saved, stripe, target, reply, op, hit, fate>>

\* Every client is done with the daemon; a loop nobody reads may be left.
Idle == /\ \A r \in Requests : pc[r] = "done" /\ loop[r] # "running"
        /\ \A c \in Calls : cpc[c] = "replied" \/ (cpc[c] = "idle" /\ ~Room)
        /\ UNCHANGED vars

ChatStep(r) ==
    \/ TakeLock(r) \/ Fail(r) \/ Generate(r) \/ GenerateFails(r)
    \/ Publish(r) \/ SaveTurn(r) \/ SaveFails(r)
    \/ StreamAbandoned(r) \/ WriteFails(r)
    \/ Leave(r)

CallStep(c) ==
    \/ CancelLooks(c) \/ CancelStrikes(c) \/ DeleteSession(c)
    \/ AcquireLoads(c) \/ ReleaseChecks(c) \/ ReleaseLoads(c) \/ LeaseSaves(c)

Next ==
    \/ \E r \in Requests :
          \/ Refuse(r)
          \/ \E s \in Sessions, k \in Kinds : Admit(r, s, k)
          \/ ChatStep(r)
          \/ LoopCompacts(r) \/ LoopAnswers(r) \/ LoopStops(r)
          \/ LoopBlocks(r) \/ LoopUnblocks(r)
          \/ Disconnect(r) \/ Stall(r)
    \/ \E c \in Calls : (\E o \in Ops : CallArrives(c, o)) \/ CallStep(c)
    \/ Crash
    \/ Idle

\* Goroutines run: every handler step is taken, a Go mutex does not starve a
\* waiter, a send goes on when the handler receives, and a loop whose context is
\* done stops unless it is in a send.  No client has to leave, no generation has
\* to end by itself, no handler receives for a loop it has left.
Fairness ==
    /\ \A r \in Requests : /\ WF_vars(ChatStep(r) /\ pc[r] # "waiting")
                           /\ SF_vars(TakeLock(r))
                           /\ WF_vars(cancelled[r] /\ LoopStops(r))
                           /\ WF_vars(LoopUnblocks(r))
    /\ \A c \in Calls : /\ WF_vars(CallStep(c) /\ op[c].what # "delete")
                        /\ SF_vars(DeleteSession(c))

Spec == Init /\ [][Next]_vars /\ Fairness

-----------------------------------------------------------------------------
(* Properties                                                              *)

\* Whoever generates is the generation POST /v1/cancel and a failed write
\* reach: the deferred unregisterCancel of an earlier chat of the same session,
\* which would delete any entry, has always run before the next one registers
\* (daemon.go:524-541).
CancelReaches ==
    \A r \in Requests : pc[r] \in Generates => cancels[target[r]] = r

\* An id a stream exposed or an answer named can be retrieved, and its file goes on
\* from the turn that was promised: it has the prompt, and the answer if the loop
\* got to one, or a loop that had them in its transcript took them out.  No save
\* of a chat that did not know of them, no failed save and no crash loses them
\* (daemon.go:865-867), until the session is deleted or a lease call saves a stale
\* copy.
ToldIsSaved ==
    \A r \in Requests :
        LET s == target[r]
            promised == IF reply[r] = "answered" /\ loop[r] = "answered"
                        THEN "answered" ELSE "prompt"
        IN
        (reply[r] \in {"exposed", "answered"} /\ fate[s] = "kept") =>
            saved[s] # None /\ Reaches(saved[s].turns[r], promised)

\* No chat brings a deleted session back: one that was under way has saved
\* before the deletion, one that queued behind it finds no file
\* (daemon.go:89-92).  Only a lease call can.
DeletedStaysDeleted ==
    \A s \in Sessions : fate[s] = "deleted" => saved[s] = None

\* A cancel call is answered while the generation still holds the stripe lock,
\* and a generation it hit ends with its handler (daemon.go:1024-1026).
CancelStops ==
    \A c \in Calls :
        (cpc[c] = "called" /\ op[c].what = "cancel")
            ~> (cpc[c] = "replied" /\ (hit[c] # None => pc[hit[c]] = "done"))

Abandoned(r) == pc[r] \in Generates /\ (gone[r] \/ pc[r] = "stuck")

\* A chat whose client left or stopped reading gives back its lock and slot
\* (daemon.go:946-950), and its loop ends (daemon.go:970-973) or is in a send
\* that does not look at its context (stream.go:531): it asks the model for
\* nothing more and runs no tool.
AbandonedGivesBack ==
    \A r \in Requests : Abandoned(r) ~> (pc[r] = "done" /\ loop[r] # "running")

\* A release clears only the fence it presented, never that of a newer owner
\* (routes_lease.go:42-43).
OnlyOwnerReleases ==
    [][\A c \in Calls :
          (cpc[c] = "loaded" /\ op[c].what = "release" /\ saved' # saved
             /\ cpc'[c] = "replied")
          => (saved[op[c].on] = None
                \/ saved[op[c].on].fence \in {op[c].fence, None})]_vars
=============================================================================
