---------------------------- MODULE ChatPrompts ----------------------------
(***************************************************************************)
(* The prompts of the terminal interface (src/cmd) and the turns they      *)
(* belong to.  Tool calls of a turn may run at once; each may ask for a    *)
(* permission, then for the approval of a high-risk action, then, while it *)
(* works, for a credential or an answer.  It sends its request to the      *)
(* event loop and waits for a buffered channel, its own timer and, for a   *)
(* permission only, its context.  The event loop has one field and one     *)
(* queue per kind of prompt, one keyboard, and a timer message per prompt  *)
(* it has shown.  Turns are started, cancelled and reported over by the    *)
(* same loop; the end of a cancelled turn may arrive after the next one    *)
(* was started.                                                            *)
(*                                                                         *)
(* What a policy, a remembered rule or an earlier approval decides is left *)
(* open, as are the texts.  Time is left out: any timer that runs may fire.*)
(***************************************************************************)
EXTENDS Naturals, Sequences, FiniteSets, TLC

CONSTANTS
    Calls,       \* tool calls of all turns
    MaxTurns,    \* bound: how many turns are started
    MaxAsks,     \* bound: how many requests are made
    MaxPending,  \* maxPendingPrompts
    MaxTyped,    \* bound: prompts typed ahead while a turn runs
    None         \* no call

ASSUME TurnsAssumption == MaxTurns \in Nat /\ MaxTyped \in Nat
ASSUME PromptsAssumption == MaxAsks \in Nat /\ MaxPending \in Nat
ASSUME NoneAssumption == None \notin Calls

CallSymmetry == Permutations(Calls)

VARIABLES
    waiting,          \* the interface believes that a turn runs
    cancel,           \* m.cancel: the turn it cancels, 0 when nil
    typed,            \* how many prompts wait in messageQueue
    shown,            \* shown[k]: the call whose prompt of kind k is active
    queue,            \* queue[k]: the calls that wait behind it
    seq,              \* seq[k]: permReqSeq and the like
    timers,           \* timeout messages to come; "of" is history
    autonomous,       \* the autonomy tier is YOLO
    turn,             \* turn[t]: where the stream of turn t is
    done,             \* done[t]: the context of turn t is done
    stage,            \* stage[c]: where ExecuteOne of call c is
    owner,            \* owner[c]: the turn call c belongs to
    asking,           \* asking[c]: the kind of request call c waits with
    asked,            \* history: the requests made
    answer            \* answer[c]: the buffer of the channel call c reads

prompts == <<shown, queue, seq, timers>>
turns   == <<waiting, cancel, typed, turn, done>>
tools   == <<stage, owner, asking, asked>>
vars    == <<turns, prompts, autonomous, tools, answer>>

Turns == 1..MaxTurns
Kinds == {"approval", "permission", "credential", "ask"}
Requests == Calls \X Kinds

\* The order in which activateNextPrompt looks at the queues.
Rank == [approval |-> 1, permission |-> 2, credential |-> 3, ask |-> 4]

TypeOK ==
    /\ waiting \in BOOLEAN
    /\ cancel \in {0} \cup Turns
    /\ typed \in 0..MaxTyped
    /\ shown \in [Kinds -> Calls \cup {None}]
    /\ queue \in [Kinds -> Seq(Calls)]
    /\ \A k \in Kinds : Len(queue[k]) <= MaxPending
    /\ seq \in [Kinds -> Nat]
    /\ timers \subseteq [kind : Kinds, seq : Nat, of : Calls]
    /\ autonomous \in BOOLEAN
    /\ turn \in [Turns -> {"unused", "open", "closing", "over"}]
    /\ done \in [Turns -> BOOLEAN]
    /\ stage \in [Calls -> {"unused", "checking", "gating", "working",
                            "sending", "asking", "ended"}]
    /\ owner \in [Calls -> {0} \cup Turns]
    /\ asking \in [Calls -> Kinds \cup {"nothing"}]
    /\ asked \subseteq Requests
    /\ answer \in [Calls -> {"none", "yes", "no"}]

Init ==
    /\ waiting = FALSE /\ cancel = 0 /\ typed = 0
    /\ shown = [k \in Kinds |-> None]
    /\ queue = [k \in Kinds |-> << >>]
    /\ seq = [k \in Kinds |-> 0]
    /\ timers = {}
    /\ autonomous \in BOOLEAN
    /\ turn = [t \in Turns |-> "unused"]
    /\ done = [t \in Turns |-> FALSE]
    /\ stage = [c \in Calls |-> "unused"]
    /\ owner = [c \in Calls |-> 0]
    /\ asking = [c \in Calls |-> "nothing"]
    /\ asked = {}
    /\ answer = [c \in Calls |-> "none"]

-----------------------------------------------------------------------------
(* Prompts                                                                  *)

Elements(s) == {s[i] : i \in 1..Len(s)}

\* hasActiveInteractivePrompt.
Active(sh) == \E k \in Kinds : sh[k] # None

\* Non-blocking sends into buffers of one: a full buffer keeps what it has, and
\* nobody reads that of a request whose call no longer waits.
Resolve(no, yes) ==
    answer' = [c \in Calls |-> IF answer[c] # "none" THEN answer[c]
                               ELSE IF <<c, asking[c]>> \in no THEN "no"
                               ELSE IF <<c, asking[c]>> \in yes THEN "yes"
                               ELSE "none"]

\* activateXRequest: the prompt is shown under a new number, with a timer beside
\* the timers tms.
Show(sh, qs, tms, k, c) ==
    /\ shown' = [sh EXCEPT ![k] = c]
    /\ queue' = qs
    /\ seq' = [seq EXCEPT ![k] = @ + 1]
    /\ timers' = tms \cup {[kind |-> k, seq |-> seq[k] + 1, of |-> c]}

ShowNothing(sh, qs, tms) == shown' = sh /\ queue' = qs /\ timers' = tms /\ UNCHANGED seq

\* The permission requests activateNextPrompt would allow unasked: at the
\* autonomous tier each one it takes is resolved and the next one taken.
Waved(sh, qs) ==
    IF autonomous /\ ~Active(sh) /\ qs["approval"] = << >>
    THEN Elements(qs["permission"]) ELSE {}

Remaining(sh, qs) ==
    [qs EXCEPT !["permission"] = IF Waved(sh, qs) = {} THEN @ ELSE << >>]

\* activateNextPrompt, when the fields are sh and the queues qs.
ActivateNext(sh, qs, tms) ==
    LET rest == Remaining(sh, qs)
        some == {k \in Kinds : rest[k] # << >>}
    IN
    \/ (Active(sh) \/ some = {}) /\ ShowNothing(sh, rest, tms)
    \/ \E k \in some :
          /\ ~Active(sh) /\ \A j \in some : Rank[k] <= Rank[j]
          /\ Show(sh, [rest EXCEPT ![k] = Tail(@)], tms, k, Head(rest[k]))

\* The active prompt of kind k is resolved with a and the next one activated.
Settle(k, a, tms) ==
    LET sh == [shown EXCEPT ![k] = None]
        waved == {<<c, "permission">> : c \in Waved(sh, queue)}
        q == <<shown[k], k>>
    IN
    /\ Resolve(IF a = "no" THEN {q} ELSE {}, IF a = "yes" THEN waved \cup {q} ELSE waved)
    /\ ActivateNext(sh, queue, tms)

\* Faulty: an active prompt is overwritten.
MustWaitNever(k) == FALSE

\* Faulty: only an active prompt of the same kind is waited for.
MustWaitForOwn(k) == shown[k] # None

\* The first test of each of the four handlers, of kind k.
MustWait(k) == Active(shown)

\* Faulty: one request too many.
FullOffByOne(k) == Len(queue[k]) > MaxPending

\* The queue of kind k is full.
Full(k) == Len(queue[k]) >= MaxPending

\* handlePermissionAsk, handleApprovalAsk, handleCredentialAsk, handleAskUser:
\* behind an active prompt a request is queued or, when the queue of its kind
\* is full, denied; otherwise it is activated.
Arrive(c) ==
    LET k == asking[c] IN
    /\ stage[c] = "sending"
    /\ stage' = [stage EXCEPT ![c] = "asking"]
    /\ \/ /\ MustWait(k) /\ Full(k)
          /\ Resolve({<<c, k>>}, {})
          /\ UNCHANGED prompts
       \/ /\ MustWait(k) /\ ~Full(k)
          /\ ShowNothing(shown, [queue EXCEPT ![k] = Append(@, c)], timers)
          /\ UNCHANGED answer
       \/ /\ ~MustWait(k) /\ k = "permission" /\ autonomous
          /\ Resolve({}, {<<d, k>> : d \in {c} \cup Waved(shown, queue)})
          /\ ActivateNext(shown, queue, timers)
       \/ /\ ~MustWait(k) /\ ~(k = "permission" /\ autonomous)
          /\ Show(shown, queue, timers, k, c)
          /\ UNCHANGED answer
    /\ UNCHANGED <<turns, autonomous, owner, asking, asked>>

\* A key that settles the prompt on the screen; Update looks at the fields in
\* the order of Rank.
Key(k, a) ==
    /\ shown[k] # None
    /\ \A j \in Kinds : shown[j] # None => Rank[k] <= Rank[j]
    /\ Settle(k, a, timers)
    /\ UNCHANGED <<turns, autonomous, tools>>

\* Faulty: the number of the timer is not compared.
TimeoutOfAny(tm) ==
    /\ \/ shown[tm.kind] # None /\ Settle(tm.kind, "no", timers \ {tm})
       \/ shown[tm.kind] = None /\ timers' = timers \ {tm}
          /\ UNCHANGED <<shown, queue, seq, answer>>
    /\ UNCHANGED <<turns, autonomous, tools>>

\* The five minutes of a prompt are over; its handler looks whether the prompt
\* with that number is still the active one.
Timeout(tm) ==
    LET current == shown[tm.kind] # None /\ seq[tm.kind] = tm.seq IN
    /\ \/ current /\ Settle(tm.kind, "no", timers \ {tm})
       \/ ~current /\ timers' = timers \ {tm} /\ UNCHANGED <<shown, queue, seq, answer>>
    /\ UNCHANGED <<turns, autonomous, tools>>

\* clearInteractivePrompts: every request the interface knows of is denied.
ClearPrompts ==
    /\ Resolve({q \in Requests : shown[q[2]] = q[1] \/ q[1] \in Elements(queue[q[2]])}, {})
    /\ shown' = [k \in Kinds |-> None]
    /\ queue' = [k \in Kinds |-> << >>]
    /\ UNCHANGED <<seq, timers>>

-----------------------------------------------------------------------------
(* Turns, in the event loop                                                 *)

\* startStream, when m.cancel is current: an earlier turn is cancelled first.
StartStream(t, current) ==
    /\ turn[t] = "unused" /\ \A u \in Turns : u < t => turn[u] # "unused"
    /\ done' = [u \in Turns |-> done[u] \/ u = current]
    /\ cancel' = t /\ waiting' = TRUE

\* Enter, with a prompt of the user's; a permission prompt would take the keys.
Submit(t) ==
    /\ ~waiting /\ ~Active(shown)
    /\ StartStream(t, cancel)
    /\ turn' = [turn EXCEPT ![t] = "open"]
    /\ UNCHANGED <<typed, prompts, autonomous, tools, answer>>

\* Enter while a turn runs.
TypeAhead ==
    /\ waiting /\ ~Active(shown) /\ typed < MaxTyped
    /\ typed' = typed + 1
    /\ UNCHANGED <<waiting, cancel, turn, done, prompts, autonomous, tools, answer>>

\* Ctrl+C or Escape while a turn runs; the next prompt need not wait for its end.
CancelTurn ==
    /\ waiting /\ ~Active(shown) /\ cancel # 0
    /\ done' = [done EXCEPT ![cancel] = TRUE]
    /\ cancel' = 0 /\ waiting' = FALSE
    /\ UNCHANGED <<typed, turn, prompts, autonomous, tools, answer>>

\* Faulty: what the end resets is reset after the next turn was started.
DoneArrivesSwapped(t) ==
    /\ turn[t] = "closing"
    /\ ClearPrompts
    /\ \/ /\ typed = 0
          /\ turn' = [turn EXCEPT ![t] = "over"]
          /\ waiting' = FALSE /\ cancel' = 0
          /\ UNCHANGED <<typed, done>>
       \/ \E u \in Turns :
          /\ typed > 0 /\ typed' = typed - 1
          /\ turn[u] = "unused" /\ \A v \in Turns : v < u => turn[v] # "unused"
          /\ waiting' = FALSE /\ cancel' = 0
          /\ turn' = [turn EXCEPT ![t] = "over", ![u] = "open"]
          /\ UNCHANGED done
    /\ UNCHANGED <<autonomous, tools>>

\* handleStreamDone: it does not know whose end it is, ends whatever runs, and
\* starts the next prompt typed ahead.
DoneArrives(t) ==
    /\ turn[t] = "closing"
    /\ ClearPrompts
    /\ \/ /\ typed = 0
          /\ turn' = [turn EXCEPT ![t] = "over"]
          /\ waiting' = FALSE /\ cancel' = 0
          /\ UNCHANGED <<typed, done>>
       \/ \E u \in Turns :
          /\ typed > 0 /\ typed' = typed - 1
          /\ StartStream(u, 0)
          /\ turn' = [turn EXCEPT ![t] = "over", ![u] = "open"]
    /\ UNCHANGED <<autonomous, tools>>

\* streamErrMsg: the prompts typed ahead stay where they are.
ErrorArrives(t) ==
    /\ turn[t] = "closing"
    /\ ClearPrompts
    /\ turn' = [turn EXCEPT ![t] = "over"]
    /\ waiting' = FALSE /\ cancel' = 0
    /\ UNCHANGED <<typed, done, autonomous, tools>>

\* /autonomy and the like are typed at the prompt.
SwitchAutonomy ==
    /\ ~waiting /\ ~Active(shown)
    /\ autonomous' = ~autonomous
    /\ UNCHANGED <<turns, prompts, tools, answer>>

-----------------------------------------------------------------------------
(* Tool calls, in goroutines of the engine                                  *)

Goes(c, s) ==
    /\ stage' = [stage EXCEPT ![c] = s]
    /\ UNCHANGED <<turns, prompts, autonomous, owner, asked>>

\* ExecuteOne of a call of turn t; a cancelled turn runs its batch to the end.
Begin(c, t) ==
    /\ stage[c] = "unused" /\ turn[t] = "open"
    /\ stage' = [stage EXCEPT ![c] = "checking"]
    /\ owner' = [owner EXCEPT ![c] = t]
    /\ UNCHANGED <<turns, prompts, autonomous, asking, asked, answer>>

\* A request of kind k goes to the event loop, which may be busy.
Ask(c, k) ==
    /\ <<c, k>> \notin asked /\ Cardinality(asked) < MaxAsks
    /\ \/ stage[c] = "checking" /\ k = "permission"
       \/ stage[c] = "gating" /\ k = "approval" /\ ~autonomous
       \/ stage[c] = "working" /\ k \in {"credential", "ask"}
    /\ stage' = [stage EXCEPT ![c] = "sending"]
    /\ asking' = [asking EXCEPT ![c] = k]
    /\ asked' = asked \cup {<<c, k>>}
    /\ UNCHANGED <<turns, prompts, autonomous, owner, answer>>

\* Rules, tiers and earlier approvals decide without a prompt.
Allow(c) ==
    /\ \/ stage[c] = "checking" /\ Goes(c, "gating")
       \/ stage[c] = "gating" /\ Goes(c, "working")
    /\ UNCHANGED <<asking, answer>>

Deny(c) ==
    /\ stage[c] \in {"checking", "gating"} /\ Goes(c, "ended")
    /\ UNCHANGED <<asking, answer>>

Finish(c) == stage[c] = "working" /\ Goes(c, "ended") /\ UNCHANGED <<asking, answer>>

\* What a call does once its request is settled.
After(k, a) ==
    IF k \in {"credential", "ask"} THEN "working"
    ELSE IF a # "yes" THEN "ended"
    ELSE IF k = "permission" THEN "gating" ELSE "working"

\* The call goes on with answer a.
Resume(c, a) ==
    /\ stage[c] = "asking"
    /\ Goes(c, After(asking[c], a))
    /\ asking' = [asking EXCEPT ![c] = "nothing"]
    /\ answer' = [answer EXCEPT ![c] = "none"]

Hear(c) == answer[c] # "none" /\ Resume(c, answer[c])

\* The call's own five minutes are over, or the context of its turn is done,
\* which only a permission request looks at.
GiveUp(c) == Resume(c, "no")

\* All calls have returned and the loop has closed its channel: the last event
\* is on its way to the event loop.
Close(t) ==
    /\ turn[t] = "open"
    /\ \A c \in Calls : owner[c] = t => stage[c] = "ended"
    /\ turn' = [turn EXCEPT ![t] = "closing"]
    /\ UNCHANGED <<waiting, cancel, typed, done, prompts, autonomous, tools, answer>>

-----------------------------------------------------------------------------
EventLoop ==
    \/ \E c \in Calls : Arrive(c)
    \/ \E k \in Kinds, a \in {"yes", "no"} : Key(k, a)
    \/ \E tm \in timers : Timeout(tm)
    \/ \E t \in Turns : Submit(t) \/ DoneArrives(t) \/ ErrorArrives(t)
    \/ TypeAhead \/ CancelTurn \/ SwitchAutonomy

Engine ==
    \/ \E c \in Calls, t \in Turns : Begin(c, t)
    \/ \E c \in Calls, k \in Kinds : Ask(c, k)
    \/ \E c \in Calls : Allow(c) \/ Deny(c) \/ Finish(c) \/ Hear(c) \/ GiveUp(c)
    \/ \E t \in Turns : Close(t)

Next == EventLoop \/ Engine

Spec == Init /\ [][Next]_vars

-----------------------------------------------------------------------------
(* Properties                                                               *)

\* A call that waits has its answer in the channel, or the interface has its
\* request, active or queued: no order of requests, keys, timeouts and ends of
\* turns strands a tool behind a prompt nobody will see ("Never overwrite an
\* active prompt", chat_update_prompts.go:138-140).
NoPromptLost ==
    \A c \in Calls :
        LET k == asking[c] IN
        stage[c] = "asking" =>
            answer[c] # "none" \/ shown[k] = c \/ c \in Elements(queue[k])

\* There is one keyboard: of the four fields at most one is set, and a request
\* is queued only behind an active prompt, so the queues always move
\* (chat_update_prompts.go:421-428).
PromptsSerialized ==
    /\ \A j, k \in Kinds : shown[j] # None /\ shown[k] # None => j = k
    /\ ~Active(shown) => \A k \in Kinds : queue[k] = << >>

\* The timer of a prompt that was settled long ago denies no other prompt,
\* whatever is active when it fires (chat_update_prompts.go:202-213).
TimeoutsAreOwn ==
    [][\A tm \in timers : \A c \in Calls :
          (tm \notin timers' /\ answer[c] = "none" /\ answer'[c] = "no")
              => <<c, asking[c]>> = <<tm.of, tm.kind>>]_vars

Runs(t) == turn[t] = "open" /\ ~done[t]

\* Ctrl+C, Escape and the next startStream reach turn t.
Cancellable(t) == cancel = t /\ waiting

\* A turn starts as the one that Ctrl+C cancels and that the interface shows as
\* running, and as long as it runs uncancelled it loses that in one step only:
\* when the end, or the error, of another turn is handled
\* (chat_stream.go:78-87, chat_update_stream.go:119-156).
OnlyALateEndDetaches ==
    [][\A t \in Turns :
          (Runs(t)' /\ ~Cancellable(t)') =>
              /\ Runs(t)
              /\ \/ ~Cancellable(t)
                 \/ \E u \in Turns \ {t} : turn[u] = "closing" /\ turn'[u] = "over"]_vars
=============================================================================
