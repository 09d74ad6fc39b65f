----------------------------- MODULE AgentLoop -----------------------------
(***************************************************************************)
(* The agentic loop of internal/engine/stream.go and the transcript it     *)
(* sends to the model: messages, tool turns, retries of a broken stream,   *)
(* continuation of a cut-off reply, the context governor before each turn, *)
(* cancellation and the clean-up after it.                                 *)
(*                                                                         *)
(* One loop runs at a time, as in rho exec, the print mode and the daemon, *)
(* which read a stream to its end before they start the next one.  What a  *)
(* message says is left out, except for what the transcript's repair and   *)
(* compaction look at: its role, the ids of its tool calls or results,     *)
(* which results look alike and which report errors.                       *)
(***************************************************************************)
EXTENDS Naturals, Sequences, FiniteSets, SequencesExt

CONSTANTS Outputs,       \* the texts tool results can have
          Elided,        \* the text of a message that stands for similar results
          Cleared,       \* outputClearedPlaceholder
          KeepRecent,    \* clearKeepRecent, 4 in the code
          KeepHead,      \* compact: messages kept at the front, 4 in the code
          KeepTail,      \* compactBoundaryKeepEnd, 16 in the code
          KeepSummary,   \* smartCompactKeepEnd, 10 in the code
          SummaryFloor,  \* smartCompact: the longest transcript it leaves, 20 in the code
          MaxAttempts,   \* maxStreamRetries + 1, 3 in the code
          MaxRecoveries, \* maxRecoveryRetries, 3 in the code
          MaxTurns,      \* bound: turns of one loop, a limit the user can set
          MaxPrompts,    \* bound: prompts of the user
          MaxCalls,      \* bound: tool calls of one reply, below the 32 of the code
          MaxIssued      \* bound: tool calls of all replies

ASSUME TextsDiffer == Elided # Cleared /\ Outputs \cap {Elided, Cleared} = {}
ASSUME BoundsAreNaturals ==
    /\ {KeepRecent, KeepHead, KeepTail, KeepSummary, MaxAttempts} \subseteq Nat \ {0}
    /\ {SummaryFloor, MaxRecoveries, MaxTurns, MaxPrompts, MaxCalls, MaxIssued} \subseteq Nat
    /\ SummaryFloor >= KeepSummary

VARIABLES
    msgs,        \* PersistenceService.messages
    pc,          \* where the loop is, "idle" when none runs
    cancelled,   \* ctx.Err() of the loop
    turn,        \* turnCount
    escalated,   \* the loop detector has warned
    recoveries,  \* recoveryCount
    attempt,     \* streamAttempt + 1
    text,        \* textContent is not empty
    calls,       \* toolCalls, as their ids
    issued,      \* the last id the provider gave to a call
    sentAt,      \* history: issued when the current stream was opened
    prompts      \* history: prompts submitted

vars == <<msgs, pc, cancelled, turn, escalated, recoveries, attempt, text, calls,
          issued, sentAt, prompts>>

reply  == <<attempt, text, calls, sentAt>>
stream == <<reply, issued>>
counts == <<turn, escalated, recoveries>>

\* The loop is at the end of its body, where these variables are gone.
LeaveBody == attempt' = 0 /\ text' = FALSE /\ calls' = <<>> /\ sentAt' = 0

(***************************************************************************)
(* Messages.  Ids of calls start at 1; 0 is the "collapsed" of the code.   *)
(***************************************************************************)
Plain(kind) == [kind |-> kind, ids |-> {}, text |-> Elided, error |-> FALSE]
User      == Plain("user")
Assistant == Plain("assistant")
Calls(c)  == [Plain("calls") EXCEPT !.ids = {c[i] : i \in 1..Len(c)}]
Result(c, out, error) == [kind |-> "result", ids |-> {c}, text |-> out, error |-> error]
Collapsed == Result(0, Elided, FALSE)

Message == [kind : {"user", "assistant", "calls", "result"}, ids : SUBSET (0..MaxIssued),
            text : Outputs \cup {Elided, Cleared}, error : BOOLEAN]

IsResult(m) == m.kind = "result"
IsCalls(m) == m.kind = "calls"
IsToolTurn(m) == IsResult(m) \/ IsCalls(m)
FromAssistant(m) == m.kind \in {"assistant", "calls"}

(***************************************************************************)
(* CollapseRepeatedMessages, from left to right.  Of two or more errors    *)
(* with one text the first is kept; of three or more results with one text *)
(* the first and the last, with one message for those between.             *)
(***************************************************************************)
Alike(a, b, failed) == IsResult(b) /\ a.text = b.text /\ (failed => b.error)

\* The last message of the run of results, or of failed ones, that follows i.
RunEnd(s, i, failed) ==
    CHOOSE j \in i..Len(s) : /\ \A k \in (i + 1)..j : Alike(s[i], s[k], failed)
                             /\ j = Len(s) \/ ~Alike(s[i], s[j + 1], failed)

\* What is kept of the run that begins at i, and where the next run begins.
CollapsedRun(s, i) ==
    LET errors == RunEnd(s, i, TRUE)
        alike  == RunEnd(s, i, FALSE)
    IN  IF s[i].error /\ errors > i
        THEN [kept |-> <<s[i]>>, next |-> errors + 1]
        ELSE IF IsResult(s[i]) /\ alike > i + 1
        THEN [kept |-> <<s[i], Collapsed, s[alike]>>, next |-> alike + 1]
        ELSE [kept |-> <<s[i]>>, next |-> i + 1]

\* The messages from each place on, collapsed.
CollapsedFrom(s) ==
    LET from[i \in 1..(Len(s) + 1)] ==
            IF i > Len(s) THEN <<>>
            ELSE LET run == CollapsedRun(s, i) IN run.kept \o from[run.next]
    IN  from

CollapseRepeatedMessages(s) == IF Len(s) < 3 THEN s ELSE CollapsedFrom(s)[1]

(***************************************************************************)
(* ClearOldToolResults: the texts of some results give way to one          *)
(* placeholder, except in the most recent results.  Which ones it takes    *)
(* depends on their sizes.                                                 *)
(***************************************************************************)
Results(s) == {i \in 1..Len(s) : IsResult(s[i])}
Clearable(s) == {i \in Results(s) : Cardinality({j \in Results(s) : j > i}) >= KeepRecent}
ClearResults(s, old) ==
    [i \in 1..Len(s) |-> IF i \in old THEN [s[i] EXCEPT !.text = Cleared] ELSE s[i]]

(***************************************************************************)
(* compact: keep the head and the tail, moving both cuts forward past tool *)
(* turns, with one message between them.                                   *)
(***************************************************************************)
\* Faulty: cuts wherever it falls.
CutInside(s, from) == from

CutFrom(s, from) ==
    CHOOSE i \in from..(Len(s) + 1) : /\ i = Len(s) + 1 \/ ~IsToolTurn(s[i])
                                      /\ \A k \in from..(i - 1) : IsToolTurn(s[k])

Truncate(s) ==
    IF Len(s) <= KeepHead + KeepTail THEN s
    ELSE LET cutStart == CutFrom(s, KeepHead + 1)
             cutEnd   == CutFrom(s, Len(s) - KeepTail + 1)
         IN  IF cutStart >= cutEnd THEN s
             ELSE SubSeq(s, 1, cutStart - 1) \o <<User>> \o SubSeq(s, cutEnd, Len(s))

(***************************************************************************)
(* smartCompact: a summary stands for all but the end of the transcript.   *)
(* Of an oversized message at the end splitTurnCompact keeps the second    *)
(* half and what follows.                                                  *)
(***************************************************************************)
\* Faulty: acknowledges the summary before whatever follows.
SummaryAcknowledged(s, from) == <<User, Assistant>> \o SubSeq(s, from, Len(s))

SummaryBefore(s, from) ==
    <<User>> \o (IF FromAssistant(s[from]) THEN <<>> ELSE <<Assistant>>) \o SubSeq(s, from, Len(s))

Summaries(s) == IF Len(s) <= SummaryFloor THEN {}
                ELSE {SummaryBefore(s, from) : from \in (Len(s) - KeepSummary + 1)..Len(s)}

(***************************************************************************)
(* TrimIncompleteTurn.                                                     *)
(***************************************************************************)
LastCalls(s) == LET C == {i \in 1..Len(s) : IsCalls(s[i])}
                IN  IF C = {} THEN 0 ELSE CHOOSE i \in C : \A j \in C : j <= i

hasResultsForAllToolUses(s, i) ==
    s[i].ids \subseteq UNION {s[j].ids : j \in {k \in (i + 1)..Len(s) : IsResult(s[k])}}

hasOwnersForToolResults(s, n) ==
    LET i == LastCalls(SubSeq(s, 1, n - 1)) IN i > 0 /\ s[n].ids \subseteq s[i].ids

Dangling(s, n) == IsCalls(s[n]) \/ (IsResult(s[n]) /\ ~hasOwnersForToolResults(s, n))

DropDangling(s) ==
    LET keep == {n \in 1..Len(s) : ~Dangling(s, n)}
    IN  IF keep = {} THEN <<>> ELSE SubSeq(s, 1, CHOOSE n \in keep : \A k \in keep : k <= n)

TrimIncompleteTurn(s) ==
    LET i == LastCalls(s)
    IN  IF i > 0 /\ ~hasResultsForAllToolUses(s, i)
        THEN DropDangling(SubSeq(s, 1, i - 1))
        ELSE DropDangling(s)

-----------------------------------------------------------------------------
(***************************************************************************)
(* The caller.                                                             *)
(***************************************************************************)
Init ==
    /\ msgs = <<>> /\ pc = "idle" /\ cancelled = FALSE
    /\ turn = 0 /\ escalated = FALSE /\ recoveries = 0
    /\ attempt = 0 /\ text = FALSE /\ calls = <<>> /\ sentAt = 0
    /\ issued = 0 /\ prompts = 0

\* AddUser, then Stream.
Prompt ==
    /\ pc = "idle" /\ prompts < MaxPrompts
    /\ msgs' = Append(msgs, User)
    /\ pc' = "guard"
    /\ prompts' = prompts + 1
    /\ UNCHANGED <<cancelled, counts, stream>>

\* Escape, a deadline, or the end of the session.
Cancel ==
    /\ pc # "idle" /\ ~cancelled
    /\ cancelled' = TRUE
    /\ UNCHANGED <<msgs, pc, counts, stream, prompts>>

-----------------------------------------------------------------------------
(***************************************************************************)
(* checkGuardConditions.  When the loop detector finds repetition it warns *)
(* the model once and the checks go on.                                    *)
(***************************************************************************)
\* Faulty: leaves the last word to the assistant.
WarningOnly == <<Assistant>>

Warning == <<Assistant, User>>

DetectLoop(warn) ==
    /\ warn => turn > 0 /\ ~escalated
    /\ escalated' = (escalated \/ warn)
    /\ msgs' = IF warn THEN msgs \o Warning ELSE msgs

PassGuard ==
    /\ pc = "guard" /\ ~cancelled /\ turn < MaxTurns
    /\ \E warn \in BOOLEAN : DetectLoop(warn)
    /\ turn' = turn + 1
    /\ pc' = "manage"
    /\ UNCHANGED <<cancelled, recoveries, stream, prompts>>

\* Too many tokens without progress, or a doom loop, or cancelled.
StopAtGuard ==
    /\ pc = "guard"
    /\ pc' = "ending"
    /\ UNCHANGED <<msgs, cancelled, counts, stream, prompts>>

\* A limit of turns, cost or time, seen after the loop detector.
ReachLimit ==
    /\ pc = "guard" /\ ~cancelled
    /\ \E warn \in BOOLEAN : DetectLoop(warn)
    /\ pc' = "ending"
    /\ UNCHANGED <<cancelled, turn, recoveries, stream, prompts>>

(***************************************************************************)
(* ManageContextBeforeTurn: collapse, clear, then compact if the           *)
(* transcript is still too long.  How long it is in tokens is left out, so *)
(* each may happen or not.  A cancelled loop cannot truncate, and can      *)
(* summarise, since a summary may come from the token engine.              *)
(***************************************************************************)
Compact(Outcomes(_)) ==
    /\ pc = "manage"
    /\ LET s == CollapseRepeatedMessages(msgs)
       IN  \E old \in SUBSET Clearable(s) : msgs' \in Outcomes(ClearResults(s, old))
    /\ pc' = "query"
    /\ UNCHANGED <<cancelled, counts, stream, prompts>>

Truncated(s) == IF cancelled THEN {s} ELSE {s, Truncate(s)}
Summarised(s) == UNION {Truncated(t) : t \in Summaries(s)}

ManageContext == Compact(Truncated)
Summarize == Compact(Summarised)

\* A cached response of the pipeline stands for the model's.
AnswerFromCache ==
    /\ pc = "query"
    /\ msgs' = Append(msgs, Assistant)
    /\ pc' = "ending"
    /\ UNCHANGED <<cancelled, counts, stream, prompts>>

\* A blocked prompt, no model, or an error of ChatService.Stream.
Refuse ==
    /\ pc = "query"
    /\ pc' = "ending"
    /\ UNCHANGED <<msgs, cancelled, counts, stream, prompts>>

\* Faulty: keeps the calls of the broken stream.
OpenStreamOver(n) ==
    /\ attempt' = n
    /\ text' = FALSE
    /\ sentAt' = issued
    /\ pc' = "stream"
    /\ UNCHANGED <<msgs, cancelled, counts, calls, issued, prompts>>

OpenStream(n) ==
    /\ attempt' = n
    /\ text' = FALSE /\ calls' = <<>>
    /\ sentAt' = issued
    /\ pc' = "stream"
    /\ UNCHANGED <<msgs, cancelled, counts, issued, prompts>>

Send == pc = "query" /\ OpenStream(1)

(***************************************************************************)
(* The events of a stream.                                                 *)
(***************************************************************************)
StreamText ==
    /\ pc = "stream" /\ ~text
    /\ text' = TRUE
    /\ UNCHANGED <<msgs, pc, cancelled, counts, attempt, calls, issued, sentAt, prompts>>

AddCall ==
    /\ Len(calls) < MaxCalls /\ issued < MaxIssued
    /\ issued' = issued + 1
    /\ calls' = Append(calls, issued + 1)

StreamCall ==
    /\ pc = "stream" /\ AddCall
    /\ UNCHANGED <<msgs, pc, cancelled, counts, attempt, text, sentAt, prompts>>

StreamDone ==
    /\ pc = "stream"
    /\ pc' = "reply"
    /\ UNCHANGED <<msgs, cancelled, counts, stream, prompts>>

\* A stream with reasoning only: the answer is asked for with Chat.
ThinkingOnly ==
    /\ pc = "stream" /\ ~text /\ calls = <<>>
    /\ text' = TRUE
    /\ AddCall \/ UNCHANGED <<calls, issued>>
    /\ pc' = "reply"
    /\ UNCHANGED <<msgs, cancelled, counts, attempt, sentAt, prompts>>

\* An error that is not retried, for the last attempt any.
StreamFails ==
    /\ pc = "stream"
    /\ pc' = "ending" /\ LeaveBody
    /\ UNCHANGED <<msgs, cancelled, counts, issued, prompts>>

\* Faulty: one attempt more.
StreamBreaksAgain ==
    /\ pc = "stream" /\ attempt <= MaxAttempts
    /\ pc' = "retry"
    /\ UNCHANGED <<msgs, cancelled, counts, stream, prompts>>

StreamBreaks ==
    /\ pc = "stream" /\ attempt < MaxAttempts
    /\ pc' = "retry"
    /\ UNCHANGED <<msgs, cancelled, counts, stream, prompts>>

Retry == pc = "retry" /\ OpenStream(attempt + 1)

RetryFails ==
    /\ pc = "retry"
    /\ pc' = "ending" /\ LeaveBody
    /\ UNCHANGED <<msgs, cancelled, counts, issued, prompts>>

\* Faulty: waits for the provider's events only.
SeeCancelLate ==
    /\ pc = "retry" /\ cancelled
    /\ pc' = "ending" /\ LeaveBody
    /\ UNCHANGED <<msgs, cancelled, counts, issued, prompts>>

\* The two selects on ctx.Done, of the stream and of the wait for a retry.
SeeCancel ==
    /\ pc \in {"stream", "retry"} /\ cancelled
    /\ pc' = "ending" /\ LeaveBody
    /\ UNCHANGED <<msgs, cancelled, counts, issued, prompts>>

(***************************************************************************)
(* What is done with a complete reply.                                     *)
(***************************************************************************)
ReachBudget ==
    /\ pc = "reply"
    /\ pc' = "ending" /\ LeaveBody
    /\ UNCHANGED <<msgs, cancelled, counts, issued, prompts>>

\* stopReason is max_tokens.
ContinueReply ==
    /\ pc = "reply" /\ calls = <<>> /\ recoveries < MaxRecoveries
    /\ msgs' = msgs \o <<Assistant, User>>
    /\ recoveries' = recoveries + 1
    /\ pc' = "guard" /\ LeaveBody
    /\ UNCHANGED <<cancelled, turn, escalated, issued, prompts>>

Answer ==
    /\ pc = "reply" /\ calls = <<>>
    /\ msgs' = IF text THEN Append(msgs, Assistant) ELSE msgs
    /\ pc' = "ending" /\ LeaveBody
    /\ UNCHANGED <<cancelled, counts, issued, prompts>>

\* ExecuteAll, then the assistant message and one message per result.  A
\* cancelled call has a result too.
UseTools ==
    /\ pc = "reply" /\ calls # <<>>
    /\ recoveries' = 0
    /\ \E out \in [1..Len(calls) -> Outputs], error \in [1..Len(calls) -> BOOLEAN] :
           msgs' = Append(msgs, Calls(calls))
                       \o [i \in 1..Len(calls) |-> Result(calls[i], out[i], error[i])]
    /\ pc' = "guard" /\ LeaveBody
    /\ UNCHANGED <<cancelled, turn, escalated, issued, prompts>>

\* The deferred functions of agentLoop.
Finish ==
    /\ pc = "ending"
    /\ msgs' = IF cancelled THEN TrimIncompleteTurn(msgs) ELSE msgs
    /\ pc' = "idle" /\ cancelled' = FALSE
    /\ turn' = 0 /\ escalated' = FALSE /\ recoveries' = 0
    /\ UNCHANGED <<stream, prompts>>
-----------------------------------------------------------------------------
\* What the loop does without waiting for the provider.
Own == PassGuard \/ StopAtGuard \/ ReachLimit \/ ManageContext \/ Summarize \/ AnswerFromCache \/ Refuse
       \/ Send \/ SeeCancel \/ ReachBudget \/ ContinueReply \/ Answer \/ UseTools \/ Finish

Provider == StreamText \/ StreamCall \/ StreamDone \/ ThinkingOnly \/ StreamFails
            \/ StreamBreaks \/ Retry \/ RetryFails

Next == Prompt \/ Cancel \/ Own \/ Provider

Spec == Init /\ [][Next]_vars

\* The loop's goroutine is scheduled; a tool returns, if only at its timeout.
\* Nothing is assumed of the provider.
FairSpec == Spec /\ WF_vars(Own)

-----------------------------------------------------------------------------
TypeOK ==
    /\ msgs \in Seq(Message)
    /\ pc \in {"idle", "guard", "manage", "query", "stream", "retry", "reply", "ending"}
    /\ cancelled \in BOOLEAN /\ escalated \in BOOLEAN /\ text \in BOOLEAN
    /\ turn \in 0..MaxTurns /\ recoveries \in 0..MaxRecoveries
    /\ attempt \in 0..MaxAttempts
    /\ calls \in Seq(1..MaxIssued)
    /\ issued \in 0..MaxIssued /\ sentAt \in 0..MaxIssued
    /\ prompts \in 0..MaxPrompts

(***************************************************************************)
(* Results follow the assistant message that made their calls with only    *)
(* results between, and no message with calls is without a result.         *)
(***************************************************************************)
ToolTurnsTogether(s) ==
    \A i \in 1..Len(s) :
        /\ IsCalls(s[i]) => i < Len(s) /\ IsResult(s[i + 1])
        /\ IsResult(s[i]) => \E c \in 1..(i - 1) :
                                /\ IsCalls(s[c]) /\ s[i].ids \subseteq s[c].ids \cup {0}
                                /\ \A k \in (c + 1)..i : IsResult(s[k])

(***************************************************************************)
(* Collapsing, clearing, truncation and the clean-up after a cancel never  *)
(* part a tool result from its call.  A summary may.                       *)
(***************************************************************************)
ToolTurnsStayTogether ==
    [][ToolTurnsTogether(msgs) =>
           ToolTurnsTogether(msgs') \/ (Summarize /\ ~ManageContext)]_vars

(***************************************************************************)
(* Every transcript the loop hands to the provider answers every call in   *)
(* it, which persistence_service.go says the API requires.                 *)
(***************************************************************************)
EveryCallAnswered ==
    pc = "stream" => \A i \in 1..Len(msgs) :
                         IsCalls(msgs[i]) => hasResultsForAllToolUses(msgs, i)

(***************************************************************************)
(* A transcript is sent to the model only with a message of the user or a  *)
(* tool result at its end, whatever the governor, a continuation, a loop   *)
(* warning or an earlier cancelled loop did to it.                         *)
(***************************************************************************)
ModelHasTheWord ==
    pc \in {"query", "stream", "retry"} => msgs # <<>> /\ ~FromAssistant(Last(msgs))

(***************************************************************************)
(* No two messages of the assistant are adjacent, which compact.go says    *)
(* OpenAI-compatible providers reject.                                     *)
(***************************************************************************)
AssistantNeverTwice ==
    \A i \in 1..(Len(msgs) - 1) : ~(FromAssistant(msgs[i]) /\ FromAssistant(msgs[i + 1]))

(***************************************************************************)
(* The tool calls of a broken stream are forgotten when it is retried: the *)
(* loop runs only calls of the stream it opened last, each of them once.   *)
(***************************************************************************)
AttemptsDoNotMix ==
    pc \in {"stream", "reply"} =>
        /\ \A i \in 1..Len(calls) : sentAt < calls[i] /\ calls[i] <= issued
        /\ \A i, j \in 1..Len(calls) : calls[i] = calls[j] => i = j

(***************************************************************************)
(* A cancelled loop ends, although the provider may never send another     *)
(* event, and its clean-up runs.  Its events are read here: its bare sends *)
(* into the channel (stream.go:531-604) do not look at the context, and    *)
(* DaemonSessions has the loop whose reader has gone.                      *)
(***************************************************************************)
CancelEndsLoop == (cancelled /\ pc # "idle") ~> (pc = "idle")
=============================================================================
