-------------------------- MODULE AgentLoopProofs --------------------------
(***************************************************************************)
(* For every bound on attempts, turns, calls and prompts and every setting *)
(* of the context governor: the tool calls a loop runs are those of the    *)
(* stream it opened last, and the transcript it builds stays one that a    *)
(* provider accepts.                                                       *)
(***************************************************************************)
EXTENDS AgentLoop, SequenceLemmas, TLAPS

(***************************************************************************)
(* The calls read so far are in ascending order between the last call      *)
(* issued before the stream was opened and the last one issued at all.     *)
(***************************************************************************)
CallsTyped ==
    /\ issued \in Nat /\ sentAt \in Nat
    /\ calls \in Seq(Nat)

CallsOfTheStream ==
    /\ sentAt <= issued
    /\ \A i \in 1..Len(calls) : sentAt < calls[i] /\ calls[i] <= issued
    /\ \A i, j \in 1..Len(calls) : i < j => calls[i] < calls[j]

CallsInv == CallsTyped /\ CallsOfTheStream

(***************************************************************************)
(* A call event appends the next id.                                       *)
(***************************************************************************)
LEMMA AddCallKeeps == CallsInv /\ AddCall /\ UNCHANGED sentAt => CallsInv'
<1> SUFFICES ASSUME CallsInv, AddCall, UNCHANGED sentAt PROVE CallsInv'
    OBVIOUS
<1>1. calls' = Append(calls, issued + 1) /\ issued' = issued + 1
    BY DEF AddCall
<1>2. CallsTyped'
    BY <1>1 DEF CallsInv, CallsTyped
<1>3. /\ Len(calls') = Len(calls) + 1
      /\ \A i \in 1..Len(calls) : calls'[i] = calls[i]
      /\ calls'[Len(calls) + 1] = issued + 1
      /\ \A i \in 1..Len(calls) : calls[i] \in Nat
    BY <1>1 DEF CallsInv, CallsTyped
<1>4. \A i \in 1..Len(calls') : sentAt' < calls'[i] /\ calls'[i] <= issued'
    BY <1>1, <1>3 DEF CallsInv, CallsTyped, CallsOfTheStream
<1>5. \A i, j \in 1..Len(calls') : i < j => calls'[i] < calls'[j]
  <2> SUFFICES ASSUME NEW i \in 1..Len(calls'), NEW j \in 1..Len(calls'), i < j
               PROVE  calls'[i] < calls'[j]
      OBVIOUS
  <2>1. i \in 1..Len(calls) /\ (j \in 1..Len(calls) \/ j = Len(calls) + 1)
      BY <1>3 DEF CallsInv, CallsTyped
  <2>2. calls[i] <= issued /\ calls[i] \in Nat /\ calls'[i] = calls[i]
      BY <1>3, <2>1 DEF CallsInv, CallsOfTheStream
  <2>3. CASE j \in 1..Len(calls)
      BY <1>3, <2>1, <2>2, <2>3 DEF CallsInv, CallsOfTheStream
  <2>4. CASE j = Len(calls) + 1
      BY <1>3, <2>2, <2>4 DEF CallsInv, CallsTyped
  <2> QED
      BY <2>1, <2>3, <2>4
<1>6. sentAt' <= issued'
    BY <1>1 DEF CallsInv, CallsTyped, CallsOfTheStream
<1> QED
    BY <1>2, <1>4, <1>5, <1>6 DEF CallsInv, CallsOfTheStream

(***************************************************************************)
(* A stream that is opened, and a body that is left, have no calls.        *)
(***************************************************************************)
LEMMA NoCallsKeeps ==
    ASSUME CallsInv, calls' = <<>>, issued' = issued, sentAt' \in {0, issued}
    PROVE  CallsInv'
    BY DEF CallsInv, CallsTyped, CallsOfTheStream

LEMMA CallsInvInit == Init => CallsInv
    BY DEF Init, CallsInv, CallsTyped, CallsOfTheStream

LEMMA CallsInvNext == CallsInv /\ [Next]_vars => CallsInv'
<1> SUFFICES ASSUME CallsInv, [Next]_vars PROVE CallsInv'
    OBVIOUS
<1>1. ASSUME UNCHANGED <<calls, issued, sentAt>> PROVE CallsInv'
    BY <1>1 DEF CallsInv, CallsTyped, CallsOfTheStream
<1>2. ASSUME LeaveBody, UNCHANGED issued PROVE CallsInv'
    BY <1>2, NoCallsKeeps DEF LeaveBody
<1>3. ASSUME NEW n, OpenStream(n) PROVE CallsInv'
    BY <1>3, NoCallsKeeps DEF OpenStream
<1>4. CASE Prompt \/ Cancel \/ PassGuard \/ StopAtGuard \/ ReachLimit \/ AnswerFromCache
           \/ Refuse \/ Finish
    BY <1>1, <1>4 DEF Prompt, Cancel, PassGuard, StopAtGuard, ReachLimit, AnswerFromCache,
                      Refuse, Finish, stream, reply
<1>5. CASE ManageContext \/ Summarize
    BY <1>1, <1>5 DEF ManageContext, Summarize, Compact, stream, reply
<1>6. CASE Send \/ Retry
    BY <1>3, <1>6 DEF Send, Retry
<1>7. CASE StreamText \/ StreamDone \/ StreamBreaks
    BY <1>1, <1>7 DEF StreamText, StreamDone, StreamBreaks, stream, reply
<1>8. CASE StreamCall
    BY <1>8, AddCallKeeps DEF StreamCall
<1>9. CASE ThinkingOnly
    BY <1>9, <1>1, AddCallKeeps DEF ThinkingOnly
<1>10. CASE SeeCancel \/ ReachBudget \/ ContinueReply \/ Answer \/ UseTools \/ StreamFails
            \/ RetryFails
    BY <1>2, <1>10 DEF SeeCancel, ReachBudget, ContinueReply, Answer, UseTools, StreamFails,
                       RetryFails
<1>11. CASE UNCHANGED vars
    BY <1>1, <1>11 DEF vars
<1> QED
    BY <1>4, <1>5, <1>6, <1>7, <1>8, <1>9, <1>10, <1>11 DEF Next, Own, Provider

LEMMA CallsInvIsEnough == CallsInv => AttemptsDoNotMix
<1> SUFFICES ASSUME CallsInv PROVE AttemptsDoNotMix
    OBVIOUS
<1>1. \A i \in 1..Len(calls) : sentAt < calls[i] /\ calls[i] <= issued /\ calls[i] \in Nat
    BY DEF CallsInv, CallsTyped, CallsOfTheStream
<1>2. ASSUME NEW i \in 1..Len(calls), NEW j \in 1..Len(calls), calls[i] = calls[j]
      PROVE  i = j
  <2>1. ~(i < j) /\ ~(j < i)
      BY <1>1, <1>2 DEF CallsInv, CallsOfTheStream
  <2> QED
      BY <2>1 DEF CallsInv, CallsTyped
<1> QED
    BY <1>1, <1>2 DEF AttemptsDoNotMix

(***************************************************************************)
(* The tool calls of a broken stream are forgotten when it is retried: the *)
(* loop runs only calls of the stream it opened last, each of them once.   *)
(***************************************************************************)
THEOREM RetriesForgetCalls == Spec => []AttemptsDoNotMix
<1>1. Init => CallsInv
    BY CallsInvInit
<1>2. CallsInv /\ [Next]_vars => CallsInv'
    BY CallsInvNext
<1>3. CallsInv => AttemptsDoNotMix
    BY CallsInvIsEnough
<1> QED
    BY <1>1, <1>2, <1>3, PTL DEF Spec

-----------------------------------------------------------------------------
(***************************************************************************)
(* Transcripts.  Only a tool result reports an error.                      *)
(***************************************************************************)
OnlyResultsFail(s) == \A i \in 1..Len(s) : s[i].error => IsResult(s[i])

LEMMA RunOfResults ==
    ASSUME NEW s \in Seq(Message), NEW i \in 1..Len(s), NEW failed \in BOOLEAN
    PROVE  /\ RunEnd(s, i, failed) \in i..Len(s)
           /\ \A k \in (i + 1)..RunEnd(s, i, failed) : IsResult(s[k])
<1> DEFINE A == {k \in 1..Len(s) : Alike(s[i], s[k], failed)}
<1>1. PICK j \in i..Len(s) : (\A k \in (i + 1)..j : k \in A) /\ (j = Len(s) \/ j + 1 \notin A)
  <2>1. Len(s) \in Nat
      OBVIOUS
  <2> HIDE DEF A
  <2> QED
      BY <2>1, RunHasEnd
<1>2. \A k \in (i + 1)..j : Alike(s[i], s[k], failed)
    BY <1>1
<1>3. j = Len(s) \/ ~Alike(s[i], s[j + 1], failed)
    BY <1>1
<1>4. /\ RunEnd(s, i, failed) \in i..Len(s)
      /\ \A k \in (i + 1)..RunEnd(s, i, failed) : Alike(s[i], s[k], failed)
    BY <1>2, <1>3 DEF RunEnd
<1> QED
    BY <1>4 DEF Alike

(***************************************************************************)
(* Of a run the first message is kept, and of a long run of results also   *)
(* the last, with one message between them.                                *)
(***************************************************************************)
KeepsFirst(s, i, run) ==
    /\ run.kept = <<s[i]>>
    /\ run.next > i + 1 => \A k \in i..(run.next - 1) : IsResult(s[k])
KeepsEnds(s, i, run) ==
    /\ run.next > i + 1
    /\ run.kept = <<s[i], Collapsed, s[run.next - 1]>>
    /\ \A k \in i..(run.next - 1) : IsResult(s[k])

LEMMA RunIsCollapsed ==
    ASSUME NEW s \in Seq(Message), OnlyResultsFail(s), NEW i \in 1..Len(s)
    PROVE  LET run == CollapsedRun(s, i)
           IN  /\ run.next \in (i + 1)..(Len(s) + 1)
               /\ KeepsFirst(s, i, run) \/ KeepsEnds(s, i, run)
<1> DEFINE errors == RunEnd(s, i, TRUE)
           alike  == RunEnd(s, i, FALSE)
<1>1. errors \in i..Len(s) /\ \A k \in (i + 1)..errors : IsResult(s[k])
    BY RunOfResults
<1>2. alike \in i..Len(s) /\ \A k \in (i + 1)..alike : IsResult(s[k])
    BY RunOfResults
<1> HIDE DEF errors, alike
<1>3. CollapsedRun(s, i) =
          IF s[i].error /\ errors > i
          THEN [kept |-> <<s[i]>>, next |-> errors + 1]
          ELSE IF IsResult(s[i]) /\ alike > i + 1
          THEN [kept |-> <<s[i], Collapsed, s[alike]>>, next |-> alike + 1]
          ELSE [kept |-> <<s[i]>>, next |-> i + 1]
    BY DEF CollapsedRun, errors, alike
<1>4. CASE s[i].error /\ errors > i
    BY <1>1, <1>3, <1>4 DEF KeepsFirst, OnlyResultsFail
<1>5. CASE ~(s[i].error /\ errors > i) /\ IsResult(s[i]) /\ alike > i + 1
    BY <1>2, <1>3, <1>5 DEF KeepsEnds
<1>6. CASE ~(s[i].error /\ errors > i) /\ ~(IsResult(s[i]) /\ alike > i + 1)
    BY <1>3, <1>6 DEF KeepsFirst
<1> QED
    BY <1>4, <1>5, <1>6

(***************************************************************************)
(* The places of a transcript are collapsed from the right.                *)
(***************************************************************************)
LEMMA CollapseUnfolds ==
    ASSUME NEW s \in Seq(Message), OnlyResultsFail(s)
    PROVE  /\ CollapsedFrom(s)[Len(s) + 1] = <<>>
           /\ \A i \in 1..Len(s) :
                 CollapsedFrom(s)[i] =
                     CollapsedRun(s, i).kept \o CollapsedFrom(s)[CollapsedRun(s, i).next]
<1> DEFINE n == Len(s)
           piece == [i \in 1..n |-> CollapsedRun(s, i).kept]
           next  == [i \in 1..n |-> CollapsedRun(s, i).next]
           Value(f, i) == IF i > n THEN <<>>
                          ELSE CollapsedRun(s, i).kept \o f[CollapsedRun(s, i).next]
<1>1. \A i \in 1..n : next[i] \in (i + 1)..(n + 1)
    BY RunIsCollapsed
<1>2. PICK f : IsForward(f, n, piece, next)
  <2>1. n \in Nat
      OBVIOUS
  <2>2. \A i \in 1..n : next[i] \in (i + 1)..(n + 1)
      BY <1>1
  <2> HIDE DEF n, piece, next
  <2> QED
      BY <2>1, <2>2, RecursionForward
<1>3. ASSUME NEW i \in 1..(n + 1) PROVE f[i] = Value(f, i)
  <2>1. CASE i = n + 1
      BY <1>2, <2>1 DEF IsForward
  <2>2. CASE i \in 1..n
    <3>1. f[i] = piece[i] \o f[next[i]]
        BY <1>2, <2>2 DEF IsForward
    <3>2. piece[i] = CollapsedRun(s, i).kept /\ next[i] = CollapsedRun(s, i).next
        BY <2>2
    <3> HIDE DEF piece, next
    <3>3. ~(i > n)
        BY <2>2
    <3> QED
        BY <3>1, <3>2, <3>3
  <2> QED
      BY <2>1, <2>2
<1>4. f = [i \in 1..(n + 1) |-> Value(f, i)]
    BY <1>2, <1>3 DEF IsForward
<1>5. \E g : g = [i \in 1..(n + 1) |-> Value(g, i)]
    BY <1>4
<1>6. CollapsedFrom(s) = CHOOSE g : g = [i \in 1..(n + 1) |-> Value(g, i)]
    BY DEF CollapsedFrom
<1>7. CollapsedFrom(s) = [i \in 1..(n + 1) |-> Value(CollapsedFrom(s), i)]
    BY <1>5, <1>6
<1>8. ASSUME NEW i \in 1..(n + 1) PROVE CollapsedFrom(s)[i] = Value(CollapsedFrom(s), i)
    BY <1>7
<1>9. CollapsedFrom(s)[n + 1] = <<>>
  <2>1. n + 1 \in 1..(n + 1) /\ n + 1 > n
      OBVIOUS
  <2> QED
      BY <1>8, <2>1
<1>10. ASSUME NEW i \in 1..n
       PROVE  CollapsedFrom(s)[i] =
                  CollapsedRun(s, i).kept \o CollapsedFrom(s)[CollapsedRun(s, i).next]
  <2>1. i \in 1..(n + 1) /\ ~(i > n)
      OBVIOUS
  <2> QED
      BY <1>8, <2>1
<1> QED
    BY <1>9, <1>10

(***************************************************************************)
(* What is collapsed from a place on is a transcript that begins with the  *)
(* message of that place and ends with the assistant only if s does.       *)
(***************************************************************************)
AssistantsApart(s) ==
    \A i \in 1..(Len(s) - 1) : ~(FromAssistant(s[i]) /\ FromAssistant(s[i + 1]))

BeginsLike(s, i, r) ==
    /\ r \in Seq(Message) /\ OnlyResultsFail(r) /\ AssistantsApart(r)
    /\ r # <<>> /\ r[1] = s[i]
    /\ FromAssistant(Last(r)) => FromAssistant(Last(s))

LEMMA CollapsedIsMessage ==
    Collapsed \in Message /\ IsResult(Collapsed) /\ Collapsed.ids = {0}
    BY BoundsAreNaturals DEF Collapsed, Result, Message, IsResult

LEMMA KeptIsTranscript ==
    ASSUME NEW s \in Seq(Message), OnlyResultsFail(s), NEW i \in 1..Len(s)
    PROVE  LET kept == CollapsedRun(s, i).kept
           IN  /\ kept \in Seq(Message) /\ Len(kept) \in {1, 3}
               /\ kept[1] = s[i]
               /\ \/ Len(kept) = 1
                  \/ (kept[2] = Collapsed /\ kept[3] = s[CollapsedRun(s, i).next - 1])
<1> DEFINE run == CollapsedRun(s, i)
<1>1. run.next \in (i + 1)..(Len(s) + 1) /\ (KeepsFirst(s, i, run) \/ KeepsEnds(s, i, run))
    BY RunIsCollapsed
<1> HIDE DEF run
<1>2. s[i] \in Message /\ s[run.next - 1] \in Message
    BY <1>1
<1>3. CASE KeepsFirst(s, i, run)
    BY <1>2, <1>3 DEF KeepsFirst, run
<1>4. CASE KeepsEnds(s, i, run)
    BY <1>2, <1>4, CollapsedIsMessage DEF KeepsEnds, run
<1> QED
    BY <1>1, <1>3, <1>4

LEMMA CollapseKeepsRoles ==
    ASSUME NEW s \in Seq(Message), OnlyResultsFail(s), AssistantsApart(s)
    PROVE  \A i \in 1..Len(s) : BeginsLike(s, i, CollapsedFrom(s)[i])
<1> DEFINE T == {i \in 1..Len(s) : BeginsLike(s, i, CollapsedFrom(s)[i])}
<1>1. ASSUME NEW i \in 1..Len(s), \A k \in (i + 1)..Len(s) : k \in T
      PROVE  i \in T
  <2> DEFINE run == CollapsedRun(s, i)
             kept == run.kept
             rest == CollapsedFrom(s)[run.next]
             r == CollapsedFrom(s)[i]
  <2>1. run.next \in (i + 1)..(Len(s) + 1) /\ (KeepsFirst(s, i, run) \/ KeepsEnds(s, i, run))
      BY RunIsCollapsed
  <2>2. /\ kept \in Seq(Message) /\ Len(kept) \in {1, 3} /\ kept[1] = s[i]
        /\ Len(kept) = 1 \/ (kept[2] = Collapsed /\ kept[3] = s[run.next - 1])
      BY KeptIsTranscript
  <2>3. r = kept \o rest
      BY CollapseUnfolds
  <2>4. \A k \in 1..Len(kept) : IsResult(kept[k]) \/ (Len(kept) = 1 /\ run.next = i + 1)
    <3>1. CASE KeepsFirst(s, i, run)
        BY <2>1, <3>1 DEF KeepsFirst
    <3>2. CASE KeepsEnds(s, i, run)
      <4>1. IsResult(s[i]) /\ IsResult(s[run.next - 1])
          BY <2>1, <3>2 DEF KeepsEnds
      <4> QED
          BY <2>2, <4>1, CollapsedIsMessage
    <3> QED
        BY <2>1, <3>1, <3>2
  <2>5. \A k \in 1..Len(kept) : kept[k].error => IsResult(kept[k])
      BY <2>2, <2>4 DEF OnlyResultsFail
  <2> HIDE DEF run, kept, rest, r
  <2>6. CASE run.next = Len(s) + 1
    <3>1. rest = <<>>
        BY <2>6, CollapseUnfolds DEF rest
    <3>2. r = kept
        BY <2>2, <2>3, <3>1
    <3>3. AssistantsApart(kept)
      <4>1. Len(kept) \in Nat
          BY <2>2
      <4>2. ASSUME NEW k \in 1..(Len(kept) - 1) PROVE IsResult(kept[k])
        <5>1. \A n \in Nat : k \in 1..(n - 1) => k \in 1..n /\ n # 1
            OBVIOUS
        <5> QED
            BY <2>4, <4>1, <4>2, <5>1, Zenon
      <4> QED
          BY <4>2 DEF AssistantsApart, FromAssistant, IsResult
    <3>4. OnlyResultsFail(kept)
        BY <2>5 DEF OnlyResultsFail
    <3>5. FromAssistant(Last(kept)) => FromAssistant(Last(s))
        BY <2>2, <2>4, <2>6 DEF Last, FromAssistant, IsResult
    <3> QED
        BY <2>2, <3>2, <3>3, <3>4, <3>5 DEF BeginsLike, r
  <2>7. CASE run.next \in 1..Len(s)
    <3>1. BeginsLike(s, run.next, rest)
        BY <1>1, <2>1, <2>7 DEF rest
    <3>2. r \in Seq(Message) /\ Joins(r, kept, rest)
      <4>1. rest \in Seq(Message) /\ kept \in Seq(Message)
          BY <2>2, <3>1 DEF BeginsLike
      <4> QED
          BY <2>3, <4>1, ConcatJoins
    <3>3. rest \in Seq(Message) /\ Len(rest) \in Nat \ {0} /\ rest[1] = s[run.next]
        BY <3>1 DEF BeginsLike
    <3>4. Last(r) = Last(rest) /\ r # <<>> /\ r[1] = s[i]
      <4>1. Len(rest) \in 1..Len(rest) /\ 1 \in 1..Len(kept)
          BY <2>2, <3>3
      <4>2. r[Len(r)] = rest[Len(rest)] /\ r[1] = kept[1] /\ Len(r) > 0
          BY <2>2, <3>2, <3>3, <4>1 DEF Joins
      <4> QED
          BY <2>2, <3>2, <4>2 DEF Last, Joins
    <3>5. OnlyResultsFail(r)
      <4> SUFFICES ASSUME NEW k \in 1..Len(r), r[k].error PROVE IsResult(r[k])
          BY DEF OnlyResultsFail
      <4>1. CASE k \in 1..Len(kept)
          BY <2>5, <3>2, <4>1 DEF Joins
      <4>2. ASSUME NEW m \in 1..Len(rest), k = Len(kept) + m PROVE IsResult(r[k])
          BY <3>1, <3>2, <4>2 DEF BeginsLike, OnlyResultsFail, Joins
      <4> QED
          BY <3>2, <4>1, <4>2 DEF Joins
    <3>6. AssistantsApart(r)
      <4> SUFFICES ASSUME NEW k \in 1..(Len(r) - 1), FromAssistant(r[k]), FromAssistant(r[k + 1])
                   PROVE  FALSE
          BY DEF AssistantsApart
      <4>1. CASE k \in 1..Len(kept)
        <5>1. ~IsResult(kept[k])
            BY <3>2, <4>1 DEF FromAssistant, IsResult, Joins
        <5>2. Len(kept) = 1 /\ run.next = i + 1 /\ k = 1
            BY <2>4, <4>1, <5>1
        <5>3. r[k] = s[i] /\ r[k + 1] = s[i + 1]
            BY <2>2, <3>2, <3>3, <5>2 DEF Joins
        <5> QED
            BY <5>2, <5>3, <2>7 DEF AssistantsApart
      <4>2. ASSUME NEW m \in 1..Len(rest), k = Len(kept) + m PROVE FALSE
        <5>1. m \in 1..(Len(rest) - 1) /\ m + 1 \in 1..Len(rest) /\ k + 1 = Len(kept) + (m + 1)
            BY <2>2, <3>2, <3>3, <4>2 DEF Joins
        <5>2. r[k] = rest[m] /\ r[k + 1] = rest[m + 1]
            BY <3>2, <4>2, <5>1 DEF Joins
        <5> QED
            BY <3>1, <5>1, <5>2 DEF BeginsLike, AssistantsApart
      <4>3. k \in 1..Len(r)
          BY <3>2 DEF Joins
      <4> QED
          BY <3>2, <4>1, <4>2, <4>3 DEF Joins
    <3> QED
        BY <3>1, <3>2, <3>4, <3>5, <3>6 DEF BeginsLike, r, Joins
  <2> QED
      BY <2>1, <2>6, <2>7
<1>2. Len(s) \in Nat
    OBVIOUS
<1> HIDE DEF T
<1>3. \A i \in 1..Len(s) : i \in T
    BY <1>1, <1>2, InductionDown
<1> QED
    BY <1>3 DEF T

(***************************************************************************)
(* Tool turns.  A result that is collapsed away from its calls, because    *)
(* they are to the left of the place, has only results before it and is    *)
(* of the run of results that begins at the place.                         *)
(***************************************************************************)
Owned(s, p) ==
    \E c \in 1..(p - 1) : /\ IsCalls(s[c]) /\ s[p].ids \subseteq s[c].ids \cup {0}
                          /\ \A k \in (c + 1)..p : IsResult(s[k])
AnsweredNext(s, p) == p < Len(s) /\ IsResult(s[p + 1])

OwnedBefore(s, i, r, p) ==
    /\ \A k \in 1..p : IsResult(r[k])
    /\ \/ r[p] = Collapsed
       \/ \E j \in i..Len(s) : r[p] = s[j] /\ \A k \in i..j : IsResult(s[k])

TurnsFrom(s, i, r) ==
    \A p \in 1..Len(r) : /\ IsCalls(r[p]) => AnsweredNext(r, p)
                         /\ IsResult(r[p]) => Owned(r, p) \/ OwnedBefore(s, i, r, p)

LEMMA TogetherIsOwned ==
    ASSUME NEW s
    PROVE  ToolTurnsTogether(s) <=>
               \A p \in 1..Len(s) : /\ IsCalls(s[p]) => AnsweredNext(s, p)
                                    /\ IsResult(s[p]) => Owned(s, p)
    BY DEF ToolTurnsTogether, AnsweredNext, Owned

\* A turn that is whole stays so when messages are put before it.
LEMMA OwnedAfter ==
    ASSUME NEW a \in Seq(Message), NEW b \in Seq(Message), NEW r, Joins(r, a, b),
           NEW p \in 1..Len(b)
    PROVE  /\ Owned(b, p) => Owned(r, Len(a) + p)
           /\ AnsweredNext(b, p) => AnsweredNext(r, Len(a) + p)
<1>1. Len(a) \in Nat /\ Len(b) \in Nat /\ Len(r) = Len(a) + Len(b)
    BY DEF Joins
<1>2. \A k \in 1..Len(b) : r[Len(a) + k] = b[k]
    BY DEF Joins
<1>3. ASSUME Owned(b, p) PROVE Owned(r, Len(a) + p)
  <2>1. PICK c \in 1..(p - 1) : /\ IsCalls(b[c]) /\ b[p].ids \subseteq b[c].ids \cup {0}
                                /\ \A k \in (c + 1)..p : IsResult(b[k])
      BY <1>3 DEF Owned
  <2>2. /\ Len(a) + c \in 1..((Len(a) + p) - 1)
        /\ r[Len(a) + c] = b[c] /\ r[Len(a) + p] = b[p]
      BY <1>1, <1>2
  <2>3. ASSUME NEW k \in ((Len(a) + c) + 1)..(Len(a) + p) PROVE IsResult(r[k])
    <3>1. k - Len(a) \in (c + 1)..p /\ k - Len(a) \in 1..Len(b) /\ k = Len(a) + (k - Len(a))
        BY <1>1
    <3> QED
        BY <3>1, <1>2, <2>1
  <2> QED
      BY <2>1, <2>2, <2>3 DEF Owned
<1>4. ASSUME AnsweredNext(b, p) PROVE AnsweredNext(r, Len(a) + p)
  <2>1. p + 1 \in 1..Len(b) /\ Len(a) + p < Len(r) /\ (Len(a) + p) + 1 = Len(a) + (p + 1)
      BY <1>1, <1>4 DEF AnsweredNext
  <2> QED
      BY <1>2, <1>4, <2>1 DEF AnsweredNext
<1> QED
    BY <1>3, <1>4

\* A result has its calls before it, and they are the last message before it
\* that is no result.
LEMMA OwnerIsLast ==
    ASSUME NEW s \in Seq(Message), ToolTurnsTogether(s), NEW i \in 0..Len(s),
           NEW j \in (i + 1)..Len(s), \A k \in (i + 1)..j : IsResult(s[k]),
           i > 0 => ~IsResult(s[i])
    PROVE  i > 0 /\ IsCalls(s[i]) /\ s[j].ids \subseteq s[i].ids \cup {0}
<1>1. PICK c \in 1..(j - 1) : /\ IsCalls(s[c]) /\ s[j].ids \subseteq s[c].ids \cup {0}
                              /\ \A k \in (c + 1)..j : IsResult(s[k])
    BY TogetherIsOwned DEF Owned
<1>2. c <= i
    BY <1>1 DEF IsCalls, IsResult
<1>3. i <= c
    BY <1>1, <1>2
<1> QED
    BY <1>1, <1>2, <1>3

(***************************************************************************)
(* One step to the left: what is kept of a run, before the turns from the  *)
(* next run on.                                                            *)
(***************************************************************************)
RestFrom(s, i, rest) ==
    /\ rest \in Seq(Message) /\ TurnsFrom(s, i, rest)
    /\ i <= Len(s) => rest # <<>> /\ rest[1] = s[i]
    /\ i = Len(s) + 1 => rest = <<>>

LEMMA TurnsFromRun ==
    ASSUME NEW s \in Seq(Message), OnlyResultsFail(s), ToolTurnsTogether(s),
           NEW i \in 1..Len(s), NEW run, run = CollapsedRun(s, i),
           NEW rest, RestFrom(s, run.next, rest),
           NEW r, Joins(r, run.kept, rest)
    PROVE  TurnsFrom(s, i, r)
<1> DEFINE kept == run.kept
<1>1. run.next \in (i + 1)..(Len(s) + 1) /\ (KeepsFirst(s, i, run) \/ KeepsEnds(s, i, run))
    BY RunIsCollapsed
<1>2. /\ kept \in Seq(Message) /\ Len(kept) \in {1, 3} /\ kept[1] = s[i]
      /\ Len(kept) = 1 \/ (kept[2] = Collapsed /\ kept[3] = s[run.next - 1])
    BY KeptIsTranscript
<1>3. \/ Len(kept) = 1 /\ run.next = i + 1 /\ ~IsResult(s[i])
      \/ \A k \in i..(run.next - 1) : IsResult(s[k])
    BY <1>1, <1>2 DEF KeepsFirst, KeepsEnds
<1>4. /\ Len(r) = Len(kept) + Len(rest) /\ Len(rest) \in Nat
      /\ \A k \in 1..Len(kept) : r[k] = kept[k]
      /\ \A k \in 1..Len(rest) : r[Len(kept) + k] = rest[k]
      /\ \A k \in 1..Len(r) : k \in 1..Len(kept) \/ \E m \in 1..Len(rest) : k = Len(kept) + m
    BY DEF Joins, RestFrom
<1> HIDE DEF kept
\* The places of what is kept.
<1>5. ASSUME NEW p \in 1..Len(kept), IsCalls(r[p]) PROVE AnsweredNext(r, p)
  <2>1. Len(kept) = 1 /\ p = 1 /\ r[1] = s[i] /\ run.next = i + 1
    <3>1. ASSUME \A k \in i..(run.next - 1) : IsResult(s[k]) PROVE FALSE
      <4>1. IsResult(s[i]) /\ IsResult(s[run.next - 1])
          BY <1>1, <3>1
      <4>2. IsResult(kept[p])
          BY <1>2, <4>1, CollapsedIsMessage
      <4> QED
          BY <1>4, <1>5, <4>2 DEF IsCalls, IsResult
    <3> QED
        BY <1>2, <1>3, <1>4, <3>1
  <2>2. i < Len(s) /\ IsResult(s[i + 1])
      BY <1>5, <2>1, TogetherIsOwned DEF AnsweredNext
  <2>3. Len(rest) > 0 /\ rest[1] = s[i + 1]
      BY <2>1, <2>2 DEF RestFrom
  <2>4. 1 \in 1..Len(rest) /\ r[2] = rest[1] /\ Len(r) > 1
      BY <1>4, <2>1, <2>3
  <2> QED
      BY <2>1, <2>2, <2>3, <2>4 DEF AnsweredNext
<1>6. ASSUME NEW p \in 1..Len(kept), IsResult(r[p]) PROVE OwnedBefore(s, i, r, p)
  <2>1. CASE Len(kept) = 1
      BY <1>2, <1>4, <1>6, <2>1 DEF OwnedBefore
  <2>2. CASE Len(kept) = 3
    <3>1. \A k \in i..(run.next - 1) : IsResult(s[k])
        BY <1>3, <2>2
    <3>2. r[1] = s[i] /\ r[2] = Collapsed /\ r[3] = s[run.next - 1]
        BY <1>2, <1>4, <2>2
    <3>3. \A k \in 1..p : IsResult(r[k])
        BY <1>1, <2>2, <3>1, <3>2, CollapsedIsMessage
    <3>4. i \in i..Len(s) /\ run.next - 1 \in i..Len(s) /\ p \in {1, 2, 3}
        BY <1>1, <2>2
    <3>5. r[p] = Collapsed \/ \E j \in i..Len(s) : r[p] = s[j] /\ \A k \in i..j : IsResult(s[k])
      <4>1. CASE p = 1
          BY <3>2, <3>4, <4>1, <1>6
      <4>2. CASE p = 2
          BY <3>2, <4>2
      <4>3. CASE p = 3
          BY <3>1, <3>2, <3>4, <4>3
      <4> QED
          BY <3>4, <4>1, <4>2, <4>3
    <3> QED
        BY <3>3, <3>5 DEF OwnedBefore
  <2> QED
      BY <1>2, <2>1, <2>2
\* The places of the rest.
<1>7. ASSUME NEW m \in 1..Len(rest), IsCalls(rest[m]) PROVE AnsweredNext(r, Len(kept) + m)
    BY <1>2, <1>7, OwnedAfter DEF RestFrom, TurnsFrom, kept
<1>8. ASSUME NEW m \in 1..Len(rest), Owned(rest, m) PROVE Owned(r, Len(kept) + m)
    BY <1>2, <1>8, OwnedAfter DEF RestFrom, kept
<1>9. ASSUME NEW m \in 1..Len(rest), OwnedBefore(s, run.next, rest, m)
      PROVE  Owned(r, Len(kept) + m) \/ OwnedBefore(s, i, r, Len(kept) + m)
  <2> DEFINE p == Len(kept) + m
  <2>1. r[p] = rest[m] /\ \A k \in 1..m : IsResult(r[Len(kept) + k])
      BY <1>4, <1>9 DEF OwnedBefore
  <2>2. CASE \A k \in i..(run.next - 1) : IsResult(s[k])
    <3>1. \A k \in 1..Len(kept) : IsResult(kept[k])
      <4>1. IsResult(s[i]) /\ IsResult(s[run.next - 1])
          BY <1>1, <2>2
      <4> QED
          BY <1>2, <4>1, CollapsedIsMessage
    <3>2. ASSUME NEW k \in 1..p PROVE IsResult(r[k])
      <4>1. k \in 1..Len(kept) \/ (k - Len(kept) \in 1..m /\ k = Len(kept) + (k - Len(kept)))
          BY <1>2
      <4> QED
          BY <1>4, <2>1, <3>1, <4>1
    <3>3. r[p] = Collapsed \/ \E j \in i..Len(s) : r[p] = s[j] /\ \A k \in i..j : IsResult(s[k])
      <4>1. ASSUME NEW j \in run.next..Len(s), \A k \in run.next..j : IsResult(s[k])
            PROVE  j \in i..Len(s) /\ \A k \in i..j : IsResult(s[k])
          BY <1>1, <2>2, <4>1
      <4> QED
          BY <1>9, <2>1, <4>1 DEF OwnedBefore
    <3> QED
        BY <3>2, <3>3 DEF OwnedBefore
  <2>3. CASE Len(kept) = 1 /\ run.next = i + 1 /\ ~IsResult(s[i])
    <3>1. IsCalls(s[i]) /\ rest[m].ids \subseteq s[i].ids \cup {0}
      <4>1. IsResult(s[i + 1]) /\ i + 1 <= Len(s)
        <5>1. i + 1 <= Len(s)
            BY <1>1, <1>9, <2>3 DEF RestFrom
        <5>2. rest[1] = s[i + 1] /\ 1 \in 1..m
            BY <5>1, <2>3 DEF RestFrom
        <5>3. IsResult(rest[1])
            BY <5>2, <1>9 DEF OwnedBefore
        <5> QED
            BY <5>1, <5>2, <5>3
      <4>2. IsCalls(s[i])
        <5>1. i \in 0..Len(s) /\ i + 1 \in (i + 1)..Len(s) /\ \A k \in (i + 1)..(i + 1) : IsResult(s[k])
            BY <4>1
        <5> QED
            BY <5>1, <2>3, OwnerIsLast
      <4>3. ASSUME NEW j \in (i + 1)..Len(s), \A k \in (i + 1)..j : IsResult(s[k])
            PROVE  s[j].ids \subseteq s[i].ids \cup {0}
        <5>1. i \in 0..Len(s)
            OBVIOUS
        <5> QED
            BY <5>1, <4>3, <2>3, OwnerIsLast
      <4> QED
          BY <1>9, <2>3, <4>2, <4>3, CollapsedIsMessage DEF OwnedBefore
    <3>2. ASSUME NEW k \in 2..p PROVE IsResult(r[k])
      <4>1. k - 1 \in 1..m /\ k = Len(kept) + (k - 1)
          BY <2>3
      <4> QED
          BY <2>1, <4>1
    <3>3. 1 \in 1..(p - 1) /\ r[1] = s[i] /\ 1 + 1 = 2
        BY <1>2, <1>4, <2>3
    <3> HIDE DEF p
    <3>4. Owned(r, p)
        BY <2>1, <3>1, <3>2, <3>3 DEF Owned
    <3> QED
        BY <3>4 DEF p
  <2> QED
      BY <1>3, <2>2, <2>3
<1> QED
    BY <1>4, <1>5, <1>6, <1>7, <1>8, <1>9 DEF RestFrom, TurnsFrom

(***************************************************************************)
(* A sound transcript, and one the model may be asked to go on with.       *)
(***************************************************************************)
Sound(s) == s \in Seq(Message) /\ OnlyResultsFail(s) /\ AssistantsApart(s)
UsersWord(s) == s # <<>> /\ ~FromAssistant(Last(s))

LEMMA CollapseKeepsTurns ==
    ASSUME NEW s \in Seq(Message), Sound(s), ToolTurnsTogether(s), s # <<>>
    PROVE  ToolTurnsTogether(CollapsedFrom(s)[1])
<1> DEFINE T == {i \in 1..Len(s) : TurnsFrom(s, i, CollapsedFrom(s)[i])}
<1>1. \A i \in 1..Len(s) : BeginsLike(s, i, CollapsedFrom(s)[i])
    BY CollapseKeepsRoles DEF Sound
<1>2. ASSUME NEW i \in 1..Len(s), \A k \in (i + 1)..Len(s) : k \in T
      PROVE  i \in T
  <2> DEFINE run == CollapsedRun(s, i)
             rest == CollapsedFrom(s)[run.next]
             r == CollapsedFrom(s)[i]
  <2>1. run.next \in (i + 1)..(Len(s) + 1)
      BY RunIsCollapsed DEF Sound
  <2>2. run.kept \in Seq(Message)
      BY KeptIsTranscript DEF Sound
  <2>3. r = run.kept \o rest
      BY CollapseUnfolds DEF Sound
  <2>4. run.next = Len(s) + 1 => rest = <<>>
      BY CollapseUnfolds DEF Sound
  <2>5. rest \in Seq(Message)
    <3>1. CASE run.next = Len(s) + 1
      <4>1. rest = <<>>
          BY <2>4, <3>1
      <4> HIDE DEF rest
      <4> QED
          BY <4>1
    <3>2. CASE run.next \in 1..Len(s)
        BY <1>1, <3>2 DEF BeginsLike
    <3> QED
        BY <2>1, <3>1, <3>2
  <2>6. run.next <= Len(s) => rest # <<>> /\ rest[1] = s[run.next]
      BY <1>1, <2>1 DEF BeginsLike
  <2>7. TurnsFrom(s, run.next, rest)
    <3>1. CASE run.next = Len(s) + 1
        BY <2>4, <3>1 DEF TurnsFrom
    <3>2. CASE run.next \in (i + 1)..Len(s)
        BY <1>2, <3>2
    <3> QED
        BY <2>1, <3>1, <3>2
  <2> HIDE DEF rest, r
  <2>8. Joins(r, run.kept, rest)
      BY <2>2, <2>3, <2>5, ConcatJoins
  <2> HIDE DEF run
  <2>9. TurnsFrom(s, i, r)
    <3>1. RestFrom(s, run.next, rest)
        BY <2>4, <2>5, <2>6, <2>7 DEF RestFrom
    <3> QED
        BY <2>8, <3>1, TurnsFromRun DEF Sound, run
  <2> QED
      BY <2>9 DEF r
<1>3. 1 \in T
  <2>1. Len(s) \in Nat /\ 1 \in 1..Len(s)
      OBVIOUS
  <2> HIDE DEF T
  <2> QED
      BY <1>2, <2>1, InductionDown
<1> DEFINE r == CollapsedFrom(s)[1]
<1>4. r[1] = s[1] /\ r \in Seq(Message) /\ TurnsFrom(s, 1, r)
    BY <1>1, <1>3 DEF BeginsLike
<1> HIDE DEF r
<1>5. ASSUME NEW p \in 1..Len(r), OwnedBefore(s, 1, r, p) PROVE FALSE
  <2>1. IsResult(s[1])
      BY <1>4, <1>5 DEF OwnedBefore
  <2> QED
      BY <2>1, TogetherIsOwned DEF Owned
<1>6. ToolTurnsTogether(r)
    BY <1>4, <1>5, TogetherIsOwned DEF TurnsFrom
<1> QED
    BY <1>6 DEF r

(***************************************************************************)
(* CollapseRepeatedMessages keeps a transcript sound, its last word and    *)
(* its tool turns.                                                         *)
(***************************************************************************)
LEMMA CollapseKeeps ==
    ASSUME NEW s, Sound(s)
    PROVE  LET r == CollapseRepeatedMessages(s)
           IN  /\ Sound(r) /\ (UsersWord(s) => UsersWord(r))
               /\ ToolTurnsTogether(s) => ToolTurnsTogether(r)
<1>1. CASE Len(s) < 3
    BY <1>1 DEF CollapseRepeatedMessages
<1>2. CASE ~(Len(s) < 3)
  <2>1. s \in Seq(Message) /\ s # <<>> /\ 1 \in 1..Len(s)
      BY <1>2 DEF Sound
  <2>2. BeginsLike(s, 1, CollapsedFrom(s)[1])
      BY <2>1, CollapseKeepsRoles DEF Sound
  <2>3. ToolTurnsTogether(s) => ToolTurnsTogether(CollapsedFrom(s)[1])
      BY <2>1, CollapseKeepsTurns
  <2> QED
      BY <1>2, <2>2, <2>3 DEF CollapseRepeatedMessages, BeginsLike, Sound, UsersWord
<1> QED
    BY <1>1, <1>2

(***************************************************************************)
(* Transcripts one after the other, and parts of a transcript.             *)
(***************************************************************************)
LEMMA JoinKeepsRoles ==
    ASSUME NEW a, NEW b, Sound(a), Sound(b),
           a # <<>> /\ b # <<>> => ~(FromAssistant(Last(a)) /\ FromAssistant(b[1]))
    PROVE  /\ Sound(a \o b)
           /\ UsersWord(b) => UsersWord(a \o b)
           /\ a # <<>> => a \o b # <<>> /\ (a \o b)[1] = a[1]
<1> DEFINE r == a \o b
<1>1. a \in Seq(Message) /\ b \in Seq(Message)
    BY DEF Sound
<1>2. r \in Seq(Message) /\ Joins(r, a, b)
    BY <1>1, ConcatJoins
<1> HIDE DEF r
<1>3. /\ Len(a) \in Nat /\ Len(b) \in Nat /\ Len(r) = Len(a) + Len(b)
      /\ \A k \in 1..Len(a) : r[k] = a[k]
      /\ \A k \in 1..Len(b) : r[Len(a) + k] = b[k]
      /\ \A k \in 1..Len(r) : k \in 1..Len(a) \/ \E m \in 1..Len(b) : k = Len(a) + m
    BY <1>1, <1>2 DEF Joins
<1>4. OnlyResultsFail(r)
    BY <1>3 DEF Sound, OnlyResultsFail
<1>5. AssistantsApart(r)
  <2> SUFFICES ASSUME NEW k \in 1..(Len(r) - 1), FromAssistant(r[k]), FromAssistant(r[k + 1])
               PROVE  FALSE
      BY DEF AssistantsApart
  <2>1. CASE k \in 1..(Len(a) - 1)
      BY <1>3, <2>1 DEF Sound, AssistantsApart
  <2>2. CASE k = Len(a)
    <3>1. Len(a) > 0 /\ Len(b) > 0 /\ a # <<>> /\ b # <<>>
        BY <1>1, <1>3, <2>2
    <3>2. r[k] = a[Len(a)] /\ 1 \in 1..Len(b)
        BY <1>3, <2>2, <3>1
    <3>3. r[k + 1] = b[1]
        BY <1>3, <2>2, <3>2
    <3> QED
        BY <3>1, <3>2, <3>3 DEF Last
  <2>3. ASSUME NEW m \in 1..Len(b), k = Len(a) + m PROVE FALSE
    <3>1. m \in 1..(Len(b) - 1) /\ m + 1 \in 1..Len(b) /\ k + 1 = Len(a) + (m + 1)
        BY <1>3, <2>3
    <3>2. r[k] = b[m] /\ r[k + 1] = b[m + 1]
        BY <1>3, <2>3, <3>1
    <3> QED
        BY <3>1, <3>2 DEF Sound, AssistantsApart
  <2>4. k \in 1..Len(r)
      BY <1>3
  <2>5. k \in 1..Len(a) => k \in 1..(Len(a) - 1) \/ k = Len(a)
      BY <1>3
  <2> QED
      BY <1>3, <2>1, <2>2, <2>3, <2>4, <2>5
<1>6. ASSUME UsersWord(b) PROVE UsersWord(r)
  <2>1. Len(b) \in 1..Len(b)
      BY <1>1, <1>6 DEF UsersWord
  <2>2. r[Len(r)] = b[Len(b)] /\ Len(r) > 0
      BY <1>3, <2>1
  <2> QED
      BY <1>2, <1>6, <2>2 DEF UsersWord, Last
<1>7. ASSUME a # <<>> PROVE r # <<>> /\ r[1] = a[1]
  <2>1. Len(a) > 0
      BY <1>1, <1>7
  <2> QED
      BY <1>2, <1>3, <2>1
<1> QED
    BY <1>2, <1>4, <1>5, <1>6, <1>7 DEF Sound, r

LEMMA JoinKeepsTurns ==
    ASSUME NEW a \in Seq(Message), NEW b \in Seq(Message),
           ToolTurnsTogether(a), ToolTurnsTogether(b)
    PROVE  ToolTurnsTogether(a \o b)
<1> DEFINE r == a \o b
<1>1. Joins(r, a, b)
    BY ConcatJoins
<1> HIDE DEF r
<1>2. /\ Len(a) \in Nat /\ Len(b) \in Nat /\ Len(r) = Len(a) + Len(b)
      /\ \A k \in 1..Len(a) : r[k] = a[k]
      /\ \A k \in 1..Len(b) : r[Len(a) + k] = b[k]
      /\ \A k \in 1..Len(r) : k \in 1..Len(a) \/ \E m \in 1..Len(b) : k = Len(a) + m
    BY <1>1 DEF Joins
<1>3. ASSUME NEW p \in 1..Len(a)
      PROVE  /\ IsCalls(r[p]) => AnsweredNext(r, p)
             /\ IsResult(r[p]) => Owned(r, p)
  <2>1. r[p] = a[p]
      BY <1>2
  <2>2. ASSUME IsCalls(a[p]) PROVE AnsweredNext(r, p)
    <3>1. AnsweredNext(a, p)
        BY <2>2, TogetherIsOwned
    <3>2. p + 1 \in 1..Len(a)
        BY <3>1 DEF AnsweredNext
    <3> QED
        BY <1>2, <3>1, <3>2 DEF AnsweredNext
  <2>3. ASSUME IsResult(a[p]) PROVE Owned(r, p)
    <3>1. Owned(a, p)
        BY <2>3, TogetherIsOwned
    <3>2. \A k \in 1..p : r[k] = a[k]
        BY <1>2
    <3> QED
        BY <3>1, <3>2 DEF Owned
  <2> QED
      BY <2>1, <2>2, <2>3
<1>4. ASSUME NEW m \in 1..Len(b)
      PROVE  /\ IsCalls(r[Len(a) + m]) => AnsweredNext(r, Len(a) + m)
             /\ IsResult(r[Len(a) + m]) => Owned(r, Len(a) + m)
  <2>1. r[Len(a) + m] = b[m]
      BY <1>2
  <2> QED
      BY <1>1, <2>1, OwnedAfter, TogetherIsOwned
<1>5. ToolTurnsTogether(r)
    BY <1>2, <1>3, <1>4, TogetherIsOwned
<1> QED
    BY <1>5 DEF r

LEMMA PrefixKeeps ==
    ASSUME NEW s, Sound(s), NEW n \in 0..Len(s)
    PROVE  LET r == SubSeq(s, 1, n)
           IN  /\ Sound(r) /\ Len(r) = n /\ \A k \in 1..n : r[k] = s[k]
               /\ ToolTurnsTogether(s) /\ (n > 0 => ~IsCalls(s[n])) => ToolTurnsTogether(r)
<1> DEFINE r == SubSeq(s, 1, n)
<1>1. s \in Seq(Message)
    BY DEF Sound
<1>2. r \in Seq(Message) /\ Len(r) = n /\ \A k \in 1..n : r[k] = s[k]
    BY <1>1, SubSeqProperties
<1> HIDE DEF r
<1>3. Sound(r)
    BY <1>2 DEF Sound, OnlyResultsFail, AssistantsApart
<1>4. ASSUME ToolTurnsTogether(s), n > 0 => ~IsCalls(s[n]) PROVE ToolTurnsTogether(r)
  <2>1. ASSUME NEW p \in 1..n, IsCalls(r[p]) PROVE AnsweredNext(r, p)
    <3>1. AnsweredNext(s, p) /\ p # n
        BY <1>2, <1>4, <2>1, TogetherIsOwned
    <3> QED
        BY <1>2, <3>1 DEF AnsweredNext
  <2>2. ASSUME NEW p \in 1..n, IsResult(r[p]) PROVE Owned(r, p)
    <3>1. Owned(s, p)
        BY <1>2, <1>4, <2>2, TogetherIsOwned
    <3>2. \A k \in 1..p : r[k] = s[k]
        BY <1>2
    <3> QED
        BY <3>1, <3>2 DEF Owned
  <2> QED
      BY <1>2, <2>1, <2>2, TogetherIsOwned
<1> QED
    BY <1>2, <1>3, <1>4 DEF r

LEMMA SuffixKeeps ==
    ASSUME NEW s, Sound(s), NEW m \in 1..(Len(s) + 1)
    PROVE  LET r == SubSeq(s, m, Len(s))
           IN  /\ Sound(r)
               /\ m = Len(s) + 1 => r = <<>>
               /\ m <= Len(s) => r # <<>> /\ r[1] = s[m] /\ Last(r) = Last(s)
               /\ ToolTurnsTogether(s) /\ (m <= Len(s) => ~IsToolTurn(s[m])) => ToolTurnsTogether(r)
<1> DEFINE r == SubSeq(s, m, Len(s))
           d == m - 1
<1>1. s \in Seq(Message) /\ Len(s) \in Nat /\ d \in 0..Len(s) /\ m = d + 1
    BY DEF Sound
<1>2. /\ r \in Seq(Message) /\ Len(r) = Len(s) - d
      /\ \A k \in 1..Len(r) : d + k \in 1..Len(s) /\ r[k] = s[d + k]
  <2>1. \A k \in m..Len(s) : s[k] \in Message
      BY <1>1
  <2>2. r \in Seq(Message) /\ Len(r) = Len(s) - d
      BY <1>1, <2>1, SubSeqProperties
  <2>3. \A k \in 1..((Len(s) - m) + 1) : r[k] = s[(m + k) - 1]
      BY <1>1, <2>1, SubSeqProperties
  <2>4. ASSUME NEW k \in 1..Len(r) PROVE d + k \in 1..Len(s) /\ r[k] = s[d + k]
    <3>1. k \in 1..((Len(s) - m) + 1) /\ (m + k) - 1 = d + k /\ d + k \in 1..Len(s)
        BY <1>1, <2>2
    <3> QED
        BY <2>3, <3>1
  <2> QED
      BY <2>2, <2>4
<1> HIDE DEF r, d
<1>3. OnlyResultsFail(r)
    BY <1>2 DEF Sound, OnlyResultsFail
<1>4. AssistantsApart(r)
  <2> SUFFICES ASSUME NEW k \in 1..(Len(r) - 1), FromAssistant(r[k]), FromAssistant(r[k + 1])
               PROVE  FALSE
      BY DEF AssistantsApart
  <2>1. k \in 1..Len(r) /\ k + 1 \in 1..Len(r) /\ d + (k + 1) = (d + k) + 1 /\ d + k \in 1..(Len(s) - 1)
      BY <1>1, <1>2
  <2>2. r[k] = s[d + k] /\ r[k + 1] = s[(d + k) + 1]
      BY <1>2, <2>1
  <2> QED
      BY <2>1, <2>2 DEF Sound, AssistantsApart
<1>5. ASSUME m <= Len(s) PROVE r # <<>> /\ r[1] = s[m] /\ Last(r) = Last(s)
  <2>1. Len(r) > 0 /\ 1 \in 1..Len(r) /\ Len(r) \in 1..Len(r) /\ d + Len(r) = Len(s)
      BY <1>1, <1>2, <1>5
  <2>2. r[1] = s[m] /\ r[Len(r)] = s[Len(s)]
      BY <1>1, <1>2, <2>1
  <2> QED
      BY <1>2, <2>1, <2>2 DEF Last
<1>6. ASSUME ToolTurnsTogether(s), m <= Len(s) => ~IsToolTurn(s[m]) PROVE ToolTurnsTogether(r)
  <2>1. ASSUME NEW p \in 1..Len(r), IsCalls(r[p]) PROVE AnsweredNext(r, p)
    <3>1. AnsweredNext(s, d + p)
        BY <1>2, <1>6, <2>1, TogetherIsOwned
    <3>2. p < Len(r) /\ p + 1 \in 1..Len(r) /\ d + (p + 1) = (d + p) + 1
        BY <1>1, <1>2, <3>1 DEF AnsweredNext
    <3>3. r[p + 1] = s[(d + p) + 1]
        BY <1>2, <3>2
    <3> QED
        BY <3>1, <3>2, <3>3 DEF AnsweredNext
  <2>2. ASSUME NEW p \in 1..Len(r), IsResult(r[p]) PROVE Owned(r, p)
    <3>1. PICK c \in 1..((d + p) - 1) : /\ IsCalls(s[c]) /\ s[d + p].ids \subseteq s[c].ids \cup {0}
                                        /\ \A k \in (c + 1)..(d + p) : IsResult(s[k])
        BY <1>2, <1>6, <2>2, TogetherIsOwned DEF Owned
    <3>2. m <= Len(s) /\ m <= d + p
        BY <1>1, <1>2
    <3>3. c > m
        BY <1>1, <1>6, <3>1, <3>2 DEF IsToolTurn
    <3>4. c - d \in 1..(p - 1) /\ c - d \in 1..Len(r) /\ d + (c - d) = c
        BY <1>1, <1>2, <3>1, <3>3
    <3>5. IsCalls(r[c - d]) /\ r[p].ids \subseteq r[c - d].ids \cup {0}
        BY <1>2, <3>1, <3>4
    <3>6. ASSUME NEW k \in ((c - d) + 1)..p PROVE IsResult(r[k])
      <4>1. k \in 1..Len(r) /\ d + k \in (c + 1)..(d + p)
          BY <1>1, <3>4
      <4> QED
          BY <1>2, <3>1, <4>1
    <3> QED
        BY <3>4, <3>5, <3>6 DEF Owned
  <2> QED
      BY <2>1, <2>2, TogetherIsOwned
<1>7. ASSUME m = Len(s) + 1 PROVE r = <<>>
  <2>1. Len(r) = 0
      BY <1>1, <1>2, <1>7
  <2> QED
      BY <1>2, <2>1
<1> QED
    BY <1>2, <1>3, <1>4, <1>5, <1>6, <1>7 DEF r, Sound

(***************************************************************************)
(* ClearOldToolResults changes texts only.                                 *)
(***************************************************************************)
LEMMA ClearKeeps ==
    ASSUME NEW s, Sound(s), NEW old
    PROVE  LET r == ClearResults(s, old)
           IN  /\ Sound(r) /\ (UsersWord(s) => UsersWord(r))
               /\ ToolTurnsTogether(s) => ToolTurnsTogether(r)
<1> DEFINE r == ClearResults(s, old)
<1>1. s \in Seq(Message) /\ Len(s) \in Nat
    BY DEF Sound
<1>2. ASSUME NEW i \in 1..Len(s)
      PROVE  /\ r[i] \in Message /\ r[i].kind = s[i].kind /\ r[i].ids = s[i].ids
             /\ r[i].error = s[i].error
  <2>1. s[i] \in Message /\ r[i] = IF i \in old THEN [s[i] EXCEPT !.text = Cleared] ELSE s[i]
      BY <1>1 DEF ClearResults
  <2> HIDE DEF r
  <2> QED
      BY <2>1 DEF Message
<1>3. r \in Seq(Message) /\ Len(r) = Len(s)
  <2>1. r = [i \in 1..Len(s) |-> r[i]]
      BY DEF ClearResults
  <2> HIDE DEF r
  <2>2. r \in [1..Len(s) -> Message]
      BY <1>2, <2>1
  <2> QED
      BY <1>1, <2>2
<1> HIDE DEF r
<1>4. Sound(r)
    BY <1>1, <1>2, <1>3, SMTT(30) DEF Sound, OnlyResultsFail, AssistantsApart, IsResult, FromAssistant
<1>5. UsersWord(s) => UsersWord(r)
  <2>1. s # <<>> => Len(s) \in 1..Len(s)
      BY <1>1
  <2> QED
      BY <1>1, <1>2, <1>3, <2>1 DEF UsersWord, Last, FromAssistant
<1>6. ASSUME ToolTurnsTogether(s) PROVE ToolTurnsTogether(r)
  <2>1. \A k \in 1..Len(s) : /\ IsResult(r[k]) <=> IsResult(s[k])
                             /\ IsCalls(r[k]) <=> IsCalls(s[k])
      BY <1>2 DEF IsResult, IsCalls
  <2>2. ASSUME NEW p \in 1..Len(r), IsCalls(r[p]) PROVE AnsweredNext(r, p)
    <3>1. AnsweredNext(s, p)
        BY <1>3, <1>6, <2>1, <2>2, TogetherIsOwned
    <3>2. p + 1 \in 1..Len(s)
        BY <1>3, <3>1 DEF AnsweredNext
    <3> QED
        BY <1>3, <2>1, <3>1, <3>2 DEF AnsweredNext
  <2>3. ASSUME NEW p \in 1..Len(r), IsResult(r[p]) PROVE Owned(r, p)
    <3>1. PICK c \in 1..(p - 1) : /\ IsCalls(s[c]) /\ s[p].ids \subseteq s[c].ids \cup {0}
                                  /\ \A k \in (c + 1)..p : IsResult(s[k])
        BY <1>3, <1>6, <2>1, <2>3, TogetherIsOwned DEF Owned
    <3>2. c \in 1..Len(s) /\ \A k \in (c + 1)..p : k \in 1..Len(s)
        BY <1>3
    <3> QED
        BY <1>2, <1>3, <2>1, <3>1, <3>2 DEF Owned
  <2> QED
      BY <2>2, <2>3, TogetherIsOwned
<1> QED
    BY <1>4, <1>5, <1>6 DEF r

(***************************************************************************)
(* compact cuts where no tool turn goes on.                                *)
(***************************************************************************)
LEMMA CutIsClean ==
    ASSUME NEW s \in Seq(Message), NEW from \in 1..(Len(s) + 1)
    PROVE  /\ CutFrom(s, from) \in from..(Len(s) + 1)
           /\ CutFrom(s, from) = Len(s) + 1 \/ ~IsToolTurn(s[CutFrom(s, from)])
<1> DEFINE T == {i \in from..(Len(s) + 1) : i = Len(s) + 1 \/ ~IsToolTurn(s[i])}
<1>1. T \in SUBSET Nat /\ Len(s) + 1 \in T
    OBVIOUS
<1>2. PICK i \in T : \A k \in T : i <= k
  <2> HIDE DEF T
  <2> QED
      BY <1>1, LeastNumber
<1>3. /\ i \in from..(Len(s) + 1) /\ (i = Len(s) + 1 \/ ~IsToolTurn(s[i]))
      /\ \A k \in from..(i - 1) : IsToolTurn(s[k])
  <2>1. ASSUME NEW k \in from..(i - 1), ~IsToolTurn(s[k]) PROVE FALSE
    <3>1. k \in T
        BY <2>1
    <3>2. i <= k
        BY <1>2, <3>1
    <3> QED
        BY <1>1, <3>2
  <2> QED
      BY <2>1
<1> HIDE DEF T
<1> QED
    BY <1>3 DEF CutFrom

LEMMA OneMessage ==
    /\ Sound(<<User>>) /\ UsersWord(<<User>>) /\ ToolTurnsTogether(<<User>>)
    /\ Sound(<<Assistant>>) /\ ToolTurnsTogether(<<Assistant>>)
    /\ Sound(<<Assistant, User>>) /\ UsersWord(<<Assistant, User>>)
    /\ ToolTurnsTogether(<<Assistant, User>>)
    /\ Sound(<<User, Assistant>>)
    /\ ~FromAssistant(User) /\ FromAssistant(Assistant)
<1>1. User \in Message /\ ~User.error /\ User.kind = "user"
    BY DEF User, Plain, Message
<1>2. Assistant \in Message /\ ~Assistant.error /\ Assistant.kind = "assistant"
    BY DEF Assistant, Plain, Message
<1>3. ~FromAssistant(User) /\ FromAssistant(Assistant)
    BY <1>1, <1>2 DEF FromAssistant
<1>4. Sound(<<User>>) /\ Sound(<<Assistant>>)
    BY <1>1, <1>2 DEF Sound, OnlyResultsFail, AssistantsApart
<1>5. Sound(<<Assistant, User>>) /\ Sound(<<User, Assistant>>)
    BY <1>1, <1>2, <1>3 DEF Sound, OnlyResultsFail, AssistantsApart
<1>6. UsersWord(<<User>>) /\ UsersWord(<<Assistant, User>>)
    BY <1>1, <1>2, <1>3 DEF UsersWord, Last
<1>7. /\ ToolTurnsTogether(<<User>>) /\ ToolTurnsTogether(<<Assistant>>)
      /\ ToolTurnsTogether(<<Assistant, User>>)
    BY <1>1, <1>2 DEF ToolTurnsTogether, IsCalls, IsResult
<1> QED
    BY <1>3, <1>4, <1>5, <1>6, <1>7

(***************************************************************************)
(* compact: the head, one message of the user and the tail.                *)
(***************************************************************************)
LEMMA TruncateKeeps ==
    ASSUME NEW s, Sound(s)
    PROVE  LET r == Truncate(s)
           IN  /\ Sound(r) /\ (UsersWord(s) => UsersWord(r))
               /\ ToolTurnsTogether(s) => ToolTurnsTogether(r)
<1>1. s \in Seq(Message) /\ Len(s) \in Nat
    BY DEF Sound
<1>2. KeepHead \in Nat \ {0} /\ KeepTail \in Nat \ {0}
    BY BoundsAreNaturals
<1> DEFINE cutStart == CutFrom(s, KeepHead + 1)
           cutEnd == CutFrom(s, Len(s) - KeepTail + 1)
<1>3. CASE Len(s) <= KeepHead + KeepTail \/ cutStart >= cutEnd
    BY <1>3 DEF Truncate
<1>4. CASE Len(s) > KeepHead + KeepTail /\ ~(cutStart >= cutEnd)
  <2> DEFINE a == SubSeq(s, 1, cutStart - 1)
             b == SubSeq(s, cutEnd, Len(s))
  <2>1. KeepHead + 1 \in 1..(Len(s) + 1) /\ Len(s) - KeepTail + 1 \in 1..(Len(s) + 1)
      BY <1>1, <1>2, <1>4
  <2>2. /\ cutStart \in (KeepHead + 1)..(Len(s) + 1)
        /\ cutEnd \in 1..(Len(s) + 1)
        /\ cutStart = Len(s) + 1 \/ ~IsToolTurn(s[cutStart])
        /\ cutEnd = Len(s) + 1 \/ ~IsToolTurn(s[cutEnd])
      BY <1>1, <1>2, <2>1, CutIsClean
  <2> HIDE DEF cutStart, cutEnd
  <2>3. cutStart - 1 \in 0..Len(s) /\ cutStart <= Len(s) /\ cutStart - 1 > 0
      BY <1>1, <1>2, <1>4, <2>2
  <2>4. Truncate(s) = (a \o <<User>>) \o b
    <3>1. Truncate(s) = a \o <<User>> \o b
      <4>1. ~(Len(s) <= KeepHead + KeepTail)
          BY <1>1, <1>2, <1>4
      <4>2. Truncate(s) = IF cutStart >= cutEnd THEN s ELSE a \o <<User>> \o b
          BY <4>1, Zenon DEF Truncate, cutStart, cutEnd
      <4> QED
          BY <1>4, <4>2
    <3> QED
        BY <3>1
  <2>5. Sound(a) /\ Len(a) = cutStart - 1
      BY <2>3, PrefixKeeps
  <2>6. ASSUME ToolTurnsTogether(s) PROVE ToolTurnsTogether(a)
    <3>1. ~IsCalls(s[cutStart - 1])
      <4>1. ASSUME IsCalls(s[cutStart - 1]) PROVE FALSE
        <5>1. cutStart - 1 \in 1..Len(s) /\ (cutStart - 1) + 1 = cutStart
            BY <1>1, <2>2, <2>3
        <5>2. AnsweredNext(s, cutStart - 1)
            BY <2>6, <4>1, <5>1, TogetherIsOwned
        <5> QED
            BY <2>2, <2>3, <5>1, <5>2 DEF AnsweredNext, IsToolTurn
      <4> QED
          BY <4>1
    <3> QED
        BY <2>3, <2>6, <3>1, PrefixKeeps
  <2>7. /\ Sound(b)
        /\ cutEnd = Len(s) + 1 => b = <<>>
        /\ cutEnd <= Len(s) => b # <<>> /\ Last(b) = Last(s)
        /\ ToolTurnsTogether(s) => ToolTurnsTogether(b)
      BY <2>2, SuffixKeeps
  <2> HIDE DEF a, b
  <2>8. Sound(a \o <<User>>) /\ UsersWord(a \o <<User>>) /\ Last(a \o <<User>>) = User
    <3>1. <<User>>[1] = User
        OBVIOUS
    <3>2. Sound(a \o <<User>>) /\ UsersWord(a \o <<User>>)
        BY <2>5, <3>1, OneMessage, JoinKeepsRoles
    <3>3. a \in Seq(Message) /\ <<User>> \in Seq(Message)
        BY <2>5, OneMessage DEF Sound
    <3>4. Joins(a \o <<User>>, a, <<User>>)
        BY <3>3, ConcatJoins
    <3>5. Last(a \o <<User>>) = User
        BY <3>4 DEF Joins, Last
    <3> QED
        BY <3>2, <3>5
  <2>9. Sound((a \o <<User>>) \o b) /\ (UsersWord(b) => UsersWord((a \o <<User>>) \o b))
      BY <2>7, <2>8, OneMessage, JoinKeepsRoles
  <2>10. UsersWord(s) => UsersWord((a \o <<User>>) \o b)
    <3>1. CASE cutEnd = Len(s) + 1
      <4>1. (a \o <<User>>) \o b = a \o <<User>>
          BY <2>7, <2>8, <3>1 DEF Sound
      <4> QED
          BY <2>8, <4>1
    <3>2. CASE cutEnd <= Len(s)
        BY <2>7, <2>9, <3>2 DEF UsersWord
    <3> QED
        BY <1>1, <2>2, <3>1, <3>2
  <2>11. ToolTurnsTogether(s) => ToolTurnsTogether((a \o <<User>>) \o b)
    <3>1. a \in Seq(Message) /\ b \in Seq(Message) /\ <<User>> \in Seq(Message)
          /\ a \o <<User>> \in Seq(Message)
        BY <2>5, <2>7, <2>8, OneMessage DEF Sound
    <3> QED
        BY <2>6, <2>7, <3>1, OneMessage, JoinKeepsTurns
  <2> QED
      BY <2>4, <2>9, <2>10, <2>11
<1> QED
  <2>1. cutStart >= cutEnd \/ ~(cutStart >= cutEnd)
      OBVIOUS
  <2> HIDE DEF cutStart, cutEnd
  <2> QED
      BY <1>1, <1>2, <1>3, <1>4, <2>1

(***************************************************************************)
(* smartCompact keeps a transcript sound and its last word; the tail may   *)
(* begin within a tool turn.                                               *)
(***************************************************************************)
LEMMA SummaryKeeps ==
    ASSUME NEW s, Sound(s), NEW r \in Summaries(s)
    PROVE  Sound(r) /\ (UsersWord(s) => UsersWord(r))
<1>1. s \in Seq(Message) /\ Len(s) \in Nat
    BY DEF Sound
<1>2. KeepSummary \in Nat /\ SummaryFloor \in Nat /\ SummaryFloor >= KeepSummary
    BY BoundsAreNaturals
<1>3. Len(s) > SummaryFloor
    BY <1>1, <1>2 DEF Summaries
<1>4. PICK from \in (Len(s) - KeepSummary + 1)..Len(s) : r = SummaryBefore(s, from)
    BY <1>1, <1>2, <1>3 DEF Summaries
<1>5. from \in 1..(Len(s) + 1) /\ from <= Len(s)
    BY <1>1, <1>2, <1>3
<1> DEFINE b == SubSeq(s, from, Len(s))
<1>6. Sound(b) /\ b # <<>> /\ b[1] = s[from] /\ Last(b) = Last(s)
    BY <1>5, SuffixKeeps
<1>7. UsersWord(s) => UsersWord(b)
    BY <1>6 DEF UsersWord
<1>8. CASE FromAssistant(s[from])
  <2>1. r = (<<User>> \o <<>>) \o b
      BY <1>4, <1>8 DEF SummaryBefore
  <2> HIDE DEF b
  <2>2. r = <<User>> \o b
      BY <2>1
  <2>3. Last(<<User>>) = User
      BY DEF Last
  <2> QED
      BY <1>6, <1>7, <2>2, <2>3, OneMessage, JoinKeepsRoles
<1>9. CASE ~FromAssistant(s[from])
  <2>1. r = (<<User>> \o <<Assistant>>) \o b
      BY <1>4, <1>9 DEF SummaryBefore
  <2> HIDE DEF b
  <2>2. r = <<User, Assistant>> \o b
    <3>1. <<User>> \o <<Assistant>> = <<User, Assistant>>
      <4>1. User \in Message /\ Assistant \in Message
          BY DEF User, Assistant, Plain, Message
      <4> DEFINE u == <<User>>
                 a == <<Assistant>>
                 c == u \o a
                 w == <<User, Assistant>>
      <4>2. u \in Seq(Message) /\ a \in Seq(Message) /\ w \in Seq(Message)
          BY <4>1
      <4>3. Len(u) = 1 /\ Len(a) = 1 /\ Len(w) = 2
            /\ u[1] = User /\ a[1] = Assistant /\ w[1] = User /\ w[2] = Assistant
          OBVIOUS
      <4> HIDE DEF u, a, w
      <4>4. c \in Seq(Message) /\ Joins(c, u, a)
          BY <4>2, ConcatJoins
      <4> HIDE DEF c
      <4>5. Len(c) = 2 /\ c[1] = User /\ c[2] = Assistant
          BY <4>3, <4>4 DEF Joins
      <4>6. \A k \in 1..Len(c) : c[k] = w[k]
          BY <4>3, <4>5
      <4>7. c = w
          BY <4>2, <4>3, <4>4, <4>5, <4>6, SeqEqual
      <4> QED
          BY <4>7 DEF c, u, a, w
    <3> QED
        BY <2>1, <3>1
  <2> QED
      BY <1>6, <1>7, <1>9, <2>2, OneMessage, JoinKeepsRoles
<1> QED
    BY <1>8, <1>9

(***************************************************************************)
(* TrimIncompleteTurn keeps a part of the transcript up to a message that  *)
(* makes no calls.                                                         *)
(***************************************************************************)
LEMMA DropDanglingIsPrefix ==
    ASSUME NEW s \in Seq(Message), NEW n \in 0..Len(s)
    PROVE  \E m \in 0..n : /\ DropDangling(SubSeq(s, 1, n)) = SubSeq(s, 1, m)
                           /\ m > 0 => ~IsCalls(s[m])
<1> DEFINE t == SubSeq(s, 1, n)
           keep == {k \in 1..Len(t) : ~Dangling(t, k)}
<1>1. t \in Seq(Message) /\ Len(t) = n /\ \A k \in 1..n : t[k] = s[k]
    BY SubSeqProperties
<1>2. DropDangling(t) =
          IF keep = {} THEN <<>> ELSE SubSeq(t, 1, CHOOSE k \in keep : \A l \in keep : l <= k)
    BY DEF DropDangling
<1> HIDE DEF t
<1>3. CASE keep = {}
  <2>1. SubSeq(s, 1, 0) = <<>>
      BY SubSeqEmpty
  <2>2. DropDangling(t) = <<>>
      BY <1>2, <1>3
  <2>3. 0 \in 0..n /\ DropDangling(t) = SubSeq(s, 1, 0)
      BY <2>1, <2>2
  <2> QED
      BY <2>3 DEF t
<1>4. CASE keep # {}
  <2> DEFINE m == CHOOSE k \in keep : \A l \in keep : l <= k
  <2>1. keep \in SUBSET (0..n) /\ n \in Nat
      BY <1>1
  <2>2. \E k \in keep : \A l \in keep : l <= k
      BY <1>4, <2>1, GreatestNumber
  <2>3. m \in keep
      BY <2>2
  <2>4. DropDangling(t) = SubSeq(t, 1, m)
      BY <1>2, <1>4
  <2>5. m \in 1..n /\ ~IsCalls(t[m])
      BY <1>1, <2>3 DEF Dangling
  <2> HIDE DEF m
  <2>6. SubSeq(t, 1, m) \in Seq(Message) /\ Len(SubSeq(t, 1, m)) = m
        /\ \A k \in 1..m : SubSeq(t, 1, m)[k] = t[k]
      BY <1>1, <2>5, SubSeqProperties
  <2>7. SubSeq(s, 1, m) \in Seq(Message) /\ Len(SubSeq(s, 1, m)) = m
        /\ \A k \in 1..m : SubSeq(s, 1, m)[k] = s[k]
      BY <2>5, SubSeqProperties
  <2>8. SubSeq(t, 1, m) = SubSeq(s, 1, m)
    <3>1. \A k \in 1..m : SubSeq(t, 1, m)[k] = SubSeq(s, 1, m)[k]
        BY <1>1, <2>5, <2>6, <2>7
    <3> QED
        BY <2>6, <2>7, <3>1, SeqEqual
  <2>9. m \in 0..n /\ ~IsCalls(s[m])
      BY <1>1, <2>5
  <2> QED
      BY <2>4, <2>8, <2>9 DEF t
<1> QED
    BY <1>3, <1>4

LEMMA TrimKeeps ==
    ASSUME NEW s, Sound(s)
    PROVE  LET r == TrimIncompleteTurn(s)
           IN  Sound(r) /\ (ToolTurnsTogether(s) => ToolTurnsTogether(r))
<1>1. s \in Seq(Message) /\ Len(s) \in Nat
    BY DEF Sound
<1>2. LastCalls(s) \in 0..Len(s)
  <2> DEFINE C == {i \in 1..Len(s) : IsCalls(s[i])}
  <2>1. LastCalls(s) = IF C = {} THEN 0 ELSE CHOOSE i \in C : \A j \in C : j <= i
      BY DEF LastCalls
  <2>2. C \in SUBSET (0..Len(s))
      OBVIOUS
  <2>3. C # {} => \E i \in C : \A j \in C : j <= i
    <3> HIDE DEF C
    <3> QED
        BY <1>1, <2>2, GreatestNumber
  <2> HIDE DEF C
  <2>4. CASE C = {}
      BY <1>1, <2>1, <2>4
  <2>5. CASE C # {}
    <3>1. LastCalls(s) \in C
        BY <2>1, <2>3, <2>5
    <3> QED
        BY <2>2, <3>1
  <2> QED
      BY <2>4, <2>5
<1> DEFINE Upto(n) == SubSeq(s, 1, n)
<1>3. PICK n \in 0..Len(s) : TrimIncompleteTurn(s) = DropDangling(Upto(n))
  <2>1. Upto(Len(s)) = s
      BY <1>1, SubSeqFull
  <2>2. CASE LastCalls(s) > 0 /\ ~hasResultsForAllToolUses(s, LastCalls(s))
    <3>1. LastCalls(s) - 1 \in 0..Len(s)
        BY <1>1, <1>2, <2>2
    <3> QED
        BY <2>2, <3>1 DEF TrimIncompleteTurn
  <2>3. CASE ~(LastCalls(s) > 0 /\ ~hasResultsForAllToolUses(s, LastCalls(s)))
    <3>1. TrimIncompleteTurn(s) = DropDangling(s)
        BY <2>3 DEF TrimIncompleteTurn
    <3> QED
      <4> HIDE DEF Upto
      <4> QED
          BY <1>1, <2>1, <3>1
  <2> QED
      BY <2>2, <2>3
<1>4. PICK m \in 0..n : /\ DropDangling(Upto(n)) = Upto(m)
                        /\ m > 0 => ~IsCalls(s[m])
    BY <1>1, DropDanglingIsPrefix
<1>5. m \in 0..Len(s)
    BY <1>1
<1>6. Sound(Upto(m)) /\ (ToolTurnsTogether(s) => ToolTurnsTogether(Upto(m)))
    BY <1>4, <1>5, PrefixKeeps
<1> HIDE DEF Upto
<1> QED
    BY <1>3, <1>4, <1>6

-----------------------------------------------------------------------------
(***************************************************************************)
(* The state of the loop but for the transcript.  A retry opens a stream   *)
(* only while there is an attempt left.                                    *)
(***************************************************************************)
ControlInv ==
    /\ pc \in {"idle", "guard", "manage", "query", "stream", "retry", "reply", "ending"}
    /\ cancelled \in BOOLEAN /\ escalated \in BOOLEAN /\ text \in BOOLEAN
    /\ turn \in 0..MaxTurns /\ recoveries \in 0..MaxRecoveries
    /\ attempt \in 0..MaxAttempts
    /\ calls \in Seq(1..MaxIssued)
    /\ issued \in 0..MaxIssued /\ sentAt \in 0..MaxIssued
    /\ prompts \in 0..MaxPrompts
    /\ pc = "retry" => attempt < MaxAttempts

BoundsTyped ==
    /\ MaxAttempts \in Nat \ {0} /\ MaxRecoveries \in Nat /\ MaxTurns \in Nat
    /\ MaxPrompts \in Nat /\ MaxIssued \in Nat

LEMMA BoundsAreTyped == BoundsTyped
    BY BoundsAreNaturals DEF BoundsTyped

LEMMA Bottoms ==
    /\ 0 \in 0..MaxAttempts /\ 0 \in 0..MaxRecoveries /\ 0 \in 0..MaxTurns
    /\ 0 \in 0..MaxPrompts /\ 0 \in 0..MaxIssued
    /\ <<>> \in Seq(1..MaxIssued)
    BY BoundsAreTyped DEF BoundsTyped

LEMMA ControlInit == Init => ControlInv
    BY Bottoms DEF Init, ControlInv

LEMMA ControlAddCall ==
    ControlInv /\ AddCall => calls' \in Seq(1..MaxIssued) /\ issued' \in 0..MaxIssued
<1> SUFFICES ASSUME ControlInv, AddCall
             PROVE  calls' \in Seq(1..MaxIssued) /\ issued' \in 0..MaxIssued
    OBVIOUS
<1>1. issued + 1 \in 1..MaxIssued
    BY BoundsAreTyped DEF ControlInv, AddCall, BoundsTyped
<1> QED
    BY <1>1 DEF ControlInv, AddCall

LEMMA ControlNext == ControlInv /\ [Next]_vars => ControlInv'
<1> SUFFICES ASSUME ControlInv, [Next]_vars PROVE ControlInv'
    OBVIOUS
<1> USE BoundsAreTyped DEF BoundsTyped, ControlInv
<1>1. ASSUME LeaveBody, pc' \in {"guard", "ending"}, UNCHANGED <<cancelled, turn, escalated, issued, prompts>>,
             recoveries' \in 0..MaxRecoveries
      PROVE  ControlInv'
    BY <1>1, Bottoms DEF LeaveBody
<1>2. ASSUME NEW n \in 1..MaxAttempts, OpenStream(n) PROVE ControlInv'
  <2>1. n \in 0..MaxAttempts
      OBVIOUS
  <2>2. attempt' = n /\ text' = FALSE /\ calls' = <<>> /\ sentAt' = issued /\ pc' = "stream"
      BY <1>2 DEF OpenStream
  <2>3. UNCHANGED <<cancelled, turn, escalated, recoveries, issued, prompts>>
      BY <1>2 DEF OpenStream, counts
  <2> QED
      BY <2>1, <2>2, <2>3, Bottoms
<1>3. CASE Prompt
    BY <1>3 DEF Prompt, counts, stream, reply
<1>4. CASE Cancel
    BY <1>4 DEF Cancel, counts, stream, reply
<1>5. CASE PassGuard
    BY <1>5 DEF PassGuard, DetectLoop, stream, reply
<1>6. CASE StopAtGuard \/ Refuse \/ AnswerFromCache
    BY <1>6 DEF StopAtGuard, Refuse, AnswerFromCache, counts, stream, reply
<1>7. CASE ReachLimit
    BY <1>7 DEF ReachLimit, DetectLoop, stream, reply
<1>8. CASE ManageContext \/ Summarize
    BY <1>8 DEF ManageContext, Summarize, Compact, counts, stream, reply
<1>9. CASE Send
    BY <1>9, <1>2 DEF Send
<1>10. CASE StreamText
    BY <1>10 DEF StreamText, counts
<1>11. CASE StreamCall
    BY <1>11, ControlAddCall DEF StreamCall, counts
<1>12. CASE StreamDone \/ StreamBreaks
    BY <1>12 DEF StreamDone, StreamBreaks, counts, stream, reply
<1>13. CASE ThinkingOnly
    BY <1>13, ControlAddCall DEF ThinkingOnly, counts
<1>14. CASE StreamFails \/ RetryFails \/ SeeCancel \/ ReachBudget \/ Answer
    BY <1>14, <1>1 DEF StreamFails, RetryFails, SeeCancel, ReachBudget, Answer, counts
<1>15. CASE Retry
    BY <1>15, <1>2 DEF Retry
<1>16. CASE ContinueReply
    BY <1>16, <1>1 DEF ContinueReply
<1>17. CASE UseTools
    BY <1>17, <1>1 DEF UseTools
<1>18. CASE Finish
    BY <1>18, Bottoms DEF Finish, stream, reply
<1>19. CASE UNCHANGED vars
    BY <1>19 DEF vars
<1> QED
    BY <1>3, <1>4, <1>5, <1>6, <1>7, <1>8, <1>9, <1>10, <1>11, <1>12, <1>13, <1>14, <1>15,
       <1>16, <1>17, <1>18, <1>19 DEF Next, Own, Provider

(***************************************************************************)
(* The transcript is sound at all times, and the last word is not the      *)
(* assistant's while the loop may still ask the model.                     *)
(***************************************************************************)
TranscriptInv ==
    /\ Sound(msgs)
    /\ pc \notin {"idle", "ending"} => UsersWord(msgs)

\* What a step must keep; Summarize alone may part a turn.
Continues(s, r) == Sound(r) /\ (ToolTurnsTogether(s) => ToolTurnsTogether(r))

LEMMA AppendUser ==
    ASSUME NEW s, Sound(s)
    PROVE  Continues(s, Append(s, User)) /\ UsersWord(Append(s, User))
<1>1. s \in Seq(Message) /\ User \in Message /\ <<User>> \in Seq(Message) /\ <<User>>[1] = User
    BY OneMessage DEF Sound, User, Plain, Message
<1>2. Append(s, User) = s \o <<User>>
    BY <1>1, AppendIsConcat
<1> QED
    BY <1>1, <1>2, OneMessage, JoinKeepsRoles, JoinKeepsTurns DEF Continues

LEMMA AppendAssistant ==
    ASSUME NEW s, Sound(s), UsersWord(s)
    PROVE  Continues(s, Append(s, Assistant))
<1>1. s \in Seq(Message) /\ Assistant \in Message /\ <<Assistant>> \in Seq(Message)
    BY OneMessage DEF Sound, Assistant, Plain, Message
<1>2. Append(s, Assistant) = s \o <<Assistant>>
    BY <1>1, AppendIsConcat
<1> QED
    BY <1>1, <1>2, OneMessage, JoinKeepsRoles, JoinKeepsTurns DEF Continues, UsersWord

LEMMA AppendAssistantUser ==
    ASSUME NEW s, Sound(s), UsersWord(s)
    PROVE  Continues(s, s \o <<Assistant, User>>) /\ UsersWord(s \o <<Assistant, User>>)
<1>1. s \in Seq(Message) /\ <<Assistant, User>> \in Seq(Message)
    BY OneMessage DEF Sound
<1> QED
    BY <1>1, OneMessage, JoinKeepsRoles, JoinKeepsTurns DEF Continues, UsersWord

(***************************************************************************)
(* A reply with tool calls: the calls and a result for each of them.       *)
(***************************************************************************)
LEMMA ToolTurnIsWhole ==
    ASSUME NEW c \in Seq(1..MaxIssued), c # <<>>,
           NEW out \in [1..Len(c) -> Outputs], NEW error \in [1..Len(c) -> BOOLEAN]
    PROVE  LET t == <<Calls(c)>> \o [i \in 1..Len(c) |-> Result(c[i], out[i], error[i])]
           IN  Sound(t) /\ UsersWord(t) /\ ToolTurnsTogether(t)
<1> DEFINE res == [i \in 1..Len(c) |-> Result(c[i], out[i], error[i])]
           t == <<Calls(c)>> \o res
           n == Len(c)
<1>1. n \in Nat /\ n > 0
    BY ElementOfSeq, EmptySeq
<1>2. ASSUME NEW i \in 1..n
      PROVE  /\ Result(c[i], out[i], error[i]) \in Message
             /\ IsResult(Result(c[i], out[i], error[i]))
             /\ Result(c[i], out[i], error[i]).ids = {c[i]}
  <2>1. c[i] \in 0..MaxIssued /\ out[i] \in Outputs /\ error[i] \in BOOLEAN
      BY BoundsAreTyped DEF BoundsTyped
  <2> QED
      BY <2>1 DEF Result, Message, IsResult
<1>3. res \in Seq(Message) /\ Len(res) = n
    BY <1>1, <1>2, IsASeq, LenProperties
<1>4. /\ \A i \in 1..n : IsResult(res[i]) /\ res[i].ids = {c[i]}
    BY <1>2
<1>5. /\ Calls(c) \in Message /\ IsCalls(Calls(c)) /\ ~IsResult(Calls(c))
      /\ Calls(c).ids = {c[i] : i \in 1..n} /\ ~Calls(c).error
  <2>1. {c[i] : i \in 1..n} \subseteq 0..MaxIssued
      BY BoundsAreTyped DEF BoundsTyped
  <2> QED
      BY <2>1 DEF Calls, Plain, Message, IsCalls, IsResult
<1>6. /\ t \in Seq(Message) /\ Len(t) = n + 1
      /\ t[1] = Calls(c) /\ \A k \in 2..(n + 1) : t[k] = res[k - 1] /\ k - 1 \in 1..n
  <2>1. <<Calls(c)>> \in Seq(Message) /\ Len(<<Calls(c)>>) = 1 /\ <<Calls(c)>>[1] = Calls(c)
      BY <1>5
  <2> HIDE DEF res
  <2> QED
      BY <1>1, <1>3, <2>1, ConcatProperties
<1>7. \A k \in 2..(n + 1) : IsResult(t[k]) /\ t[k].ids \subseteq t[1].ids
  <2>1. \A i \in 1..n : IsResult(res[i]) /\ res[i].ids \subseteq Calls(c).ids
      BY <1>4, <1>5
  <2> HIDE DEF res, t
  <2> QED
      BY <1>6, <2>1
<1> HIDE DEF res, t, n
<1>8. \A k \in 1..(n + 1) : k = 1 \/ k \in 2..(n + 1)
    BY <1>1
<1>9. Sound(t)
  <2>1. OnlyResultsFail(t)
      BY <1>5, <1>6, <1>7, <1>8 DEF OnlyResultsFail
  <2>2. \A k \in 2..(n + 1) : ~FromAssistant(t[k])
      BY <1>7 DEF IsResult, FromAssistant
  <2>3. \A k \in 1..(Len(t) - 1) : k + 1 \in 2..(n + 1)
      BY <1>1, <1>6
  <2>4. AssistantsApart(t)
      BY <2>2, <2>3 DEF AssistantsApart
  <2> QED
      BY <1>6, <2>1, <2>4 DEF Sound
<1>10. UsersWord(t)
  <2>1. t # <<>> /\ Last(t) = t[n + 1] /\ n + 1 \in 2..(n + 1)
      BY <1>1, <1>6 DEF Last
  <2> QED
      BY <1>7, <2>1 DEF IsResult, FromAssistant, UsersWord
<1>11. ToolTurnsTogether(t)
  <2>1. AnsweredNext(t, 1)
      BY <1>1, <1>6, <1>7 DEF AnsweredNext
  <2>2. ASSUME NEW p \in 2..(n + 1) PROVE Owned(t, p) /\ ~IsCalls(t[p])
    <3>1. 1 \in 1..(p - 1) /\ \A k \in (1 + 1)..p : k \in 2..(n + 1)
        BY <1>1
    <3> QED
        BY <1>5, <1>6, <1>7, <3>1 DEF Owned, IsResult, IsCalls
  <2> QED
      BY <1>5, <1>6, <1>8, <2>1, <2>2, TogetherIsOwned
<1> QED
    BY <1>9, <1>10, <1>11 DEF t, res

LEMMA AppendToolTurn ==
    ASSUME NEW s, Sound(s), UsersWord(s), NEW c \in Seq(1..MaxIssued), c # <<>>,
           NEW out \in [1..Len(c) -> Outputs], NEW error \in [1..Len(c) -> BOOLEAN]
    PROVE  LET r == Append(s, Calls(c))
                        \o [i \in 1..Len(c) |-> Result(c[i], out[i], error[i])]
           IN  Continues(s, r) /\ UsersWord(r)
<1> DEFINE res == [i \in 1..Len(c) |-> Result(c[i], out[i], error[i])]
           t == <<Calls(c)>> \o res
<1>1. Sound(t) /\ UsersWord(t) /\ ToolTurnsTogether(t)
    BY ToolTurnIsWhole
<1>2. s \in Seq(Message) /\ t \in Seq(Message)
    BY <1>1 DEF Sound
<1>3. Calls(c) \in Message /\ res \in Seq(Message)
  <2>1. Len(c) \in Nat
      BY ElementOfSeq
  <2>2. {c[i] : i \in 1..Len(c)} \subseteq 0..MaxIssued
      BY BoundsAreTyped, <2>1 DEF BoundsTyped
  <2>3. Calls(c) \in Message
      BY <2>2 DEF Calls, Plain, Message
  <2>4. ASSUME NEW i \in 1..Len(c) PROVE Result(c[i], out[i], error[i]) \in Message
    <3>1. c[i] \in 0..MaxIssued /\ out[i] \in Outputs /\ error[i] \in BOOLEAN
        BY BoundsAreTyped DEF BoundsTyped
    <3> QED
        BY <3>1 DEF Result, Message
  <2> QED
      BY <2>1, <2>3, <2>4, IsASeq
<1>4. Append(s, Calls(c)) \o res = s \o t
  <2>1. Append(s, Calls(c)) = s \o <<Calls(c)>>
      BY <1>2, <1>3, AppendIsConcat
  <2>2. <<Calls(c)>> \in Seq(Message)
      BY <1>3
  <2> HIDE DEF res
  <2> QED
      BY <1>2, <1>3, <2>1, <2>2, ConcatAssociative
<1>5. Sound(s \o t) /\ UsersWord(s \o t) /\ (ToolTurnsTogether(s) => ToolTurnsTogether(s \o t))
  <2> HIDE DEF t
  <2> QED
      BY <1>1, <1>2, JoinKeepsRoles, JoinKeepsTurns DEF UsersWord
<1> QED
    BY <1>4, <1>5 DEF Continues

-----------------------------------------------------------------------------
(***************************************************************************)
(* The steps of the loop.                                                  *)
(***************************************************************************)
\* The loop detector's warning leaves the last word to the user.
LEMMA DetectLoopKeeps ==
    ASSUME NEW warn, Sound(msgs), UsersWord(msgs), DetectLoop(warn)
    PROVE  Continues(msgs, msgs') /\ UsersWord(msgs')
<1>1. CASE warn
  <2>1. msgs' = msgs \o <<Assistant, User>>
      BY <1>1 DEF DetectLoop, Warning
  <2> QED
      BY <2>1, AppendAssistantUser
<1>2. CASE ~warn
    BY <1>2 DEF DetectLoop, Continues
<1> QED
    BY <1>1, <1>2

\* What the governor hands to the compaction.
LEMMA GovernedKeeps ==
    ASSUME NEW s, Sound(s), NEW old
    PROVE  LET r == ClearResults(CollapseRepeatedMessages(s), old)
           IN  Continues(s, r) /\ (UsersWord(s) => UsersWord(r))
<1> DEFINE c == CollapseRepeatedMessages(s)
<1>1. /\ Sound(c) /\ (UsersWord(s) => UsersWord(c))
      /\ ToolTurnsTogether(s) => ToolTurnsTogether(c)
    BY CollapseKeeps
<1> HIDE DEF c
<1>2. LET r == ClearResults(c, old)
      IN  /\ Sound(r) /\ (UsersWord(c) => UsersWord(r))
          /\ ToolTurnsTogether(c) => ToolTurnsTogether(r)
    BY <1>1, ClearKeeps
<1> QED
    BY <1>1, <1>2 DEF Continues, c

LEMMA TruncatedKeeps ==
    ASSUME NEW s, Sound(s), NEW r \in Truncated(s)
    PROVE  Continues(s, r) /\ (UsersWord(s) => UsersWord(r))
<1>1. r = s \/ r = Truncate(s)
    BY DEF Truncated
<1> QED
    BY <1>1, TruncateKeeps DEF Continues

LEMMA ManageContextKeeps ==
    ASSUME Sound(msgs), UsersWord(msgs), ManageContext
    PROVE  Continues(msgs, msgs') /\ UsersWord(msgs')
<1> DEFINE c == CollapseRepeatedMessages(msgs)
<1>1. PICK old : msgs' \in Truncated(ClearResults(c, old))
    BY DEF ManageContext, Compact
<1>2. Continues(msgs, ClearResults(c, old)) /\ UsersWord(ClearResults(c, old))
    BY GovernedKeeps
<1> HIDE DEF c
<1> QED
    BY <1>1, <1>2, TruncatedKeeps DEF Continues

LEMMA SummarizeKeeps ==
    ASSUME Sound(msgs), UsersWord(msgs), Summarize
    PROVE  Sound(msgs') /\ UsersWord(msgs')
<1> DEFINE c == CollapseRepeatedMessages(msgs)
<1>1. PICK old : msgs' \in Summarised(ClearResults(c, old))
    BY DEF Summarize, Compact
<1>2. Sound(ClearResults(c, old)) /\ UsersWord(ClearResults(c, old))
    BY GovernedKeeps DEF Continues
<1> HIDE DEF c
<1>3. PICK t \in Summaries(ClearResults(c, old)) : msgs' \in Truncated(t)
    BY <1>1 DEF Summarised
<1>4. Sound(t) /\ UsersWord(t)
    BY <1>2, <1>3, SummaryKeeps
<1> QED
    BY <1>3, <1>4, TruncatedKeeps DEF Continues

LEMMA UseToolsKeeps ==
    ASSUME ControlInv, Sound(msgs), UsersWord(msgs), UseTools
    PROVE  Continues(msgs, msgs') /\ UsersWord(msgs')
<1>1. calls \in Seq(1..MaxIssued) /\ calls # <<>>
    BY DEF ControlInv, UseTools
<1>2. PICK out \in [1..Len(calls) -> Outputs], error \in [1..Len(calls) -> BOOLEAN] :
          msgs' = Append(msgs, Calls(calls))
                      \o [i \in 1..Len(calls) |-> Result(calls[i], out[i], error[i])]
    BY DEF UseTools
<1> QED
    BY <1>1, <1>2, AppendToolTurn

LEMMA TranscriptInit == Init => TranscriptInv
    BY DEF Init, TranscriptInv, Sound, OnlyResultsFail, AssistantsApart

(***************************************************************************)
(* Every step keeps the transcript sound, and all but a summary keep its   *)
(* tool turns.                                                             *)
(***************************************************************************)
StepKeeps ==
    /\ TranscriptInv'
    /\ Continues(msgs, msgs') \/ (Summarize /\ ~ManageContext)

LEMMA TranscriptNext ==
    ASSUME ControlInv, TranscriptInv, [Next]_vars
    PROVE  StepKeeps
<1>1. Sound(msgs) /\ (pc \notin {"idle", "ending"} => UsersWord(msgs)) /\ Continues(msgs, msgs)
    BY DEF TranscriptInv, Continues
<1>2. ASSUME Continues(msgs, msgs'), UsersWord(msgs') \/ pc' \in {"idle", "ending"}
      PROVE  StepKeeps
    BY <1>2 DEF StepKeeps, TranscriptInv, Continues
<1>3. ASSUME UNCHANGED msgs, pc' \in {"idle", "ending"} \/ pc \notin {"idle", "ending"}
      PROVE  StepKeeps
    BY <1>1, <1>2, <1>3
<1>4. CASE Prompt
    BY <1>1, <1>2, <1>4, AppendUser DEF Prompt
<1>5. CASE Cancel
    BY <1>5, <1>3 DEF Cancel
<1>6. CASE PassGuard
    BY <1>1, <1>2, <1>6, DetectLoopKeeps DEF PassGuard
<1>7. CASE ReachLimit
    BY <1>1, <1>2, <1>7, DetectLoopKeeps DEF ReachLimit
<1>8. CASE StopAtGuard \/ Refuse
    BY <1>8, <1>3 DEF StopAtGuard, Refuse
<1>9. CASE ManageContext
  <2>1. pc = "manage"
      BY <1>9 DEF ManageContext, Compact
  <2> QED
      BY <1>1, <1>2, <1>9, <2>1, ManageContextKeeps
<1>10. CASE Summarize /\ ~ManageContext
  <2>1. pc = "manage"
      BY <1>10 DEF Summarize, Compact
  <2>2. Sound(msgs') /\ UsersWord(msgs')
      BY <1>1, <1>10, <2>1, SummarizeKeeps
  <2> QED
      BY <1>10, <2>2 DEF StepKeeps, TranscriptInv
<1>11. CASE AnswerFromCache
    BY <1>1, <1>2, <1>11, AppendAssistant DEF AnswerFromCache
<1>12. CASE Send \/ Retry
    BY <1>12, <1>3 DEF Send, Retry, OpenStream
<1>13. CASE StreamText \/ StreamCall \/ StreamDone \/ ThinkingOnly \/ StreamBreaks
    BY <1>13, <1>3 DEF StreamText, StreamCall, StreamDone, ThinkingOnly, StreamBreaks
<1>14. CASE StreamFails \/ RetryFails \/ SeeCancel \/ ReachBudget
    BY <1>14, <1>3 DEF StreamFails, RetryFails, SeeCancel, ReachBudget
<1>15. CASE ContinueReply
    BY <1>1, <1>2, <1>15, AppendAssistantUser DEF ContinueReply
<1>16. CASE Answer
  <2>1. CASE text
      BY <1>1, <1>2, <1>16, <2>1, AppendAssistant DEF Answer
  <2>2. CASE ~text
      BY <1>3, <1>16, <2>2 DEF Answer
  <2> QED
      BY <2>1, <2>2
<1>17. CASE UseTools
  <2>1. pc = "reply"
      BY <1>17 DEF UseTools
  <2> QED
      BY <1>1, <1>2, <1>17, <2>1, UseToolsKeeps
<1>18. CASE Finish
  <2>1. msgs' = (IF cancelled THEN TrimIncompleteTurn(msgs) ELSE msgs) /\ pc' = "idle"
      BY <1>18 DEF Finish
  <2>2. Continues(msgs, TrimIncompleteTurn(msgs))
      BY <1>1, TrimKeeps DEF Continues
  <2> QED
      BY <1>1, <1>2, <2>1, <2>2
<1>19. CASE UNCHANGED vars
    BY <1>19, <1>3, <1>1, <1>2 DEF vars
<1> QED
    BY <1>4, <1>5, <1>6, <1>7, <1>8, <1>9, <1>10, <1>11, <1>12, <1>13, <1>14, <1>15, <1>16,
       <1>17, <1>18, <1>19 DEF Next, Own, Provider

SpecInv == ControlInv /\ TranscriptInv

LEMMA SpecHasInv == Spec => []SpecInv
<1>1. Init => SpecInv
    BY ControlInit, TranscriptInit DEF SpecInv
<1>2. SpecInv /\ [Next]_vars => SpecInv'
    BY ControlNext, TranscriptNext DEF SpecInv, StepKeeps
<1> QED
    BY <1>1, <1>2, PTL DEF Spec

(***************************************************************************)
(* Every variable of the loop stays in its range: no attempt, recovery or  *)
(* turn goes past its limit, and every message the governor, a reply or    *)
(* the clean-up writes is a message.                                       *)
(***************************************************************************)
THEOREM LoopIsTyped == Spec => []TypeOK
<1>1. SpecInv => TypeOK
    BY DEF SpecInv, ControlInv, TranscriptInv, Sound, TypeOK
<1> QED
    BY <1>1, SpecHasInv, PTL

(***************************************************************************)
(* A transcript is sent to the model only with a message of the user or a  *)
(* tool result at its end, for transcripts of every length and every       *)
(* setting of the governor.                                                *)
(***************************************************************************)
THEOREM LastWordIsNotTheModels == Spec => []ModelHasTheWord
<1>1. SpecInv => ModelHasTheWord
    BY DEF SpecInv, TranscriptInv, UsersWord, ModelHasTheWord
<1> QED
    BY <1>1, SpecHasInv, PTL

(***************************************************************************)
(* No two messages of the assistant are ever adjacent: not after a         *)
(* continuation, a summary, a cut, or the clean-up of a cancelled loop.    *)
(***************************************************************************)
THEOREM AssistantsStayApart == Spec => []AssistantNeverTwice
<1>1. SpecInv => AssistantNeverTwice
    BY DEF SpecInv, TranscriptInv, Sound, AssistantsApart, AssistantNeverTwice
<1> QED
    BY <1>1, SpecHasInv, PTL

(***************************************************************************)
(* Collapsing, clearing, truncation and the clean-up after a cancel never  *)
(* part a tool result from its call; only a summary may.                   *)
(***************************************************************************)
THEOREM ToolTurnsAreKept == Spec => ToolTurnsStayTogether
<1>1. SpecInv /\ [Next]_vars
          => [ToolTurnsTogether(msgs) =>
                  ToolTurnsTogether(msgs') \/ (Summarize /\ ~ManageContext)]_vars
    BY TranscriptNext DEF SpecInv, StepKeeps, Continues
<1> QED
    BY <1>1, SpecHasInv, PTL DEF Spec, ToolTurnsStayTogether
=============================================================================
