-------------------------- MODULE ChatPromptsProofs --------------------------
(***************************************************************************)
(* Proofs about ChatPrompts, for every number of calls, turns, requests    *)
(* and places in the queues: the type invariant, that no prompt is lost,   *)
(* that prompts are shown one at a time with nothing left in a queue while *)
(* none is shown, that a timer denies its own prompt only, and that the    *)
(* turn that runs is the one Ctrl+C cancels.                               *)
(*                                                                         *)
(* Every handler of the event loop ends in one of three ways: a request is *)
(* shown, queued behind an active one, or left to activateNextPrompt.      *)
(* ActivateKeeps says what that last step leaves behind, for whatever      *)
(* fields and queues it starts from; TimerInv, that the newest number of a *)
(* kind belongs to the prompt on the screen, is what the comparison in the *)
(* timeout handlers relies on.                                             *)
(***************************************************************************)
EXTENDS ChatPrompts, TLAPS

USE DEF Kinds

Timers == [kind : Kinds, seq : Nat, of : Calls]

\* A call that sends a request or waits has a kind it does so with.
AskingInv ==
    \A c \in Calls : stage[c] \in {"sending", "asking"} => asking[c] \in Kinds

TurnsType ==
    /\ waiting \in BOOLEAN /\ autonomous \in BOOLEAN
    /\ cancel \in {0} \cup Turns
    /\ typed \in 0..MaxTyped
    /\ turn \in [Turns -> {"unused", "open", "closing", "over"}]
    /\ done \in [Turns -> BOOLEAN]

PromptsType ==
    /\ shown \in [Kinds -> Calls \cup {None}]
    /\ queue \in [Kinds -> Seq(Calls)]
    /\ \A k \in Kinds : Len(queue[k]) <= MaxPending
    /\ seq \in [Kinds -> Nat]
    /\ timers \subseteq Timers

ToolsType ==
    /\ stage \in [Calls -> {"unused", "checking", "gating", "working",
                            "sending", "asking", "ended"}]
    /\ owner \in [Calls -> {0} \cup Turns]
    /\ asking \in [Calls -> Kinds \cup {"nothing"}]
    /\ asked \subseteq Requests
    /\ answer \in [Calls -> {"none", "yes", "no"}]

\* A timer has the number of the prompt that is shown only if it is its own.
TimersFit(sh, sq, tms) ==
    \A tm \in tms :
        /\ tm.seq <= sq[tm.kind]
        /\ (tm.seq = sq[tm.kind] /\ sh[tm.kind] # None) => sh[tm.kind] = tm.of

IInv == TypeOK /\ AskingInv /\ NoPromptLost /\ PromptsSerialized
        /\ TimersFit(shown, seq, timers)

-----------------------------------------------------------------------------
(* Queues                                                                   *)

\* What a queue holds after one request more.
LEMMA ElementsAppend ==
    ASSUME NEW S, NEW s \in Seq(S), NEW c \in S
    PROVE  Append(s, c) \in Seq(S) /\ Elements(Append(s, c)) = Elements(s) \cup {c}
  BY DEF Elements

\* What it holds without its first.
LEMMA ElementsTail ==
    ASSUME NEW S, NEW s \in Seq(S), s # << >>
    PROVE  /\ Head(s) \in S /\ Tail(s) \in Seq(S) /\ Len(Tail(s)) <= Len(s)
           /\ Elements(s) = Elements(Tail(s)) \cup {Head(s)}
<1>1. Head(s) \in S /\ Tail(s) \in Seq(S) /\ Len(Tail(s)) <= Len(s)
  OBVIOUS
<1>2. ASSUME NEW x \in Elements(s) PROVE x \in Elements(Tail(s)) \cup {Head(s)}
  <2>1. PICK i \in 1..Len(s) : x = s[i]
    BY DEF Elements
  <2>2. CASE i = 1
    BY <2>1, <2>2
  <2>3. CASE i # 1
    <3>1. i - 1 \in 1..Len(Tail(s)) /\ Tail(s)[i - 1] = s[i]
      BY <2>3
    <3>2. QED
      BY <2>1, <3>1 DEF Elements
  <2>4. QED
    BY <2>2, <2>3
<1>3. Elements(Tail(s)) \cup {Head(s)} \subseteq Elements(s)
  <2>1. ASSUME NEW i \in 1..Len(Tail(s)) PROVE i + 1 \in 1..Len(s) /\ Tail(s)[i] = s[i + 1]
    OBVIOUS
  <2>2. 1 \in 1..Len(s) /\ Head(s) = s[1]
    OBVIOUS
  <2>3. QED
    BY <2>1, <2>2 DEF Elements
<1>4. QED
  BY <1>1, <1>2, <1>3

\* What is in no place of an empty queue.
LEMMA ElementsEmpty == Elements(<< >>) = {}
  BY DEF Elements

\* The requests a queue holds are requests of calls.
LEMMA ElementsType ==
    ASSUME NEW S, NEW s \in Seq(S)
    PROVE  Elements(s) \subseteq S
  BY DEF Elements

-----------------------------------------------------------------------------
(* activateXRequest and activateNextPrompt                                  *)

\* Whatever is shown next, every request in the fields sh or the queues qs is
\* shown, queued or waved through, at most one is shown when at most one was,
\* and the queues are empty when none is.
LEMMA ActivateKeeps ==
    ASSUME TypeOK, NEW sh \in [Kinds -> Calls \cup {None}],
           NEW qs \in [Kinds -> Seq(Calls)], \A k \in Kinds : Len(qs[k]) <= MaxPending,
           NEW tms \in SUBSET Timers, TimersFit(sh, seq, tms),
           ActivateNext(sh, qs, tms)
    PROVE  /\ shown' \in [Kinds -> Calls \cup {None}]
           /\ queue' \in [Kinds -> Seq(Calls)]
           /\ \A k \in Kinds : Len(queue'[k]) <= MaxPending
           /\ seq' \in [Kinds -> Nat]
           /\ timers' \in SUBSET Timers /\ tms \subseteq timers'
           /\ TimersFit(shown', seq', timers')
           /\ ~Active(sh) => \A j, k \in Kinds : shown'[j] # None /\ shown'[k] # None => j = k
           /\ ~Active(shown') => \A k \in Kinds : queue'[k] = << >>
           /\ \A k \in Kinds, c \in Calls :
                 (sh[k] = c \/ c \in Elements(qs[k])) =>
                     \/ shown'[k] = c \/ c \in Elements(queue'[k])
                     \/ k = "permission" /\ c \in Waved(sh, qs)
<1> DEFINE rest == Remaining(sh, qs)
<1>1. /\ rest \in [Kinds -> Seq(Calls)]
      /\ \A k \in Kinds : rest[k] \in Seq(Calls) /\ Len(rest[k]) <= MaxPending
  BY PromptsAssumption DEF Remaining
<1>2. ASSUME NEW k \in Kinds, NEW c \in Calls, c \in Elements(qs[k])
      PROVE  c \in Elements(rest[k]) \/ (k = "permission" /\ c \in Waved(sh, qs))
  <2>1. CASE Waved(sh, qs) = {} \/ k # "permission"
    <3>1. rest[k] = qs[k]
      BY <2>1 DEF Remaining
    <3> HIDE DEF rest
    <3>2. QED
      BY <1>2, <3>1, Zenon
  <2>2. CASE Waved(sh, qs) # {} /\ k = "permission"
    <3>1. Waved(sh, qs) = Elements(qs[k])
      BY <2>2 DEF Waved
    <3>2. QED
      BY <1>2, <2>2, <3>1, Zenon
  <2>3. QED
    BY <2>1, <2>2
<1>3. seq \in [Kinds -> Nat]
  BY DEF TypeOK
<1>4. CASE ShowNothing(sh, rest, tms) /\ (Active(sh) \/ \A k \in Kinds : rest[k] = << >>)
  <2> USE <1>4 DEF ShowNothing
  <2>1. TimersFit(shown', seq', timers')
    BY DEF TimersFit
  <2>2. QED
    BY <1>1, <1>2, <1>3, <2>1 DEF Active
<1>5. ASSUME NEW k \in Kinds, rest[k] # << >>, ~Active(sh),
             Show(sh, [rest EXCEPT ![k] = Tail(@)], tms, k, Head(rest[k]))
      PROVE  /\ shown' \in [Kinds -> Calls \cup {None}]
             /\ queue' \in [Kinds -> Seq(Calls)]
             /\ \A j \in Kinds : Len(queue'[j]) <= MaxPending
             /\ seq' \in [Kinds -> Nat]
             /\ timers' \in SUBSET Timers /\ tms \subseteq timers'
             /\ TimersFit(shown', seq', timers')
             /\ \A i, j \in Kinds : shown'[i] # None /\ shown'[j] # None => i = j
             /\ Active(shown')
             /\ \A j \in Kinds, c \in Calls :
                   (sh[j] = c \/ c \in Elements(qs[j])) =>
                       \/ shown'[j] = c \/ c \in Elements(queue'[j])
                       \/ j = "permission" /\ c \in Waved(sh, qs)
  <2> DEFINE h == Head(rest[k])
  <2>1. /\ h \in Calls /\ Tail(rest[k]) \in Seq(Calls)
        /\ Len(Tail(rest[k])) <= Len(rest[k])
        /\ Elements(rest[k]) = Elements(Tail(rest[k])) \cup {h}
    <3> HIDE DEF rest
    <3>1. QED
      BY <1>1, <1>5, ElementsTail
  <2>2. \A j \in Kinds : sh[j] = None
    BY <1>5 DEF Active
  <2> DEFINE t == Tail(rest[k])
             tm == [kind |-> k, seq |-> seq[k] + 1, of |-> h]
  <2>3. /\ shown' = [sh EXCEPT ![k] = h] /\ queue' = [rest EXCEPT ![k] = t]
        /\ seq' = [seq EXCEPT ![k] = seq[k] + 1] /\ timers' = tms \cup {tm}
    BY <1>5 DEF Show
  <2> HIDE DEF rest, h, t
  <2>4. /\ shown' \in [Kinds -> Calls \cup {None}] /\ shown'[k] = h
        /\ \A j \in Kinds : j # k => shown'[j] = None
    BY <2>1, <2>2, <2>3 DEF h
  <2>5. /\ queue' \in [Kinds -> Seq(Calls)] /\ queue'[k] = t
        /\ \A j \in Kinds : j # k => queue'[j] = rest[j]
    BY <1>1, <2>1, <2>3 DEF t
  <2>6. \A j \in Kinds : Len(queue'[j]) <= MaxPending
    <3>1. Len(t) \in Nat /\ Len(rest[k]) \in Nat /\ Len(t) <= Len(rest[k])
      BY <1>1, <2>1 DEF t
    <3>2. QED
      BY <1>1, <2>5, <3>1, PromptsAssumption, SMTT(30)
  <2>7. /\ seq' \in [Kinds -> Nat] /\ seq'[k] = seq[k] + 1
        /\ \A j \in Kinds : j # k => seq'[j] = seq[j]
    BY <1>3, <2>3
  <2>8. timers' \in SUBSET Timers /\ tms \subseteq timers'
    BY <1>3, <2>1, <2>3, SMTT(30) DEF h, Timers
  <2>9. TimersFit(shown', seq', timers')
    <3>1. ASSUME NEW x \in tms
          PROVE  /\ x.seq <= seq'[x.kind]
                 /\ (x.seq = seq'[x.kind] /\ shown'[x.kind] # None) => shown'[x.kind] = x.of
      <4>1. x.kind \in Kinds /\ x.seq \in Nat /\ x.seq <= seq[x.kind]
        BY DEF Timers, TimersFit
      <4>2. QED
        BY <1>3, <2>4, <2>7, <4>1, SMTT(30)
    <3>2. /\ tm.seq <= seq'[tm.kind]
          /\ (tm.seq = seq'[tm.kind] /\ shown'[tm.kind] # None) => shown'[tm.kind] = tm.of
      BY <1>3, <2>4, <2>7
    <3>3. QED
      BY <2>3, <3>1, <3>2 DEF TimersFit
  <2>10. \A j \in Kinds, c \in Calls :
             (sh[j] = c \/ c \in Elements(qs[j])) =>
                 \/ shown'[j] = c \/ c \in Elements(queue'[j])
                 \/ j = "permission" /\ c \in Waved(sh, qs)
    <3> SUFFICES ASSUME NEW j \in Kinds, NEW c \in Calls, c \in Elements(rest[j])
                 PROVE  shown'[j] = c \/ c \in Elements(queue'[j])
      BY <1>2, <2>2, NoneAssumption DEF rest
    <3>1. CASE j = k
      BY <2>1, <2>4, <2>5, <3>1 DEF h, t
    <3>2. CASE j # k
      BY <2>5, <3>2
    <3>3. QED
      BY <3>1, <3>2
  <2>11. Active(shown') /\ \A i, j \in Kinds : shown'[i] # None /\ shown'[j] # None => i = j
    BY <2>1, <2>4, NoneAssumption DEF Active, h
  <2>12. QED
    BY <2>4, <2>5, <2>6, <2>7, <2>8, <2>9, <2>10, <2>11
<1>6. \/ ShowNothing(sh, rest, tms) /\ (Active(sh) \/ \A k \in Kinds : rest[k] = << >>)
      \/ \E k \in Kinds : /\ rest[k] # << >> /\ ~Active(sh)
                          /\ Show(sh, [rest EXCEPT ![k] = Tail(@)], tms, k, Head(rest[k]))
  <2> HIDE DEF Kinds
  <2>1. QED
    BY DEF ActivateNext
<1>7. QED
  BY <1>4, <1>5, <1>6

-----------------------------------------------------------------------------
(* Types, by the parts of the state                                         *)

LEMMA TypeParts == TypeOK <=> TurnsType /\ PromptsType /\ ToolsType
  BY DEF TypeOK, TurnsType, PromptsType, ToolsType, Timers

LEMMA PrimedTypeParts == TypeOK' <=> TurnsType' /\ PromptsType' /\ ToolsType'
  BY DEF TypeOK, TurnsType, PromptsType, ToolsType, Timers

\* An answer once given stays, and only what is resolved gets one.
LEMMA ResolveKeeps ==
    ASSUME ToolsType, NEW no, NEW yes, Resolve(no, yes)
    PROVE  /\ answer' \in [Calls -> {"none", "yes", "no"}]
           /\ \A c \in Calls :
                 /\ answer[c] # "none" => answer'[c] # "none"
                 /\ <<c, asking[c]>> \in no \cup yes => answer'[c] # "none"
                 /\ answer[c] = "none" /\ answer'[c] = "no" => <<c, asking[c]>> \in no
  BY DEF ToolsType, Resolve

\* The requests waved through are requests of calls.
LEMMA WavedType ==
    ASSUME PromptsType, NEW sh
    PROVE  Waved(sh, queue) \subseteq Calls
  BY ElementsType DEF Waved, PromptsType

-----------------------------------------------------------------------------
(* The event loop                                                           *)

\* Settling a prompt, with or without the removal of a timer.
LEMMA SettleKeeps ==
    ASSUME IInv, NEW k \in Kinds, shown[k] # None, NEW a \in {"yes", "no"},
           NEW tms \in SUBSET timers, Settle(k, a, tms),
           UNCHANGED <<turns, autonomous, tools>>
    PROVE  IInv'
<1> DEFINE sh == [shown EXCEPT ![k] = None]
           no == IF a = "no" THEN {<<shown[k], k>>} ELSE {}
           waved == {<<c, "permission">> : c \in Waved(sh, queue)}
           yes == IF a = "yes" THEN waved \cup {<<shown[k], k>>} ELSE waved
<1>1. TurnsType /\ PromptsType /\ ToolsType
  BY TypeParts DEF IInv
<1>2. /\ turns' = turns /\ autonomous' = autonomous /\ tools' = tools
      /\ Resolve(no, yes) /\ ActivateNext(sh, queue, tms)
  BY DEF Settle
<1>3. TurnsType'
  BY <1>1, <1>2 DEF TurnsType, turns
<1>4. ToolsType'
  <2>1. answer' \in [Calls -> {"none", "yes", "no"}]
    BY <1>1, <1>2, ResolveKeeps
  <2>2. QED
    BY <1>1, <1>2, <2>1 DEF ToolsType, tools
<1>5. /\ sh \in [Kinds -> Calls \cup {None}] /\ sh[k] = None
      /\ \A j \in Kinds : j # k => sh[j] = shown[j]
  BY <1>1 DEF PromptsType
<1>6. TimersFit(sh, seq, tms) /\ tms \in SUBSET Timers
  <2>1. TimersFit(shown, seq, timers) /\ timers \subseteq Timers
    BY <1>1 DEF IInv, PromptsType
  <2>2. \A tm \in tms : tm.kind \in Kinds
    BY <2>1 DEF Timers
  <2> HIDE DEF sh, Kinds
  <2>3. QED
    BY <1>5, <2>1, <2>2 DEF TimersFit
<1>7. \A j \in Kinds : j # k => sh[j] = None
  BY <1>5 DEF IInv, PromptsSerialized
<1>8. /\ PromptsType' /\ TimersFit(shown', seq', timers')
      /\ ~Active(sh) => \A j, i \in Kinds : shown'[j] # None /\ shown'[i] # None => j = i
      /\ ~Active(shown') => \A j \in Kinds : queue'[j] = << >>
      /\ \A j \in Kinds, c \in Calls :
            (sh[j] = c \/ c \in Elements(queue[j])) =>
                \/ shown'[j] = c \/ c \in Elements(queue'[j])
                \/ j = "permission" /\ c \in Waved(sh, queue)
  <2>1. TypeOK /\ queue \in [Kinds -> Seq(Calls)] /\ \A j \in Kinds : Len(queue[j]) <= MaxPending
    BY <1>1, TypeParts DEF PromptsType
  <2> HIDE DEF sh, Kinds
  <2>2. QED
    BY <1>2, <1>5, <1>6, <2>1, ActivateKeeps DEF PromptsType
<1>9. PromptsSerialized'
  <2>1. ~Active(sh)
    <3> HIDE DEF sh
    <3>1. QED
      BY <1>5, <1>7 DEF Active
  <2>2. QED
    BY <1>8, <2>1 DEF PromptsSerialized, Active
<1>10. AskingInv' /\ TypeOK'
  BY <1>2, <1>3, <1>4, <1>8, PrimedTypeParts DEF IInv, AskingInv, tools
<1>11. NoPromptLost'
  <2> SUFFICES ASSUME NEW c \in Calls, stage[c] = "asking", answer'[c] = "none"
               PROVE  shown'[asking[c]] = c \/ c \in Elements(queue'[asking[c]])
    BY <1>2 DEF NoPromptLost, tools
  <2> DEFINE j == asking[c]
  <2>1. j \in Kinds
    BY DEF IInv, AskingInv
  <2>2. /\ answer[c] = "none" /\ <<c, j>> # <<shown[k], k>>
        /\ ~(j = "permission" /\ c \in Waved(sh, queue))
    <3>1. <<c, j>> \notin no \cup yes /\ answer[c] = "none"
      <4> HIDE DEF no, yes
      <4>1. QED
        BY <1>1, <1>2, ResolveKeeps DEF ToolsType
    <3>2. QED
      BY <3>1
  <2>3. shown[j] = c \/ c \in Elements(queue[j])
    BY <2>2 DEF IInv, NoPromptLost
  <2>4. sh[j] = c \/ c \in Elements(queue[j])
    BY <1>5, <2>1, <2>2, <2>3
  <2>5. QED
    <3> HIDE DEF sh, j, Kinds
    <3>1. shown'[j] = c \/ c \in Elements(queue'[j])
      BY <1>8, <2>1, <2>2, <2>4
    <3>2. QED
      BY <3>1 DEF j
<1>12. QED
  BY <1>8, <1>9, <1>10, <1>11 DEF IInv

\* clearInteractivePrompts leaves nothing to answer.
LEMMA ClearKeeps ==
    ASSUME IInv, ClearPrompts, TurnsType', UNCHANGED tools
    PROVE  IInv'
<1> DEFINE no == {q \in Requests : shown[q[2]] = q[1] \/ q[1] \in Elements(queue[q[2]])}
<1>1. TurnsType /\ PromptsType /\ ToolsType
  BY TypeParts DEF IInv
<1>2. /\ shown' = [k \in Kinds |-> None] /\ queue' = [k \in Kinds |-> << >>]
      /\ seq' = seq /\ timers' = timers /\ Resolve(no, {}) /\ tools' = tools
  BY DEF ClearPrompts
<1>3. ToolsType'
  <2>1. answer' \in [Calls -> {"none", "yes", "no"}]
    BY <1>1, <1>2, ResolveKeeps
  <2>2. QED
    BY <1>1, <1>2, <2>1 DEF ToolsType, tools
<1>4. PromptsType'
  BY <1>1, <1>2, PromptsAssumption DEF PromptsType
<1>5. PromptsSerialized' /\ TimersFit(shown', seq', timers')
  <2>1. \A tm \in timers : tm.kind \in Kinds
    BY <1>1 DEF PromptsType, Timers
  <2>2. \A k \in Kinds : shown'[k] = None /\ queue'[k] = << >>
    BY <1>2
  <2> HIDE DEF Kinds
  <2>3. QED
    BY <1>2, <2>1, <2>2 DEF IInv, TimersFit, PromptsSerialized, Active
<1>6. NoPromptLost'
  <2> SUFFICES ASSUME NEW c \in Calls, stage[c] = "asking"
               PROVE  answer'[c] # "none"
    BY <1>2 DEF NoPromptLost, tools
  <2>1. asking[c] \in Kinds
    BY DEF IInv, AskingInv
  <2>2. answer[c] # "none" \/ <<c, asking[c]>> \in no
    BY <2>1 DEF IInv, NoPromptLost, Requests
  <2>3. QED
    <3> HIDE DEF no
    <3>1. QED
      BY <1>1, <1>2, <2>2, ResolveKeeps DEF ToolsType
<1>7. QED
  BY <1>2, <1>3, <1>4, <1>5, <1>6, PrimedTypeParts DEF IInv, AskingInv, tools

\* A request that arrives is answered, queued or shown.
LEMMA ArriveKeeps ==
    ASSUME IInv, NEW c \in Calls, Arrive(c)
    PROVE  IInv'
<1> DEFINE k == asking[c]
<1>1. TurnsType /\ PromptsType /\ ToolsType
  BY TypeParts DEF IInv
<1>2. /\ stage[c] = "sending" /\ k \in Kinds
      /\ stage' = [stage EXCEPT ![c] = "asking"]
      /\ UNCHANGED <<turns, autonomous, owner, asking, asked>>
  BY DEF Arrive, IInv, AskingInv
<1>3. TurnsType'
  BY <1>1, <1>2 DEF TurnsType, turns
<1>4. AskingInv'
  BY <1>1, <1>2 DEF IInv, AskingInv, ToolsType
<1>5. ASSUME answer' \in [Calls -> {"none", "yes", "no"}] PROVE ToolsType'
  BY <1>1, <1>2, <1>5 DEF ToolsType
\* What is left to show of the calls that waited before, and of c.
<1>6. ASSUME \A d \in Calls : answer[d] # "none" => answer'[d] # "none",
             answer'[c] # "none" \/ shown'[k] = c \/ c \in Elements(queue'[k]),
             \A j \in Kinds, d \in Calls :
                 (shown[j] = d \/ d \in Elements(queue[j])) =>
                     shown'[j] = d \/ d \in Elements(queue'[j])
                         \/ (asking[d] = j => answer'[d] # "none")
      PROVE  NoPromptLost'
  <2> SUFFICES ASSUME NEW d \in Calls, stage'[d] = "asking", answer'[d] = "none"
               PROVE  shown'[asking[d]] = d \/ d \in Elements(queue'[asking[d]])
    BY <1>2 DEF NoPromptLost
  <2>1. CASE d = c
    BY <1>6, <2>1
  <2>2. CASE d # c
    <3>1. stage[d] = "asking" /\ asking[d] \in Kinds
      BY <1>1, <1>2, <2>2 DEF ToolsType, IInv, AskingInv
    <3>2. shown[asking[d]] = d \/ d \in Elements(queue[asking[d]])
      BY <1>6, <3>1 DEF IInv, NoPromptLost
    <3>3. QED
      BY <1>6, <3>1, <3>2
  <2>3. QED
    BY <2>1, <2>2
<1>7. CASE MustWait(k) /\ Full(k) /\ Resolve({<<c, k>>}, {}) /\ UNCHANGED prompts
  <2>1. /\ answer' \in [Calls -> {"none", "yes", "no"}]
        /\ \A d \in Calls : answer[d] # "none" => answer'[d] # "none"
        /\ answer'[c] # "none"
    BY <1>1, <1>7, ResolveKeeps
  <2>2. /\ shown' = shown /\ queue' = queue /\ seq' = seq /\ timers' = timers
    BY <1>7 DEF prompts
  <2>3. NoPromptLost'
    BY <1>6, <2>1, <2>2
  <2>4. PromptsType' /\ PromptsSerialized' /\ TimersFit(shown', seq', timers')
    BY <1>1, <2>2 DEF IInv, PromptsType, PromptsSerialized, Active
  <2>5. QED
    BY <1>3, <1>4, <1>5, <2>1, <2>3, <2>4, PrimedTypeParts DEF IInv
<1>8. CASE /\ MustWait(k) /\ ~Full(k) /\ UNCHANGED answer
           /\ ShowNothing(shown, [queue EXCEPT ![k] = Append(@, c)], timers)
  <2>1. queue[k] \in Seq(Calls) /\ Len(queue[k]) \in Nat /\ Len(queue[k]) < MaxPending
    BY <1>1, <1>2, <1>8, PromptsAssumption DEF PromptsType, Full
  <2>2. /\ Append(queue[k], c) \in Seq(Calls)
        /\ Len(Append(queue[k], c)) <= MaxPending
        /\ Elements(Append(queue[k], c)) = Elements(queue[k]) \cup {c}
    BY <2>1, ElementsAppend, PromptsAssumption
  <2>3. /\ shown' = shown /\ seq' = seq /\ timers' = timers /\ answer' = answer
        /\ queue' \in [Kinds -> Seq(Calls)] /\ queue'[k] = Append(queue[k], c)
        /\ \A j \in Kinds : j # k => queue'[j] = queue[j]
    BY <1>1, <1>2, <1>8, <2>2 DEF ShowNothing, PromptsType
  <2>4. PromptsType'
    BY <1>1, <2>2, <2>3 DEF PromptsType
  <2>5. PromptsSerialized' /\ TimersFit(shown', seq', timers')
    BY <1>8, <2>3 DEF IInv, PromptsSerialized, Active, MustWait, TimersFit
  <2>6. NoPromptLost'
    <3> HIDE DEF k, Kinds
    <3>1. \A j \in Kinds, d \in Calls :
              d \in Elements(queue[j]) => d \in Elements(queue'[j])
      BY <2>2, <2>3
    <3>2. c \in Elements(queue'[k])
      BY <2>2, <2>3
    <3>3. QED
      BY <1>6, <2>3, <3>1, <3>2
  <2>7. QED
    BY <1>1, <1>3, <1>4, <1>5, <2>3, <2>4, <2>5, <2>6, PrimedTypeParts DEF IInv, ToolsType
<1>9. CASE /\ ~MustWait(k) /\ k = "permission" /\ autonomous
           /\ Resolve({}, {<<d, k>> : d \in {c} \cup Waved(shown, queue)})
           /\ ActivateNext(shown, queue, timers)
  <2> DEFINE yes == {<<d, k>> : d \in {c} \cup Waved(shown, queue)}
  <2>1. /\ answer' \in [Calls -> {"none", "yes", "no"}]
        /\ \A d \in Calls : answer[d] # "none" => answer'[d] # "none"
        /\ \A d \in Calls : <<d, asking[d]>> \in yes => answer'[d] # "none"
    <3> HIDE DEF yes
    <3>1. Resolve({}, yes)
      BY <1>9 DEF yes
    <3>2. QED
      BY <1>1, <3>1, ResolveKeeps
  <2>2. ~Active(shown)
    BY <1>9 DEF MustWait
  <2>3. /\ PromptsType' /\ TimersFit(shown', seq', timers')
        /\ \A i, j \in Kinds : shown'[i] # None /\ shown'[j] # None => i = j
        /\ ~Active(shown') => \A j \in Kinds : queue'[j] = << >>
        /\ \A j \in Kinds, d \in Calls :
              (shown[j] = d \/ d \in Elements(queue[j])) =>
                  \/ shown'[j] = d \/ d \in Elements(queue'[j])
                  \/ j = "permission" /\ d \in Waved(shown, queue)
    <3>1. /\ TypeOK /\ shown \in [Kinds -> Calls \cup {None}]
          /\ queue \in [Kinds -> Seq(Calls)] /\ \A j \in Kinds : Len(queue[j]) <= MaxPending
          /\ timers \in SUBSET Timers /\ TimersFit(shown, seq, timers)
      BY <1>1 DEF IInv, PromptsType
    <3> HIDE DEF Kinds
    <3>2. QED
      BY <1>9, <2>2, <3>1, ActivateKeeps DEF PromptsType
  <2>4. NoPromptLost'
    <3>1. answer'[c] # "none"
      BY <2>1
    <3>2. \A j \in Kinds, d \in Calls :
              j = "permission" /\ d \in Waved(shown, queue)
                  => (asking[d] = j => answer'[d] # "none")
      BY <1>9, <2>1
    <3>3. QED
      BY <1>6, <2>1, <2>3, <3>1, <3>2
  <2>5. QED
    BY <1>3, <1>4, <1>5, <2>1, <2>3, <2>4, PrimedTypeParts DEF IInv, PromptsSerialized
<1>10. CASE ~MustWait(k) /\ Show(shown, queue, timers, k, c) /\ UNCHANGED answer
  <2>1. \A j \in Kinds : shown[j] = None /\ queue[j] = << >>
    BY <1>10 DEF MustWait, Active, IInv, PromptsSerialized
  <2> DEFINE tm == [kind |-> k, seq |-> seq[k] + 1, of |-> c]
  <2>2. /\ shown' \in [Kinds -> Calls \cup {None}] /\ shown'[k] = c
        /\ \A j \in Kinds : j # k => shown'[j] = None
        /\ queue' = queue /\ timers' = timers \cup {tm} /\ answer' = answer
        /\ seq' \in [Kinds -> Nat] /\ seq'[k] = seq[k] + 1
        /\ \A j \in Kinds : j # k => seq'[j] = seq[j]
    BY <1>1, <1>2, <1>10, <2>1 DEF Show, PromptsType
  <2>3. PromptsType'
    BY <1>1, <1>2, <2>2 DEF PromptsType, Timers
  <2>4. PromptsSerialized'
    BY <1>2, <2>2, NoneAssumption DEF PromptsSerialized, Active
  <2>5. TimersFit(shown', seq', timers')
    <3>1. ASSUME NEW x \in timers
          PROVE  /\ x.seq <= seq'[x.kind]
                 /\ (x.seq = seq'[x.kind] /\ shown'[x.kind] # None) => shown'[x.kind] = x.of
      <4>1. /\ x.kind \in Kinds /\ x.seq \in Nat /\ x.seq <= seq[x.kind]
            /\ seq \in [Kinds -> Nat]
        BY <1>1 DEF PromptsType, Timers, IInv, TimersFit
      <4>2. QED
        BY <2>2, <4>1
    <3>2. /\ tm.seq <= seq'[tm.kind]
          /\ (tm.seq = seq'[tm.kind] /\ shown'[tm.kind] # None) => shown'[tm.kind] = tm.of
      BY <1>1, <1>2, <2>2 DEF PromptsType
    <3>3. QED
      BY <2>2, <3>1, <3>2 DEF TimersFit
  <2>6. NoPromptLost'
    <3>1. \A j \in Kinds, d \in Calls : ~(shown[j] = d \/ d \in Elements(queue[j]))
      BY <2>1, ElementsEmpty, NoneAssumption
    <3>2. QED
      BY <1>6, <2>2, <3>1
  <2>7. QED
    BY <1>1, <1>3, <1>4, <1>5, <2>2, <2>3, <2>4, <2>5, <2>6, PrimedTypeParts DEF IInv, ToolsType
<1>11. QED
  BY <1>7, <1>8, <1>9, <1>10 DEF Arrive

\* A timer that fires, its own prompt shown or not.
LEMMA TimeoutKeeps ==
    ASSUME IInv, NEW tm \in timers, Timeout(tm)
    PROVE  IInv'
<1>1. TurnsType /\ PromptsType /\ ToolsType
  BY TypeParts DEF IInv
<1>2. tm.kind \in Kinds /\ UNCHANGED <<turns, autonomous, tools>>
  BY <1>1 DEF PromptsType, Timers, Timeout
<1>3. CASE shown[tm.kind] # None /\ Settle(tm.kind, "no", timers \ {tm})
  <2> HIDE DEF Kinds
  <2>1. QED
    BY <1>2, <1>3, SettleKeeps
<1>4. CASE timers' = timers \ {tm} /\ UNCHANGED <<shown, queue, seq, answer>>
  <2>1. TurnsType' /\ PromptsType' /\ ToolsType'
    BY <1>1, <1>2, <1>4 DEF TurnsType, PromptsType, ToolsType, turns, tools
  <2>2. AskingInv' /\ NoPromptLost' /\ PromptsSerialized' /\ TimersFit(shown', seq', timers')
    BY <1>2, <1>4 DEF IInv, AskingInv, NoPromptLost, PromptsSerialized, Active, TimersFit, tools
  <2>3. QED
    BY <2>1, <2>2, PrimedTypeParts DEF IInv
<1>5. QED
  BY <1>3, <1>4 DEF Timeout

-----------------------------------------------------------------------------
(* The engine                                                               *)

\* A step of call c that touches no prompt and leaves it waiting for nothing.
LEMMA ToolKeeps ==
    ASSUME IInv, NEW c \in Calls, UNCHANGED <<turns, prompts, autonomous>>,
           ToolsType', AskingInv',
           \A d \in Calls : stage'[d] = "asking" =>
               stage[d] = "asking" /\ asking'[d] = asking[d] /\ answer'[d] = answer[d]
    PROVE  IInv'
<1>1. TurnsType /\ PromptsType
  BY TypeParts DEF IInv
<1>2. TurnsType' /\ PromptsType'
  BY <1>1 DEF TurnsType, PromptsType, turns, prompts
<1>3. NoPromptLost' /\ PromptsSerialized' /\ TimersFit(shown', seq', timers')
  BY DEF IInv, NoPromptLost, PromptsSerialized, Active, TimersFit, prompts
<1>4. QED
  BY <1>2, <1>3, PrimedTypeParts DEF IInv

\* A step that changes turns, the autonomy tier or nothing.
LEMMA TurnKeeps ==
    ASSUME IInv, TurnsType', UNCHANGED <<prompts, tools, answer>>
    PROVE  IInv'
<1>1. PromptsType /\ ToolsType
  BY TypeParts DEF IInv
<1>2. PromptsType' /\ ToolsType'
  BY <1>1 DEF PromptsType, ToolsType, prompts, tools
<1>3. /\ AskingInv' /\ NoPromptLost' /\ PromptsSerialized'
      /\ TimersFit(shown', seq', timers')
  BY DEF IInv, AskingInv, NoPromptLost, PromptsSerialized, Active, TimersFit, prompts, tools
<1>4. QED
  BY <1>2, <1>3, PrimedTypeParts DEF IInv

\* Each step of a tool call.
LEMMA EngineKeeps ==
    ASSUME IInv, Engine
    PROVE  IInv'
<1>1. TurnsType /\ ToolsType
  BY TypeParts DEF IInv
<1>2. ASSUME NEW c \in Calls, NEW t \in Turns, Begin(c, t) PROVE IInv'
  <2>1. ToolsType' /\ AskingInv'
    BY <1>1, <1>2 DEF ToolsType, Begin, IInv, AskingInv
  <2>2. QED
    BY <1>1, <1>2, <2>1, ToolKeeps DEF Begin, ToolsType
<1>3. ASSUME NEW c \in Calls, NEW k \in Kinds, Ask(c, k) PROVE IInv'
  <2>1. ToolsType' /\ AskingInv'
    BY <1>1, <1>3 DEF ToolsType, Ask, IInv, AskingInv, Requests
  <2>2. QED
    BY <1>1, <1>3, <2>1, ToolKeeps DEF Ask, ToolsType
<1>4. ASSUME NEW c \in Calls, Allow(c) \/ Deny(c) \/ Finish(c) PROVE IInv'
  <2>1. /\ UNCHANGED <<turns, prompts, autonomous, owner, asked, asking, answer>>
        /\ \E s \in {"gating", "working", "ended"} : stage' = [stage EXCEPT ![c] = s]
    BY <1>4 DEF Allow, Deny, Finish, Goes
  <2>2. ToolsType' /\ AskingInv'
    BY <1>1, <2>1 DEF ToolsType, IInv, AskingInv
  <2>3. QED
    BY <1>1, <2>1, <2>2, ToolKeeps DEF ToolsType
<1>5. ASSUME NEW c \in Calls, NEW a, Resume(c, a) PROVE IInv'
  <2>1. /\ UNCHANGED <<turns, prompts, autonomous, owner, asked>>
        /\ \E s \in {"gating", "working", "ended"} : stage' = [stage EXCEPT ![c] = s]
        /\ asking' = [asking EXCEPT ![c] = "nothing"]
        /\ answer' = [answer EXCEPT ![c] = "none"]
    BY <1>5 DEF Resume, Goes, After
  <2>2. ToolsType' /\ AskingInv'
    BY <1>1, <2>1 DEF ToolsType, IInv, AskingInv
  <2>3. QED
    BY <1>1, <2>1, <2>2, ToolKeeps DEF ToolsType
<1>6. ASSUME NEW t \in Turns, Close(t) PROVE IInv'
  <2>1. TurnsType'
    BY <1>1, <1>6 DEF TurnsType, Close
  <2>2. QED
    BY <1>6, <2>1, TurnKeeps DEF Close
<1>7. QED
  BY <1>2, <1>3, <1>4, <1>5, <1>6 DEF Engine, Hear, GiveUp

\* Each step of the event loop.
LEMMA EventLoopKeeps ==
    ASSUME IInv, EventLoop
    PROVE  IInv'
<1>1. TurnsType /\ MaxTurns \in Nat /\ MaxTyped \in Nat
  BY TypeParts, TurnsAssumption DEF IInv
<1>2. ASSUME NEW k \in Kinds, NEW a \in {"yes", "no"}, Key(k, a) PROVE IInv'
  <2>1. shown[k] # None /\ Settle(k, a, timers) /\ UNCHANGED <<turns, autonomous, tools>>
    BY <1>2 DEF Key
  <2> HIDE DEF Kinds
  <2>2. QED
    BY <2>1, SettleKeeps
<1>3. ASSUME NEW t \in Turns, Submit(t) PROVE IInv'
  <2>1. TurnsType'
    BY <1>1, <1>3 DEF TurnsType, Submit, StartStream
  <2>2. QED
    BY <1>3, <2>1, TurnKeeps DEF Submit
<1>4. ASSUME NEW t \in Turns, DoneArrives(t) \/ ErrorArrives(t) PROVE IInv'
  <2>1. ClearPrompts /\ UNCHANGED tools
    BY <1>4 DEF DoneArrives, ErrorArrives
  <2>2. TurnsType'
    <3>1. CASE ErrorArrives(t)
      BY <1>1, <3>1 DEF TurnsType, ErrorArrives
    <3>2. CASE DoneArrives(t)
      <4>1. autonomous' \in BOOLEAN /\ waiting' \in BOOLEAN
        BY <1>1, <3>2, Zenon DEF TurnsType, DoneArrives, StartStream
      <4>2. cancel' \in {0} \cup Turns
        BY <3>2 DEF DoneArrives, StartStream
      <4>3. typed' \in 0..MaxTyped
        BY <1>1, <3>2 DEF TurnsType, DoneArrives
      <4>4. done' \in [Turns -> BOOLEAN]
        BY <1>1, <3>2 DEF TurnsType, DoneArrives, StartStream
      <4>5. turn' \in [Turns -> {"unused", "open", "closing", "over"}]
        BY <1>1, <3>2 DEF TurnsType, DoneArrives
      <4>6. QED
        BY <4>1, <4>2, <4>3, <4>4, <4>5 DEF TurnsType
    <3>3. QED
      BY <1>4, <3>1, <3>2
  <2>3. QED
    BY <2>1, <2>2, ClearKeeps
<1>5. CASE TypeAhead \/ CancelTurn \/ SwitchAutonomy
  <2>1. TurnsType'
    <3>1. CASE TypeAhead
      BY <1>1, <3>1 DEF TurnsType, TypeAhead
    <3>2. CASE CancelTurn
      BY <1>1, <3>2 DEF TurnsType, CancelTurn
    <3>3. CASE SwitchAutonomy
      BY <1>1, <3>3 DEF TurnsType, SwitchAutonomy, turns
    <3>4. QED
      BY <1>5, <3>1, <3>2, <3>3
  <2>2. QED
    BY <1>5, <2>1, TurnKeeps DEF TypeAhead, CancelTurn, SwitchAutonomy
<1>6. QED
  BY <1>2, <1>3, <1>4, <1>5, ArriveKeeps, TimeoutKeeps DEF EventLoop

-----------------------------------------------------------------------------
(* The specification                                                        *)

LEMMA InitEstablishes == Init => IInv
<1> SUFFICES ASSUME Init PROVE IInv
  OBVIOUS
<1>1. TurnsType
  <2>1. typed \in 0..MaxTyped
    BY TurnsAssumption DEF Init
  <2>2. turn \in [Turns -> {"unused", "open", "closing", "over"}] /\ done \in [Turns -> BOOLEAN]
    BY DEF Init
  <2>3. QED
    BY <2>1, <2>2 DEF Init, TurnsType
<1>2. PromptsType
  BY PromptsAssumption DEF Init, PromptsType
<1>3. ToolsType
  BY DEF Init, ToolsType
<1>4. AskingInv /\ NoPromptLost /\ PromptsSerialized /\ TimersFit(shown, seq, timers)
  BY DEF Init, AskingInv, NoPromptLost, PromptsSerialized, Active, TimersFit
<1>5. QED
  BY <1>1, <1>2, <1>3, <1>4, TypeParts DEF IInv

LEMMA NextKeeps == IInv /\ [Next]_vars => IInv'
<1> SUFFICES ASSUME IInv, [Next]_vars PROVE IInv'
  OBVIOUS
<1>1. CASE UNCHANGED vars
  <2>1. TurnsType
    BY TypeParts DEF IInv
  <2>2. TurnsType'
    BY <1>1, <2>1 DEF vars, turns, TurnsType
  <2>3. QED
    BY <1>1, <2>2, TurnKeeps DEF vars
<1>2. QED
  BY <1>1, EventLoopKeeps, EngineKeeps DEF Next

\* Every reachable state of the interface and its calls satisfies the inductive
\* invariant the other theorems follow from.
THEOREM Inductive == Spec => []IInv
  BY InitEstablishes, NextKeeps, PTL DEF Spec

\* The types of the interface's fields, queues and timers and of the calls, and
\* that no queue outgrows maxPendingPrompts (chat_update_prompts.go:19).
THEOREM TypeCorrect == Spec => []TypeOK
<1>1. IInv => TypeOK
  BY DEF IInv
<1>2. QED
  BY <1>1, Inductive, PTL

\* No tool call waits for a prompt the interface has lost
\* (chat_update_prompts.go:138-140).
THEOREM PromptsKept == Spec => []NoPromptLost
<1>1. IInv => NoPromptLost
  BY DEF IInv
<1>2. QED
  BY <1>1, Inductive, PTL

\* One prompt at a time, and none waits while none is shown
\* (chat_update_prompts.go:421-428).
THEOREM OneKeyboard == Spec => []PromptsSerialized
<1>1. IInv => PromptsSerialized
  BY DEF IInv
<1>2. QED
  BY <1>1, Inductive, PTL

-----------------------------------------------------------------------------
(* Timers                                                                   *)

\* What TimeoutsAreOwn says of one step.
OwnTimeout ==
    \A tm \in timers : \A c \in Calls :
        (tm \notin timers' /\ answer[c] = "none" /\ answer'[c] = "no")
            => <<c, asking[c]>> = <<tm.of, tm.kind>>

\* Activating a prompt removes no timer.
LEMMA ActivateTimers ==
    ASSUME NEW sh, NEW qs, NEW tms, ActivateNext(sh, qs, tms)
    PROVE  tms \subseteq timers'
<1> HIDE DEF Kinds
<1>1. QED
  BY DEF ActivateNext, Show, ShowNothing

\* No step but a timeout removes a timer.
LEMMA OtherTimers ==
    ASSUME IInv, [Next]_vars
    PROVE  timers \subseteq timers' \/ \E tm \in timers : Timeout(tm)
<1> HIDE DEF Kinds
<1>1. ASSUME NEW c \in Calls, Arrive(c) PROVE timers \subseteq timers'
  BY <1>1, ActivateTimers DEF Arrive, ShowNothing, Show, prompts
<1>2. ASSUME NEW k \in Kinds, NEW a \in {"yes", "no"}, Key(k, a) PROVE timers \subseteq timers'
  BY <1>2, ActivateTimers DEF Key, Settle
<1>3. ASSUME NEW t \in Turns, Submit(t) \/ DoneArrives(t) \/ ErrorArrives(t)
      PROVE  timers \subseteq timers'
  BY <1>3 DEF Submit, DoneArrives, ErrorArrives, ClearPrompts, prompts
<1>4. CASE TypeAhead \/ CancelTurn \/ SwitchAutonomy \/ UNCHANGED vars
  BY <1>4 DEF TypeAhead, CancelTurn, SwitchAutonomy, prompts, vars
<1>5. CASE Engine
  BY <1>5 DEF Engine, Begin, Ask, Allow, Deny, Finish, Hear, GiveUp, Resume, Goes, Close, prompts
<1>6. QED
  BY <1>1, <1>2, <1>3, <1>4, <1>5 DEF Next, EventLoop

LEMMA TimeoutOwn ==
    ASSUME IInv, NEW t \in timers, Timeout(t)
    PROVE  OwnTimeout
<1> SUFFICES ASSUME NEW tm \in timers, NEW c \in Calls, tm \notin timers',
                    answer[c] = "none", answer'[c] = "no"
             PROVE  <<c, asking[c]>> = <<tm.of, tm.kind>>
  BY DEF OwnTimeout
<1> DEFINE k == t.kind
           sh == [shown EXCEPT ![k] = None]
           waved == {<<d, "permission">> : d \in Waved(sh, queue)}
<1>1. PICK yes : /\ shown[k] # None /\ seq[k] = t.seq /\ Resolve({<<shown[k], k>>}, yes)
                 /\ ActivateNext(sh, queue, timers \ {t})
  BY DEF Timeout, Settle
<1>2. tm = t
  BY <1>1, ActivateTimers
<1>3. <<c, asking[c]>> \in {<<shown[k], k>>}
  BY <1>1, ResolveKeeps, TypeParts DEF IInv
<1>4. shown[k] = t.of
  BY <1>1 DEF IInv, TimersFit
<1>5. QED
  BY <1>2, <1>3, <1>4

\* A timer that fires denies the request it was set for and no other, however
\* late it comes (chat_update_prompts.go:202-213).
THEOREM TimersAreOwn == Spec => TimeoutsAreOwn
<1>1. IInv /\ [Next]_vars => [OwnTimeout]_vars
  BY OtherTimers, TimeoutOwn DEF OwnTimeout
<1>2. TimeoutsAreOwn <=> [][OwnTimeout]_vars
  BY DEF TimeoutsAreOwn, OwnTimeout
<1>3. QED
  BY <1>1, <1>2, Inductive, PTL DEF Spec

-----------------------------------------------------------------------------
(* Turns                                                                    *)

\* What OnlyALateEndDetaches says of one step.
Detaches(t) ==
    (Runs(t)' /\ ~Cancellable(t)') =>
        /\ Runs(t)
        /\ \/ ~Cancellable(t)
           \/ \E u \in Turns \ {t} : turn[u] = "closing" /\ turn'[u] = "over"

\* The end of turn t takes the cancel from no turn but those it comes late for,
\* and the turn it starts has it.
LEMMA EndDetaches ==
    ASSUME TurnsType, NEW t \in Turns, DoneArrives(t) \/ ErrorArrives(t), NEW v \in Turns
    PROVE  Detaches(v)
<1>1. turn[t] = "closing"
  BY DEF DoneArrives, ErrorArrives
<1>2. CASE turn' = [turn EXCEPT ![t] = "over"] /\ UNCHANGED done
  BY <1>1, <1>2 DEF Detaches, Runs, TurnsType
<1>3. CASE \E u \in Turns :
              StartStream(u, 0) /\ turn' = [turn EXCEPT ![t] = "over", ![u] = "open"]
  <2>1. PICK u \in Turns :
            StartStream(u, 0) /\ turn' = [turn EXCEPT ![t] = "over", ![u] = "open"]
    BY <1>3
  <2>2. u # t /\ turn'[t] = "over" /\ turn'[u] = "open"
        /\ (\A w \in Turns \ {t, u} : turn'[w] = turn[w])
    BY <1>1, <2>1 DEF StartStream, TurnsType
  <2>3. cancel' = u /\ waiting' = TRUE /\ \A w \in Turns : ~done'[w] => ~done[w]
    BY <2>1 DEF StartStream
  <2>4. CASE v = u
    BY <2>3, <2>4 DEF Detaches, Cancellable
  <2>5. CASE v # u
    <3>1. CASE v = t
      BY <2>2, <3>1 DEF Detaches, Runs
    <3>2. CASE v # t
      BY <1>1, <2>2, <2>3, <2>5, <3>2 DEF Detaches, Runs
    <3>3. QED
      BY <3>1, <3>2
  <2>6. QED
    BY <2>4, <2>5
<1>4. QED
  BY <1>2, <1>3 DEF DoneArrives, ErrorArrives

LEMMA StepDetaches ==
    ASSUME TurnsType, [Next]_vars, NEW v \in Turns
    PROVE  Detaches(v)
<1> HIDE DEF Kinds
<1>1. ASSUME NEW t \in Turns, Submit(t) PROVE Detaches(v)
  <2>1. ~waiting /\ cancel' = t /\ waiting' = TRUE
        /\ (\A w \in Turns : ~done'[w] => ~done[w])
    BY <1>1 DEF Submit, StartStream
  <2>2. \A w \in Turns \ {t} : turn'[w] = turn[w]
    BY <1>1 DEF Submit, TurnsType
  <2>3. QED
    BY <2>1, <2>2 DEF Detaches, Runs, Cancellable
<1>2. CASE CancelTurn
  BY <1>2 DEF CancelTurn, Detaches, Runs, Cancellable, TurnsType
<1>3. ASSUME NEW t \in Turns, Close(t) PROVE Detaches(v)
  BY <1>3 DEF Close, Detaches, Runs, Cancellable, TurnsType
<1>4. CASE UNCHANGED <<waiting, cancel, turn, done>>
  BY <1>4 DEF Detaches, Runs, Cancellable
<1>5. ASSUME NEW c \in Calls, Arrive(c) PROVE UNCHANGED <<waiting, cancel, turn, done>>
  BY <1>5 DEF Arrive, turns
<1>6. ASSUME NEW k \in Kinds, NEW a \in {"yes", "no"}, Key(k, a)
      PROVE  UNCHANGED <<waiting, cancel, turn, done>>
  BY <1>6 DEF Key, turns
<1>7. ASSUME NEW tm \in timers, Timeout(tm) PROVE UNCHANGED <<waiting, cancel, turn, done>>
  BY <1>7 DEF Timeout, turns
<1>8. CASE TypeAhead \/ SwitchAutonomy \/ UNCHANGED vars
  BY <1>4, <1>8 DEF TypeAhead, SwitchAutonomy, turns, vars
<1>9. ASSUME Engine, ~\E t \in Turns : Close(t)
      PROVE  UNCHANGED <<waiting, cancel, turn, done>>
  BY <1>9 DEF Engine, Begin, Ask, Allow, Deny, Finish, Hear, GiveUp, Resume, Goes, turns
<1>10. QED
  BY <1>1, <1>2, <1>3, <1>4, <1>5, <1>6, <1>7, <1>8, <1>9, EndDetaches
     DEF Next, EventLoop

\* Of all the steps of users, streams, prompts and tools only the handling of
\* another turn's end makes a running turn one that Ctrl+C does not reach
\* (chat_stream.go:78-87, chat_update_stream.go:119-156).
THEOREM OnlyLateEndsDetach == Spec => OnlyALateEndDetaches
<1>1. IInv /\ [Next]_vars => [\A t \in Turns : Detaches(t)]_vars
  BY StepDetaches, TypeParts DEF IInv
<1>2. OnlyALateEndDetaches <=> [][\A t \in Turns : Detaches(t)]_vars
  BY DEF OnlyALateEndDetaches, Detaches
<1>3. QED
  BY <1>1, <1>2, Inductive, PTL DEF Spec
=============================================================================
