------------------------ MODULE DaemonSessionsProofs ------------------------
(***************************************************************************)
(* Proofs about DaemonSessions, for every number of chats, calls, sessions *)
(* and stripes: the type invariant, that a cancel reaches whoever          *)
(* generates, that what a client was told is saved stays saved, and that   *)
(* no chat brings a deleted session back.                                  *)
(*                                                                         *)
(* The argument rests on the stripe lock.  A chat that holds it is the     *)
(* only one of its session, so its transcript goes on from the file        *)
(* until it saves (FileInv), its cancel entry is the session's (CancelInv) *)
(* and no deletion falls in between (NotDeleted); a new id is unknown to   *)
(* everybody until its handler gave it out (FreshInv).                     *)
(***************************************************************************)
EXTENDS DaemonSessions, TLAPS

\* A chat that has its slot has a session, one past TakeLock its stripe's lock.
LockInv ==
    \A r \in Requests : /\ pc[r] \in HasSlot => target[r] \in Sessions
                        /\ pc[r] \in HasLock => holder[stripe[target[r]]] = r

\* The entry of a registered generation is its own, until its handler leaves.
CancelInv ==
    \A r \in Requests :
        pc[r] \in Generates \cup {"returning"} => cancels[target[r]] = r

\* What a client can have been told, and a loop have done, at each place.
ReplyInv ==
    \A r \in Requests :
        /\ pc[r] \in {"idle", "waiting", "loaded"} => loop[r] = "none"
        /\ pc[r] \in {"idle", "waiting", "loaded"} => reply[r] = "none"
        /\ reply[r] \in {"exposed", "answered"} => target[r] \in Sessions
        /\ reply[r] = "answered" => Ended(r)

\* A call that arrived is a call on a session.
CallInv == \A c \in Calls : cpc[c] # "idle" => op[c] \in Ops

\* A new id its handler has not given out yet is nobody else's.
FreshInv ==
    \A r \in Requests :
        (kind[r].fresh /\ reply[r] = "none") =>
            /\ target[r] \in Sessions
            /\ saved[target[r]] = None /\ fate[target[r]] = "kept"
            /\ \A q \in Requests : target[q] = target[r] => q = r
            /\ \A c \in Calls : op[c] # None => op[c].on # target[r]

\* The turn of a chat that has not begun to generate is in no file, no transcript
\* and no copy.
AbsentInv ==
    \A r \in Requests : pc[r] \in {"idle", "waiting", "loaded"} =>
        /\ \A s \in Sessions : saved[s] # None => saved[s].turns[r] = "none"
        /\ \A q \in Requests : transcript[q][r] = "none"
        /\ \A c \in Calls : copy[c] # None => copy[c].turns[r] = "none"

\* The engine of a chat that generates has its prompt, and the answer once its
\* loop has got to one.
OwnInv ==
    \A r \in Requests : pc[r] \in Generates =>
        /\ Reaches(transcript[r][r], "prompt")
        /\ loop[r] = "answered" => Reaches(transcript[r][r], "answered")

\* The transcript of a chat goes on from the file.
FileInv ==
    \A r \in Requests :
        LET s == target[r] IN
        (pc[r] \in {"loaded"} \cup Generates /\ fate[s] = "kept" /\ saved[s] # None)
            => GoesOnFrom(transcript[r], saved[s].turns)

\* The file goes on from the copy a lease call loaded.
CopyInv ==
    \A c \in Calls :
        LET s == op[c].on IN
        (cpc[c] = "loaded" /\ fate[s] = "kept" /\ copy[c] # None)
            => saved[s] # None /\ GoesOnFrom(saved[s].turns, copy[c].turns)

\* No session is deleted under a chat that loaded it.
NotDeleted ==
    \A r \in Requests :
        pc[r] \in {"loaded"} \cup Generates => fate[target[r]] # "deleted"

\* Who is where, and what it may claim.
PlaceInv == CallInv /\ LockInv /\ CancelInv /\ ReplyInv /\ FreshInv

\* What the files hold of it.
StoreInv == /\ AbsentInv /\ OwnInv /\ FileInv /\ CopyInv
            /\ NotDeleted /\ DeletedStaysDeleted /\ ToldIsSaved

IInv == TypeOK /\ PlaceInv /\ StoreInv
-----------------------------------------------------------------------------
\* Going on from a transcript is a preorder.
LEMMA GoesOnFromItself == \A m : GoesOnFrom(m, m)
  BY DEF GoesOnFrom, Reaches

LEMMA GoesOnOn ==
    ASSUME NEW k, NEW m, NEW n, GoesOnFrom(k, m), GoesOnFrom(m, n)
    PROVE  GoesOnFrom(k, n)
  BY DEF GoesOnFrom, Reaches

\* What a loop takes out of a transcript leaves one that goes on from it.
LEMMA ShortenedGoesOn ==
    ASSUME NEW m \in Transcripts, NEW n \in Shortened(m)
    PROVE  /\ n \in Transcripts /\ GoesOnFrom(n, m)
           /\ \A u \in Requests : m[u] = "none" => n[u] = "none"
<1>1. PICK d \in SUBSET {u \in Requests : m[u] # "none"} :
          n = [u \in Requests |-> IF u \in d THEN "dropped" ELSE m[u]]
  BY DEF Shortened
<1>2. \A u \in Requests : n[u] = IF u \in d THEN "dropped" ELSE m[u]
  BY <1>1
<1>3. n \in Transcripts
  BY <1>1 DEF Transcripts, Progress
<1>4. GoesOnFrom(n, m)
  BY <1>2 DEF GoesOnFrom, Reaches
<1>5. QED
  BY <1>1, <1>2, <1>3, <1>4

\* Type of the store, for steps that leave the files alone.
LEMMA FilesTyped ==
    ASSUME TypeOK
    PROVE  /\ \A s \in Sessions : saved[s] # None =>
                  /\ saved[s] \in Files /\ saved[s].turns \in Transcripts
           /\ \A r \in Requests : transcript[r] \in Transcripts
           /\ NoTurns \in Transcripts /\ Empty \in Files
  BY DEF TypeOK, Files, Transcripts, Progress, NoTurns, Empty, Fences

\* Files, copies and promises do not change, chats only leave, and what is left of
\* a transcript goes on from what it was.
LEMMA StoreKept ==
    ASSUME IInv, UNCHANGED <<saved, target, op, copy, cpc, fate>>,
           \A q \in Requests :
               /\ pc'[q] \in Generates => pc[q] \in Generates
               /\ pc'[q] \in {"loaded"} \cup Generates => pc[q] \in {"loaded"} \cup Generates
               /\ pc'[q] \in {"idle", "waiting", "loaded"}
                     => pc[q] \in {"idle", "waiting", "loaded"}
               /\ reply'[q] = reply[q] \/ reply'[q] \notin {"exposed", "answered"}
               /\ reply'[q] = "answered" /\ loop'[q] = "answered" => loop[q] = "answered",
           \A q \in Requests :
               /\ pc'[q] \in {"loaded"} \cup Generates => GoesOnFrom(transcript'[q], transcript[q])
               /\ \A u \in Requests : transcript[q][u] = "none" => transcript'[q][u] = "none"
               /\ pc'[q] \in Generates /\ loop'[q] = "answered" /\ loop[q] # "answered"
                     => Reaches(transcript'[q][q], "answered")
    PROVE  StoreInv'
<1>1. AbsentInv'
  BY DEF IInv, StoreInv, AbsentInv
<1>2. OwnInv'
  <2> SUFFICES ASSUME NEW q \in Requests, pc'[q] \in Generates
               PROVE  /\ Reaches(transcript'[q][q], "prompt")
                      /\ loop'[q] = "answered" => Reaches(transcript'[q][q], "answered")
    BY DEF OwnInv
  <2>1. Reaches(transcript[q][q], "prompt")
        /\ (loop[q] = "answered" => Reaches(transcript[q][q], "answered"))
    BY DEF IInv, StoreInv, OwnInv
  <2>2. Reaches(transcript'[q][q], transcript[q][q])
    BY DEF GoesOnFrom
  <2>3. QED
    BY <2>1, <2>2 DEF Reaches
<1>3. FileInv'
  <2> SUFFICES ASSUME NEW q \in Requests, pc'[q] \in {"loaded"} \cup Generates,
                      fate[target[q]] = "kept", saved[target[q]] # None
               PROVE  GoesOnFrom(transcript'[q], saved[target[q]].turns)
    BY DEF FileInv
  <2>1. GoesOnFrom(transcript[q], saved[target[q]].turns)
    BY DEF IInv, StoreInv, FileInv
  <2>2. QED
    BY <2>1, GoesOnOn
<1>4. CopyInv' /\ NotDeleted' /\ DeletedStaysDeleted'
  BY DEF IInv, StoreInv, CopyInv, NotDeleted, DeletedStaysDeleted
<1>5. ToldIsSaved'
  <2> SUFFICES ASSUME NEW q \in Requests, reply'[q] \in {"exposed", "answered"},
                      fate[target[q]] = "kept"
               PROVE  /\ saved[target[q]] # None
                      /\ Reaches(saved[target[q]].turns[q],
                                 IF reply'[q] = "answered" /\ loop'[q] = "answered"
                                 THEN "answered" ELSE "prompt")
    BY DEF ToldIsSaved
  <2>1. reply'[q] = reply[q]
    OBVIOUS
  <2>2. /\ saved[target[q]] # None
        /\ Reaches(saved[target[q]].turns[q],
                   IF reply[q] = "answered" /\ loop[q] = "answered"
                   THEN "answered" ELSE "prompt")
    BY <2>1 DEF IInv, StoreInv, ToldIsSaved
  <2>3. QED
    BY <2>1, <2>2 DEF Reaches
<1>6. QED
  BY <1>1, <1>2, <1>3, <1>4, <1>5 DEF StoreInv

\* The steps of a chat that save nothing and leave the transcripts alone.
LEMMA HandlerKeeps ==
    ASSUME IInv, NEW r \in Requests,
           \/ Refuse(r) \/ Fail(r) \/ GenerateFails(r)
           \/ SaveFails(r) \/ StreamAbandoned(r) \/ WriteFails(r)
           \/ Disconnect(r) \/ Stall(r)
    PROVE  IInv'
<1>1. UNCHANGED <<saved, stripe, target, kind, transcript, loop, api, fate, crashes>>
  BY DEF Refuse, Fail, GenerateFails, SaveFails, StreamAbandoned, WriteFails,
     Disconnect, Stall
<1>2. TypeOK'
  <2>1. /\ holder' = holder
        /\ pc' \in [Requests -> {"idle", "done"} \cup HasSlot]
        /\ gone' \in [Requests -> BOOLEAN]
    BY DEF IInv, TypeOK, Refuse, Fail, GenerateFails, SaveFails, StreamAbandoned, WriteFails,
       Disconnect, Stall, HasSlot
  <2>2. cancels' \in [Sessions -> Requests \cup {None}]
    BY DEF IInv, TypeOK, Refuse, Fail, GenerateFails, SaveFails, StreamAbandoned, WriteFails,
       Disconnect, Stall
  <2>3. cancelled' \in [Requests -> BOOLEAN]
    BY DEF IInv, TypeOK, Refuse, Fail, GenerateFails, SaveFails, StreamAbandoned, WriteFails,
       Disconnect, Stall
  <2>4. reply' \in [Requests -> {"none", "refused", "exposed", "answered"}]
    BY DEF IInv, TypeOK, Refuse, Fail, GenerateFails, SaveFails, StreamAbandoned, WriteFails,
       Disconnect, Stall
  <2> QED BY <1>1, <2>1, <2>2, <2>3, <2>4 DEF IInv, TypeOK, api
<1>3. PlaceInv'
  <2>1. holder' = holder
        /\ \A q \in Requests : q # r => pc'[q] = pc[q] /\ reply'[q] = reply[q]
    BY DEF IInv, TypeOK, Refuse, Fail, GenerateFails, SaveFails, StreamAbandoned, WriteFails,
       Disconnect, Stall
  <2>2. /\ pc'[r] \in HasSlot => pc[r] \in HasSlot
        /\ pc'[r] \in HasLock => pc[r] \in HasLock
        /\ pc'[r] \in {"idle", "waiting", "loaded"} => pc'[r] = pc[r] /\ reply'[r] = reply[r]
        /\ reply'[r] \in {reply[r], "refused"}
    BY DEF IInv, TypeOK, Refuse, Fail, GenerateFails, SaveFails, StreamAbandoned, WriteFails,
       Disconnect, Stall, Reading, HasSlot, HasLock
  <2>3. \/ cancels' = cancels
           /\ (pc'[r] \in Generates \cup {"returning"} =>
                   pc[r] \in Generates \cup {"returning"})
        \/ GenerateFails(r)
    BY DEF IInv, TypeOK, Refuse, Fail, SaveFails, StreamAbandoned, WriteFails,
       Disconnect, Stall, Generates, Reading
  <2>4. CancelInv'
    <3>1. CASE GenerateFails(r)
      <4>1. /\ cancels' = [cancels EXCEPT ![target[r]] = r]
            /\ target[r] \in Sessions /\ pc[r] \in HasLock
        BY <3>1 DEF IInv, PlaceInv, LockInv, GenerateFails, HasLock, HasSlot
      <4>2. \A q \in Requests : pc[q] \in HasLock /\ target[q] = target[r] => q = r
        BY <4>1 DEF IInv, PlaceInv, LockInv
      <4>3. \A q \in Requests : pc[q] \in Generates \cup {"returning"} =>
                pc[q] \in HasLock /\ target[q] \in Sessions
        BY DEF IInv, PlaceInv, LockInv, Generates, HasLock, HasSlot
      <4> QED BY <1>1, <2>1, <4>1, <4>2, <4>3 DEF IInv, TypeOK, PlaceInv, CancelInv
    <3>2. CASE ~GenerateFails(r)
      BY <1>1, <2>1, <2>3, <3>2 DEF IInv, PlaceInv, CancelInv
    <3> QED BY <3>1, <3>2
  <2> QED BY <1>1, <2>1, <2>2, <2>4 DEF IInv, PlaceInv, CallInv, LockInv, ReplyInv, FreshInv,
             Ended, api
<1>4. \A q \in Requests :
          /\ pc'[q] \in Generates => pc[q] \in Generates
          /\ pc'[q] \in {"loaded"} \cup Generates => pc[q] \in {"loaded"} \cup Generates
          /\ pc'[q] \in {"idle", "waiting", "loaded"}
                => pc[q] \in {"idle", "waiting", "loaded"}
          /\ reply'[q] = reply[q] \/ reply'[q] \notin {"exposed", "answered"}
  BY DEF IInv, TypeOK, Refuse, Fail, GenerateFails, SaveFails, StreamAbandoned, WriteFails,
     Disconnect, Stall, Generates
<1>5. StoreInv'
  BY <1>1, <1>4, GoesOnFromItself, StoreKept DEF api
<1> QED BY <1>2, <1>3, <1>5 DEF IInv

\* A chat that leaves forgets its transcript.
LEMMA LeavingKeeps ==
    ASSUME IInv, NEW r \in Requests, Leave(r)
    PROVE  IInv'
<1>1. UNCHANGED <<saved, stripe, target, loop, reply, api, fate, crashes>>
  BY DEF Leave
<1>2. TypeOK'
  BY <1>1, FilesTyped, NamesAssumption
     DEF IInv, TypeOK, Leave, HasSlot, Kinds, NoKind, api
<1>3. PlaceInv'
  BY <1>1, NamesAssumption DEF IInv, TypeOK, PlaceInv, CallInv, LockInv, CancelInv, ReplyInv,
     FreshInv, Ended, Leave, HasSlot, HasLock, Generates, NoKind, api
<1>4. \A q \in Requests :
          /\ q # r => pc'[q] = pc[q] /\ transcript'[q] = transcript[q]
          /\ pc'[r] = "done" /\ transcript'[r] = NoTurns
  BY DEF IInv, TypeOK, Leave
<1>5. StoreInv'
  BY <1>1, <1>4, GoesOnFromItself, StoreKept DEF api, NoTurns, Generates
<1> QED BY <1>2, <1>3, <1>5 DEF IInv

\* A loop may shorten its transcript, end, or wait in a send.
LEMMA LoopKeeps ==
    ASSUME IInv, NEW r \in Requests,
           \/ LoopCompacts(r) \/ LoopAnswers(r) \/ LoopStops(r)
           \/ LoopBlocks(r) \/ LoopUnblocks(r)
    PROVE  IInv'
<1>1. /\ UNCHANGED <<saved, stripe, holder, cancels, pc, target, kind, cancelled, gone,
                     reply, api, fate, crashes>>
      /\ loop[r] \in {"running", "blocked"}
      /\ loop' = [loop EXCEPT ![r] = loop'[r]]
      /\ loop'[r] \in {"running", "blocked", "answered", "stopped"}
  BY DEF IInv, TypeOK, LoopCompacts, LoopAnswers, LoopStops, LoopBlocks, LoopUnblocks,
     Loop, besideLoop
<1> DEFINE answer == [transcript[r] EXCEPT ![r] = IF @ = "prompt" THEN "answered" ELSE @]
<1>2. transcript[r] \in Transcripts /\ answer \in Transcripts
      /\ GoesOnFrom(answer, transcript[r])
      /\ \A u \in Requests : transcript[r][u] = "none" => answer[u] = "none"
  BY FilesTyped DEF IInv, Transcripts, Progress, GoesOnFrom, Reaches
<1>3. PICK n \in Transcripts :
          /\ transcript' = [transcript EXCEPT ![r] = n]
          /\ GoesOnFrom(n, transcript[r])
          /\ \A u \in Requests : transcript[r][u] = "none" => n[u] = "none"
          /\ loop'[r] = "answered" => GoesOnFrom(n, answer)
  <2>1. CASE LoopCompacts(r)
    BY <1>1, <1>2, <2>1, ShortenedGoesOn DEF LoopCompacts
  <2>2. CASE LoopAnswers(r)
    <3>1. PICK n \in IF cancelled[r] THEN Shortened(answer) ELSE {answer} :
              transcript' = [transcript EXCEPT ![r] = n]
      BY <2>2 DEF LoopAnswers, Leaves
    <3>2. n \in Transcripts /\ GoesOnFrom(n, answer)
          /\ \A u \in Requests : answer[u] = "none" => n[u] = "none"
      <4> HIDE DEF answer
      <4> QED BY <1>2, <3>1, ShortenedGoesOn, GoesOnFromItself
    <3>3. GoesOnFrom(n, transcript[r])
      BY <1>2, <3>2, GoesOnOn
    <3> QED BY <1>2, <3>1, <3>2, <3>3
  <2>3. CASE LoopStops(r)
    <3>1. PICK n \in IF cancelled[r] THEN Shortened(transcript[r]) ELSE {transcript[r]} :
              transcript' = [transcript EXCEPT ![r] = n]
      BY <2>3 DEF LoopStops, Leaves
    <3>2. n \in Transcripts /\ GoesOnFrom(n, transcript[r])
          /\ \A u \in Requests : transcript[r][u] = "none" => n[u] = "none"
      BY <1>2, <3>1, ShortenedGoesOn, GoesOnFromItself
    <3>3. loop'[r] = "stopped"
      BY <2>3 DEF IInv, TypeOK, LoopStops, Loop
    <3> QED BY <3>1, <3>2, <3>3
  <2>4. CASE LoopBlocks(r) \/ LoopUnblocks(r)
    <3>1. transcript' = transcript /\ loop'[r] # "answered"
      BY <2>4 DEF IInv, TypeOK, LoopBlocks, LoopUnblocks, Loop
    <3>2. transcript = [transcript EXCEPT ![r] = transcript[r]]
      BY DEF IInv, TypeOK
    <3> QED BY <1>2, <3>1, <3>2, GoesOnFromItself
  <2> QED BY <2>1, <2>2, <2>3, <2>4
<1>4. TypeOK'
  <2>1. transcript' \in [Requests -> Transcripts]
    BY <1>3 DEF IInv, TypeOK
  <2>2. loop' \in [Requests -> {"none", "running", "blocked", "answered", "stopped"}]
    BY <1>1 DEF IInv, TypeOK
  <2> QED BY <1>1, <2>1, <2>2 DEF IInv, TypeOK, api
<1>5. PlaceInv'
  BY <1>1 DEF IInv, TypeOK, PlaceInv, CallInv, LockInv, CancelInv, ReplyInv, FreshInv,
     Ended, api
<1>6. \A q \in Requests : q # r => transcript'[q] = transcript[q] /\ loop'[q] = loop[q]
  BY <1>1, <1>3 DEF IInv, TypeOK
<1>7. transcript'[r] = n
  BY <1>3 DEF IInv, TypeOK
<1>8. reply[r] # "answered"
  BY <1>1 DEF IInv, PlaceInv, ReplyInv, Ended
<1>9. pc[r] \in Generates /\ loop'[r] = "answered" => Reaches(n[r], "answered")
  <2> SUFFICES ASSUME pc[r] \in Generates, loop'[r] = "answered"
               PROVE  Reaches(n[r], "answered")
    OBVIOUS
  <2>1. Reaches(transcript[r][r], "prompt")
    BY DEF IInv, StoreInv, OwnInv
  <2>2. Reaches(answer[r], "answered")
    BY <1>2, <2>1 DEF Reaches, Transcripts
  <2>3. Reaches(n[r], answer[r])
    BY <1>3 DEF GoesOnFrom
  <2> QED BY <2>2, <2>3 DEF Reaches
<1> HIDE DEF answer
<1>10. \A q \in Requests :
           /\ GoesOnFrom(transcript'[q], transcript[q])
           /\ \A u \in Requests : transcript[q][u] = "none" => transcript'[q][u] = "none"
           /\ pc'[q] \in Generates /\ loop'[q] = "answered" /\ loop[q] # "answered"
                 => Reaches(transcript'[q][q], "answered")
  BY <1>1, <1>3, <1>6, <1>7, <1>9, GoesOnFromItself
<1>11. \A q \in Requests :
           reply'[q] = "answered" /\ loop'[q] = "answered" => loop[q] = "answered"
  BY <1>1, <1>6, <1>8
<1>12. StoreInv'
  BY <1>1, <1>10, <1>11, StoreKept DEF api
<1> QED BY <1>4, <1>5, <1>12 DEF IInv

\* A chat that gets its lock seeds its engine with the file.
LEMMA LockingKeeps ==
    ASSUME IInv, NEW r \in Requests, TakeLock(r)
    PROVE  IInv'
<1> DEFINE s == target[r]
           found == kind[r].fresh \/ saved[s] # None
<1>1. /\ UNCHANGED <<saved, stripe, cancels, target, kind, loop, cancelled, gone,
                     api, fate, crashes>>
      /\ pc[r] = "waiting" /\ s \in Sessions /\ reply[r] = "none"
  BY DEF IInv, PlaceInv, LockInv, ReplyInv, HasSlot, TakeLock
<1>2. TypeOK'
  BY <1>1, FilesTyped DEF IInv, TypeOK, TakeLock, HasSlot, api
<1>3. PlaceInv'
  BY <1>1, NamesAssumption DEF IInv, TypeOK, PlaceInv, CallInv, LockInv, CancelInv, ReplyInv,
     FreshInv, Ended, TakeLock, HasSlot, HasLock, Generates, api
<1>4. transcript'[r] = IF kind[r].fresh \/ ~found THEN NoTurns ELSE saved[s].turns
  BY DEF IInv, TypeOK, TakeLock
<1>5. pc'[r] = (IF found THEN "loaded" ELSE "unlocking")
      /\ \A q \in Requests : q # r =>
             pc'[q] = pc[q] /\ transcript'[q] = transcript[q] /\ reply'[q] = reply[q]
  BY DEF IInv, TypeOK, TakeLock
<1>6. reply'[r] \notin {"exposed", "answered"}
  BY <1>1 DEF IInv, TypeOK, TakeLock
<1>7. AbsentInv'
  <2>1. \A u \in Requests : pc'[u] \in {"idle", "waiting", "loaded"} =>
            pc[u] \in {"idle", "waiting", "loaded"}
    BY <1>1, <1>5
  <2>2. \A u \in Requests : NoTurns[u] = "none"
    BY DEF NoTurns
  <2> QED BY <1>1, <1>4, <1>5, <2>1, <2>2 DEF IInv, StoreInv, AbsentInv, api
<1>8. OwnInv'
  BY <1>1, <1>5 DEF IInv, StoreInv, OwnInv, Generates
<1>9. FileInv'
  <2> SUFFICES ASSUME NEW q \in Requests, pc'[q] \in {"loaded"} \cup Generates,
                      fate[target[q]] = "kept", saved[target[q]] # None
               PROVE  GoesOnFrom(transcript'[q], saved[target[q]].turns)
    BY <1>1 DEF FileInv
  <2>1. CASE q = r
    <3>1. ~kind[r].fresh
      BY <1>1, <2>1 DEF IInv, PlaceInv, FreshInv
    <3> QED BY <1>4, <2>1, <3>1, GoesOnFromItself
  <2>2. CASE q # r
    BY <1>5, <2>2 DEF IInv, StoreInv, FileInv
  <2> QED BY <2>1, <2>2
<1>10. CopyInv' /\ DeletedStaysDeleted'
  BY <1>1 DEF IInv, StoreInv, CopyInv, DeletedStaysDeleted, api
<1>11. NotDeleted'
  <2>1. pc'[r] = "loaded" => fate[s] # "deleted"
    BY <1>1, <1>5 DEF IInv, PlaceInv, FreshInv, StoreInv, DeletedStaysDeleted
  <2> QED BY <1>1, <1>5, <2>1 DEF IInv, StoreInv, NotDeleted, Generates
<1>12. ToldIsSaved'
  BY <1>1, <1>5, <1>6 DEF IInv, StoreInv, ToldIsSaved
<1> QED BY <1>2, <1>3, <1>7, <1>8, <1>9, <1>10, <1>11, <1>12 DEF IInv, StoreInv

\* A generation begins with the user's turn in the transcript.
LEMMA GeneratingKeeps ==
    ASSUME IInv, NEW r \in Requests, Generate(r)
    PROVE  IInv'
<1> DEFINE s == target[r]
<1>1. /\ UNCHANGED <<saved, stripe, holder, target, kind, gone, reply, api, fate, crashes>>
      /\ pc[r] = "loaded" /\ s \in Sessions /\ transcript[r] \in Transcripts
      /\ loop[r] = "none" /\ reply[r] = "none"
  BY FilesTyped DEF IInv, PlaceInv, LockInv, ReplyInv, HasSlot, Generate
<1>2. /\ transcript' = [transcript EXCEPT ![r] = [transcript[r] EXCEPT ![r] = "prompt"]]
      /\ [transcript[r] EXCEPT ![r] = "prompt"] \in Transcripts
  BY <1>1 DEF IInv, TypeOK, Generate, Transcripts, Progress
<1>3. TypeOK'
  <2>1. transcript' \in [Requests -> Transcripts]
    BY <1>2 DEF IInv, TypeOK
  <2> QED BY <1>1, <2>1 DEF IInv, TypeOK, Generate, HasSlot, api
<1>4. PlaceInv'
  BY <1>1 DEF IInv, TypeOK, PlaceInv, CallInv, LockInv, CancelInv, ReplyInv,
     FreshInv, Ended, Generate, HasSlot, HasLock, Generates, api
<1>5. /\ pc'[r] \in {"publishing", "draining"} /\ loop'[r] = "running"
      /\ \A u \in Requests : transcript'[r][u] = IF u = r THEN "prompt" ELSE transcript[r][u]
      /\ \A q \in Requests : q # r =>
             pc'[q] = pc[q] /\ transcript'[q] = transcript[q] /\ loop'[q] = loop[q]
  BY <1>1, <1>2 DEF IInv, TypeOK, Generate, Transcripts
<1>6. AbsentInv'
  BY <1>1, <1>5 DEF IInv, StoreInv, AbsentInv, api
<1>7. OwnInv'
  BY <1>5 DEF IInv, StoreInv, OwnInv, Reaches
<1>8. FileInv'
  <2> SUFFICES ASSUME NEW q \in Requests, pc'[q] \in {"loaded"} \cup Generates,
                      fate[target[q]] = "kept", saved[target[q]] # None
               PROVE  GoesOnFrom(transcript'[q], saved[target[q]].turns)
    BY <1>1 DEF FileInv
  <2>1. CASE q = r
    <3>1. saved[s].turns[r] = "none"
      BY <1>1, <2>1 DEF IInv, StoreInv, AbsentInv
    <3>2. GoesOnFrom(transcript[r], saved[s].turns)
      BY <1>1, <2>1 DEF IInv, StoreInv, FileInv
    <3> QED BY <1>5, <2>1, <3>1, <3>2 DEF GoesOnFrom, Reaches
  <2>2. CASE q # r
    BY <1>5, <2>2 DEF IInv, StoreInv, FileInv
  <2> QED BY <2>1, <2>2
<1>9. CopyInv' /\ DeletedStaysDeleted'
  BY <1>1 DEF IInv, StoreInv, CopyInv, DeletedStaysDeleted, api
<1>10. NotDeleted'
  BY <1>1, <1>5 DEF IInv, StoreInv, NotDeleted
<1>11. ToldIsSaved'
  BY <1>1, <1>5 DEF IInv, StoreInv, ToldIsSaved
<1> QED BY <1>3, <1>4, <1>6, <1>7, <1>8, <1>9, <1>10, <1>11 DEF IInv, StoreInv

\* A new id is nobody's, a known one was given out.
LEMMA AdmissionKeeps ==
    ASSUME IInv, NEW r \in Requests, NEW s \in Sessions, NEW k \in Kinds, Admit(r, s, k)
    PROVE  IInv'
<1>1. /\ UNCHANGED <<saved, stripe, holder, cancels, transcript, loop, cancelled, gone,
                     reply, api, fate, crashes>>
      /\ pc[r] = "idle" /\ reply[r] = "none"
  BY DEF IInv, PlaceInv, ReplyInv, Admit
<1>2. /\ pc'[r] = "waiting" /\ target'[r] = s /\ kind'[r] = k
      /\ \A q \in Requests : q # r =>
             pc'[q] = pc[q] /\ target'[q] = target[q] /\ kind'[q] = kind[q]
  BY DEF IInv, TypeOK, Admit
<1>3. TypeOK'
  BY <1>1 DEF IInv, TypeOK, Admit, HasSlot, api
<1>4. CallInv' /\ LockInv' /\ CancelInv' /\ ReplyInv'
  BY <1>1, <1>2 DEF IInv, PlaceInv, CallInv, LockInv, CancelInv, ReplyInv, Ended,
     HasLock, HasSlot, Generates, api
<1>5. FreshInv'
  BY <1>1, <1>2 DEF IInv, PlaceInv, FreshInv, Admit, Unused, Known, api
<1>6. AbsentInv' /\ OwnInv'
  BY <1>1, <1>2 DEF IInv, StoreInv, AbsentInv, OwnInv, Generates, api
<1>7. FileInv' /\ CopyInv' /\ NotDeleted' /\ DeletedStaysDeleted'
  BY <1>1, <1>2 DEF IInv, StoreInv, FileInv, CopyInv, NotDeleted, DeletedStaysDeleted,
     Generates, api
<1>8. ToldIsSaved'
  BY <1>1, <1>2 DEF IInv, StoreInv, ToldIsSaved
<1> QED BY <1>3, <1>4, <1>5, <1>6, <1>7, <1>8 DEF IInv, StoreInv, PlaceInv

\* The steps of a call that save nothing.
LEMMA CallKeeps ==
    ASSUME IInv, NEW c \in Calls,
           \/ \E o \in Ops : CallArrives(c, o)
           \/ CancelLooks(c) \/ CancelStrikes(c)
           \/ AcquireLoads(c) \/ ReleaseChecks(c) \/ ReleaseLoads(c)
    PROVE  IInv'
<1>1. /\ UNCHANGED <<saved, stripe, holder, cancels, fate, crashes>>
      /\ UNCHANGED <<pc, target, kind, transcript, loop, gone, reply>>
  BY DEF CallArrives, CancelLooks, CancelStrikes, AcquireLoads, ReleaseChecks, ReleaseLoads,
     chat
<1>2. TypeOK'
  <2>1. cpc' \in [Calls -> {"idle", "called", "read", "loaded", "replied"}]
    BY DEF IInv, TypeOK, CallArrives, CancelLooks, CancelStrikes, AcquireLoads,
       ReleaseChecks, ReleaseLoads, Answer
  <2>2. cpc[c] # "idle" => op[c] \in Ops /\ op[c].on \in Sessions
    BY DEF IInv, PlaceInv, CallInv, Ops
  <2>3. cancelled' \in [Requests -> BOOLEAN]
    BY DEF IInv, TypeOK, CallArrives, CancelLooks, CancelStrikes, AcquireLoads,
       ReleaseChecks, ReleaseLoads, chat
  <2>4. op' \in [Calls -> Ops \cup {None}]
    BY DEF IInv, TypeOK, CallArrives, CancelLooks, CancelStrikes, AcquireLoads,
       ReleaseChecks, ReleaseLoads
  <2>5. copy' \in [Calls -> Files \cup {None}]
    BY <2>2 DEF IInv, TypeOK, CallArrives, CancelLooks, CancelStrikes, AcquireLoads,
       ReleaseChecks, ReleaseLoads
  <2>6. hit' \in [Calls -> Requests \cup {None}]
    BY <2>2 DEF IInv, TypeOK, CallArrives, CancelLooks, CancelStrikes, AcquireLoads,
       ReleaseChecks, ReleaseLoads
  <2> QED BY <1>1, <2>1, <2>3, <2>4, <2>5, <2>6 DEF IInv, TypeOK
<1>3. /\ \A d \in Calls : cpc'[d] # "idle" => op'[d] \in Ops
      /\ \A d \in Calls : op'[d] # op[d] => Known(op'[d].on)
  BY DEF IInv, TypeOK, PlaceInv, CallInv, CallArrives, CancelLooks, CancelStrikes,
     AcquireLoads, ReleaseChecks, ReleaseLoads, Answer
<1>4. PlaceInv'
  BY <1>1, <1>3 DEF IInv, PlaceInv, CallInv, LockInv, CancelInv, ReplyInv, FreshInv, Known,
     Ended
<1>5. \A d \in Calls : cpc'[d] = "loaded" =>
          /\ op'[d] = op[d]
          /\ \/ cpc[d] = "loaded" /\ copy'[d] = copy[d]
             \/ copy'[d] = saved[op[d].on]
  BY DEF IInv, TypeOK, CallArrives, CancelLooks, CancelStrikes, AcquireLoads,
     ReleaseChecks, ReleaseLoads, Answer
<1>6. CopyInv'
  BY <1>1, <1>5, GoesOnFromItself DEF IInv, StoreInv, CopyInv
<1>7. /\ OwnInv' /\ FileInv' /\ NotDeleted' /\ DeletedStaysDeleted' /\ ToldIsSaved'
  BY <1>1 DEF IInv, StoreInv, OwnInv, FileInv, NotDeleted, DeletedStaysDeleted, ToldIsSaved
<1>8. \A d \in Calls : copy'[d] \in {copy[d], None} \cup {saved[s] : s \in Sessions}
  BY DEF IInv, TypeOK, PlaceInv, CallInv, Ops, CallArrives, CancelLooks, CancelStrikes,
     AcquireLoads, ReleaseChecks, ReleaseLoads
<1>9. AbsentInv'
  BY <1>1, <1>8 DEF IInv, StoreInv, AbsentInv
<1> QED BY <1>2, <1>4, <1>6, <1>7, <1>9 DEF IInv, StoreInv

\* What a crash leaves: the files, and what the clients were told.
LEMMA CrashKeeps == IInv /\ Crash => IInv'
<1> SUFFICES ASSUME IInv, Crash PROVE IInv'
  OBVIOUS
<1>1. UNCHANGED <<saved, stripe, target, reply, op, hit, fate>>
  BY DEF Crash
<1>2. \A r \in Requests : /\ pc'[r] = IF pc[r] = "idle" THEN "idle" ELSE "done"
                          /\ loop'[r] = IF loop[r] \in {"running", "blocked"}
                                        THEN "stopped" ELSE loop[r]
                          /\ kind'[r] = NoKind /\ transcript'[r] = NoTurns
  BY DEF Crash
<1>3. TypeOK'
  <2>1. crashes' \in 0..MaxCrashes
    BY CrashAssumption DEF IInv, TypeOK, Crash
  <2>2. transcript' \in [Requests -> Transcripts]
    BY FilesTyped DEF IInv, Crash
  <2> QED BY <1>1, <2>1, <2>2 DEF IInv, TypeOK, Crash, Kinds, NoKind
<1>4. PlaceInv'
  <2>1. \A c \in Calls : cpc'[c] = IF cpc[c] = "idle" THEN "idle" ELSE "replied"
    BY DEF Crash
  <2> QED BY <1>1, <1>2, <2>1 DEF IInv, PlaceInv, CallInv, LockInv, CancelInv, ReplyInv,
             FreshInv, Ended, HasLock, HasSlot, Generates, NoKind
<1>5. AbsentInv'
  <2>1. \A c \in Calls : copy'[c] = None
    BY DEF Crash
  <2>2. \A u \in Requests : NoTurns[u] = "none"
    BY DEF NoTurns
  <2> QED BY <1>1, <1>2, <2>1, <2>2 DEF IInv, StoreInv, AbsentInv
<1>6. OwnInv' /\ FileInv' /\ NotDeleted'
  BY <1>2 DEF OwnInv, FileInv, NotDeleted, Generates
<1>7. CopyInv' /\ DeletedStaysDeleted'
  BY <1>1 DEF IInv, StoreInv, CopyInv, DeletedStaysDeleted, Crash
<1>8. ToldIsSaved'
  BY <1>1, <1>2 DEF IInv, StoreInv, ToldIsSaved
<1> QED BY <1>3, <1>4, <1>5, <1>6, <1>7, <1>8 DEF IInv, StoreInv

\* A chat that saves: nobody else of its session is between lock and unlock, and
\* what it writes goes on from the file.
LEMMA SavingKeeps ==
    ASSUME IInv, NEW r \in Requests, Publish(r) \/ SaveTurn(r)
    PROVE  IInv'
<1> DEFINE s == target[r]
<1>1. pc[r] \in Generates /\ pc[r] \in HasLock /\ s \in Sessions
  BY DEF IInv, PlaceInv, LockInv, Publish, SaveTurn, Reading, Generates, HasLock, HasSlot
<1>2. \A q \in Requests : (pc[q] \in HasLock /\ target[q] = s) => q = r
  BY <1>1 DEF IInv, PlaceInv, LockInv
<1>3. /\ saved' = [saved EXCEPT ![s] = SavedFile(r)]
      /\ UNCHANGED <<target, loop, transcript, kind, fate, stripe, holder, cancels, api>>
  BY DEF Publish, SaveTurn, api
<1>4. SavedFile(r) \in Files /\ SavedFile(r) # None /\ SavedFile(r).turns = transcript[r]
  BY NothingAssumption DEF IInv, TypeOK, SavedFile, Files, Fences
<1>5. TypeOK'
  BY <1>1, <1>3, <1>4 DEF IInv, TypeOK, Publish, SaveTurn, HasSlot, api
<1>6. PlaceInv'
  BY <1>1, <1>3 DEF IInv, TypeOK, PlaceInv, CallInv, LockInv, CancelInv, ReplyInv,
     FreshInv, Publish, SaveTurn, Reading, Ended, HasSlot, HasLock, Generates, api
<1>7. fate[s] = "kept" /\ saved[s] # None => GoesOnFrom(transcript[r], saved[s].turns)
  BY <1>1 DEF IInv, StoreInv, FileInv
<1>8. saved'[s] = SavedFile(r) /\ \A t \in Sessions \ {s} : saved'[t] = saved[t]
  BY <1>1, <1>3 DEF IInv, TypeOK
<1>9. FileInv'
  <2> SUFFICES ASSUME NEW q \in Requests, pc'[q] \in {"loaded"} \cup Generates,
                      fate[target[q]] = "kept", saved'[target[q]] # None
               PROVE  GoesOnFrom(transcript[q], saved'[target[q]].turns)
    BY <1>3 DEF FileInv
  <2>1. CASE q = r
    BY <2>1, <1>4, <1>8, GoesOnFromItself
  <2>2. CASE q # r
    <3>1. pc[q] = pc'[q] /\ pc[q] \in HasLock
      BY <2>2 DEF IInv, TypeOK, Publish, SaveTurn, HasLock, HasSlot, Generates
    <3>2. target[q] \in Sessions \ {s}
      BY <1>2, <2>2, <3>1 DEF IInv, PlaceInv, LockInv, HasLock
    <3> QED BY <1>8, <3>1, <3>2 DEF IInv, StoreInv, FileInv
  <2> QED BY <2>1, <2>2
<1>10. CopyInv'
  <2> SUFFICES ASSUME NEW c \in Calls, cpc[c] = "loaded", fate[op[c].on] = "kept",
                      copy[c] # None
               PROVE  /\ saved'[op[c].on] # None
                      /\ GoesOnFrom(saved'[op[c].on].turns, copy[c].turns)
    BY <1>3 DEF CopyInv, api
  <2>1. saved[op[c].on] # None /\ GoesOnFrom(saved[op[c].on].turns, copy[c].turns)
    BY DEF IInv, StoreInv, CopyInv
  <2>2. op[c].on \in Sessions
    BY DEF IInv, PlaceInv, CallInv, Ops
  <2>3. CASE op[c].on = s
    BY <2>1, <2>3, <1>4, <1>7, <1>8, GoesOnOn
  <2>4. CASE op[c].on # s
    BY <2>1, <2>2, <2>4, <1>8
  <2> QED BY <2>3, <2>4
<1>11. NotDeleted' /\ DeletedStaysDeleted'
  <2>1. fate[s] # "deleted"
    BY <1>1 DEF IInv, StoreInv, NotDeleted
  <2>2. NotDeleted'
    BY <2>1, <1>3 DEF IInv, TypeOK, StoreInv, NotDeleted, Publish, SaveTurn, Generates
  <2>3. DeletedStaysDeleted'
    BY <2>1, <1>3, <1>8 DEF IInv, StoreInv, DeletedStaysDeleted
  <2> QED BY <2>2, <2>3
<1>12. ToldIsSaved'
  <2> DEFINE promised(q, x) == IF x = "answered" /\ loop[q] = "answered"
                               THEN "answered" ELSE "prompt"
  <2> SUFFICES ASSUME NEW q \in Requests, reply'[q] \in {"exposed", "answered"},
                      fate[target[q]] = "kept"
               PROVE  /\ saved'[target[q]] # None
                      /\ Reaches(saved'[target[q]].turns[q], promised(q, reply'[q]))
    BY <1>3 DEF ToldIsSaved
  <2>1. CASE q = r
    <3>1. /\ Reaches(transcript[r][r], "prompt")
          /\ loop[r] = "answered" => Reaches(transcript[r][r], "answered")
      BY <1>1 DEF IInv, StoreInv, OwnInv
    <3> QED BY <2>1, <3>1, <1>4, <1>8
  <2>2. CASE q # r
    <3>1. reply'[q] = reply[q]
      BY <2>2 DEF IInv, TypeOK, Publish, SaveTurn
    <3>2. /\ saved[target[q]] # None
          /\ Reaches(saved[target[q]].turns[q], promised(q, reply[q]))
      BY <3>1 DEF IInv, StoreInv, ToldIsSaved
    <3>3. target[q] \in Sessions
      BY <3>1 DEF IInv, PlaceInv, ReplyInv
    <3>4. CASE target[q] = s
      <4>1. Reaches(transcript[r][q], saved[s].turns[q])
        BY <1>7, <3>2, <3>4 DEF GoesOnFrom
      <4> QED BY <3>1, <3>2, <3>4, <4>1, <1>4, <1>8 DEF Reaches
    <3>5. CASE target[q] # s
      BY <3>1, <3>2, <3>3, <3>5, <1>8
    <3> QED BY <3>4, <3>5
  <2> QED BY <2>1, <2>2
<1>13. AbsentInv'
  <2>1. \A q \in Requests : pc'[q] \in {"idle", "waiting", "loaded"} =>
            pc[q] \in {"idle", "waiting", "loaded"}
    BY DEF IInv, TypeOK, Publish, SaveTurn
  <2> QED BY <1>3, <1>4, <1>8, <2>1 DEF IInv, StoreInv, AbsentInv, api
<1>14. OwnInv'
  <2>1. \A q \in Requests : pc'[q] \in Generates => pc[q] \in Generates
    BY DEF IInv, TypeOK, Publish, SaveTurn, Generates
  <2> QED BY <1>3, <2>1 DEF IInv, StoreInv, OwnInv
<1> QED BY <1>5, <1>6, <1>9, <1>10, <1>11, <1>12, <1>13, <1>14 DEF IInv, StoreInv

\* A deletion holds the stripe lock for a moment, so no chat has the session
\* loaded.
LEMMA DeletionKeeps ==
    ASSUME IInv, NEW c \in Calls, DeleteSession(c)
    PROVE  IInv'
<1> DEFINE s == op[c].on
<1>1. s \in Sessions /\ holder[stripe[s]] = None
  BY DEF IInv, PlaceInv, CallInv, Ops, DeleteSession
<1>2. \A q \in Requests : pc[q] \in HasLock => target[q] # s
  BY <1>1, NamesAssumption DEF IInv, PlaceInv, LockInv
<1>3. UNCHANGED <<chat, stripe, holder, cancels, op, copy, hit, crashes>>
      /\ cpc' = [cpc EXCEPT ![c] = "replied"]
  BY DEF DeleteSession, Answer
<1>4. CASE UNCHANGED <<saved, fate>>
  <2>1. TypeOK'
    BY <1>3, <1>4 DEF IInv, TypeOK, chat
  <2>2. PlaceInv'
    BY <1>3, <1>4 DEF IInv, TypeOK, PlaceInv, CallInv, LockInv, CancelInv, ReplyInv,
       FreshInv, Ended, DeleteSession, chat
  <2>3. StoreInv'
    BY <1>3, <1>4 DEF IInv, TypeOK, StoreInv, AbsentInv, OwnInv, FileInv, CopyInv,
       NotDeleted, DeletedStaysDeleted, ToldIsSaved, chat
  <2> QED BY <2>1, <2>2, <2>3 DEF IInv
<1>5. CASE /\ saved' = [saved EXCEPT ![s] = None]
           /\ fate' = [fate EXCEPT ![s] = "deleted"]
           /\ saved[s] # None
  <2>1. TypeOK'
    BY <1>3, <1>5 DEF IInv, TypeOK, chat
  <2>2. PlaceInv'
    <3>1. CallInv' /\ LockInv' /\ CancelInv' /\ ReplyInv'
      BY <1>3, DeleteSession(c) DEF IInv, TypeOK, PlaceInv, CallInv, LockInv, CancelInv,
         ReplyInv, Ended, DeleteSession, chat
    <3>2. FreshInv'
      BY <1>1, <1>3, <1>5 DEF IInv, TypeOK, PlaceInv, FreshInv, chat
    <3> QED BY <3>1, <3>2 DEF PlaceInv
  <2>3. fate'[s] = "deleted" /\ saved'[s] = None
        /\ \A t \in Sessions \ {s} : fate'[t] = fate[t] /\ saved'[t] = saved[t]
    BY <1>1, <1>5 DEF IInv, TypeOK
  <2>4. FileInv' /\ NotDeleted'
    BY <1>2, <1>3, <2>3 DEF IInv, PlaceInv, LockInv, StoreInv, FileInv, NotDeleted,
       Generates, HasLock, HasSlot, chat
  <2>5. CopyInv'
    BY <1>3, <2>3 DEF IInv, TypeOK, PlaceInv, CallInv, Ops, StoreInv, CopyInv
  <2>6. DeletedStaysDeleted'
    BY <2>3 DEF IInv, StoreInv, DeletedStaysDeleted
  <2>7. ToldIsSaved'
    BY <1>3, <2>3 DEF IInv, PlaceInv, ReplyInv, StoreInv, ToldIsSaved, chat
  <2>8. AbsentInv' /\ OwnInv'
    BY <1>3, <2>3 DEF IInv, StoreInv, AbsentInv, OwnInv, chat
  <2> QED BY <2>1, <2>2, <2>4, <2>5, <2>6, <2>7, <2>8 DEF IInv, StoreInv
<1> QED BY <1>4, <1>5 DEF DeleteSession

\* A lease call that saves its copy: while the fate is "kept" the copy lacked
\* nothing, and the file lacks nothing the copy has.
LEMMA LeaseKeeps ==
    ASSUME IInv, NEW c \in Calls, LeaseSaves(c)
    PROVE  IInv'
<1> DEFINE s == op[c].on
           old == IF copy[c] = None THEN Empty ELSE copy[c]
           new == [old EXCEPT !.fence = IF op[c].what = "acquire" THEN c ELSE None]
<1>1. s \in Sessions /\ op[c] # None
  BY NothingAssumption DEF IInv, PlaceInv, CallInv, Ops, LeaseSaves
<1>2. old \in Files
  BY FilesTyped DEF IInv, TypeOK, Files
<1>3. new \in Files /\ new # None /\ new.turns = old.turns
  BY <1>2, NothingAssumption DEF Files, Fences
<1>4. /\ UNCHANGED <<chat, stripe, holder, cancels, op, hit, crashes>>
      /\ cpc' = [cpc EXCEPT ![c] = "replied"]
      /\ copy' = [copy EXCEPT ![c] = None]
  BY DEF LeaseSaves, Answer
<1>5. CASE UNCHANGED <<saved, fate>>
  <2>1. TypeOK'
    BY <1>4, <1>5 DEF IInv, TypeOK, chat
  <2>2. PlaceInv'
    BY <1>4, <1>5 DEF IInv, TypeOK, PlaceInv, CallInv, LockInv, CancelInv, ReplyInv,
       FreshInv, Ended, LeaseSaves, chat
  <2>3. StoreInv'
    BY <1>4, <1>5 DEF IInv, TypeOK, StoreInv, AbsentInv, OwnInv, FileInv, CopyInv,
       NotDeleted, DeletedStaysDeleted, ToldIsSaved, chat
  <2> QED BY <2>1, <2>2, <2>3 DEF IInv
<1>6. CASE /\ saved' = [saved EXCEPT ![s] = new]
           /\ fate' = [fate EXCEPT ![s] =
                         IF @ = "deleted" \/ Behind(new, saved[s])
                         THEN "overwritten" ELSE @]
  <2>1. TypeOK'
    BY <1>1, <1>3, <1>4, <1>6 DEF IInv, TypeOK, chat
  <2>2. PlaceInv'
    BY <1>1, <1>4, <1>6 DEF IInv, TypeOK, PlaceInv, CallInv, LockInv, CancelInv, ReplyInv,
       FreshInv, Ended, chat
  <2>3. /\ saved'[s] = new
        /\ fate'[s] # "deleted"
        /\ fate'[s] = "kept" =>
              fate[s] = "kept" /\ (saved[s] # None => GoesOnFrom(new.turns, saved[s].turns))
        /\ \A t \in Sessions \ {s} : fate'[t] = fate[t] /\ saved'[t] = saved[t]
    BY <1>1, <1>6 DEF IInv, TypeOK, Behind
  <2>4. fate[s] = "kept" => \/ new.turns = NoTurns
                            \/ saved[s] # None /\ GoesOnFrom(saved[s].turns, new.turns)
    BY <1>3 DEF IInv, StoreInv, CopyInv, LeaseSaves, Empty
  <2>5. FileInv'
    <3> SUFFICES ASSUME NEW q \in Requests, pc[q] \in {"loaded"} \cup Generates,
                        fate'[target[q]] = "kept", saved'[target[q]] # None
                 PROVE  GoesOnFrom(transcript[q], saved'[target[q]].turns)
      BY <1>4 DEF FileInv, chat
    <3>1. target[q] \in Sessions
      BY DEF IInv, PlaceInv, LockInv, HasSlot, Generates
    <3>2. CASE target[q] = s
      <4>1. CASE new.turns = NoTurns
        <5>1. \A u \in Requests : NoTurns[u] = "none"
          BY DEF NoTurns
        <5> HIDE DEF new
        <5> QED BY <2>3, <3>2, <4>1, <5>1 DEF GoesOnFrom, Reaches
      <4>2. CASE saved[s] # None /\ GoesOnFrom(saved[s].turns, new.turns)
        <5>1. GoesOnFrom(transcript[q], saved[s].turns)
          BY <2>3, <3>2, <4>2 DEF IInv, StoreInv, FileInv
        <5> QED BY <2>3, <3>2, <4>2, <5>1, GoesOnOn
      <4> QED BY <2>3, <2>4, <3>2, <4>1, <4>2
    <3>3. CASE target[q] # s
      BY <2>3, <3>1, <3>3 DEF IInv, StoreInv, FileInv
    <3> QED BY <3>2, <3>3
  <2>6. CopyInv'
    <3> SUFFICES ASSUME NEW d \in Calls, cpc'[d] = "loaded", fate'[op[d].on] = "kept",
                        copy'[d] # None
                 PROVE  /\ saved'[op[d].on] # None
                        /\ GoesOnFrom(saved'[op[d].on].turns, copy'[d].turns)
      BY <1>4 DEF CopyInv
    <3>1. d # c /\ cpc[d] = "loaded" /\ copy'[d] = copy[d]
      BY <1>4 DEF IInv, TypeOK
    <3>2. op[d].on \in Sessions
      BY <3>1 DEF IInv, PlaceInv, CallInv, Ops
    <3>3. CASE op[d].on = s
      <4>1. fate[s] = "kept" /\ saved'[s] = new
            /\ (saved[s] # None => GoesOnFrom(new.turns, saved[s].turns))
        BY <2>3, <3>3
      <4>2. saved[s] # None /\ GoesOnFrom(saved[s].turns, copy[d].turns)
        BY <3>1, <3>3, <4>1 DEF IInv, StoreInv, CopyInv
      <4> QED BY <1>3, <3>1, <3>3, <4>1, <4>2, GoesOnOn
    <3>4. CASE op[d].on # s
      BY <2>3, <3>1, <3>2, <3>4 DEF IInv, StoreInv, CopyInv
    <3> QED BY <3>3, <3>4
  <2>7. NotDeleted'
    BY <1>4, <2>3 DEF IInv, PlaceInv, LockInv, StoreInv, NotDeleted, Generates, HasSlot, chat
  <2>8. DeletedStaysDeleted'
    BY <2>3 DEF IInv, StoreInv, DeletedStaysDeleted
  <2>9. ToldIsSaved'
    <3> SUFFICES ASSUME NEW q \in Requests, reply[q] \in {"exposed", "answered"},
                        fate'[target[q]] = "kept",
                        NEW promised, promised = IF reply[q] = "answered" /\ loop[q] = "answered"
                                                 THEN "answered" ELSE "prompt"
                 PROVE  /\ saved'[target[q]] # None
                        /\ Reaches(saved'[target[q]].turns[q], promised)
      BY <1>4 DEF ToldIsSaved, chat
    <3>1. target[q] \in Sessions /\ fate[target[q]] = "kept"
      BY <2>3 DEF IInv, PlaceInv, ReplyInv
    <3>2. saved[target[q]] # None /\ Reaches(saved[target[q]].turns[q], promised)
      BY <3>1 DEF IInv, StoreInv, ToldIsSaved
    <3>3. CASE target[q] = s
      <4>1. Reaches(new.turns[q], saved[s].turns[q])
        BY <2>3, <3>2, <3>3 DEF GoesOnFrom
      <4> HIDE DEF new
      <4> QED BY <1>3, <2>3, <3>2, <3>3, <4>1 DEF Reaches
    <3>4. CASE target[q] # s
      BY <2>3, <3>1, <3>2, <3>4
    <3> QED BY <3>3, <3>4
  <2>10. AbsentInv'
    <3>1. \A u \in Requests : NoTurns[u] = "none"
      BY DEF NoTurns
    <3>2. \A q \in Requests : pc[q] \in {"idle", "waiting", "loaded"} =>
              new.turns[q] = "none"
      BY <1>3, <3>1 DEF IInv, StoreInv, AbsentInv, Empty
    <3>3. \A d \in Calls : copy'[d] # None => copy'[d] = copy[d]
      BY <1>4 DEF IInv, TypeOK
    <3> HIDE DEF new
    <3> QED BY <1>4, <2>3, <3>2, <3>3 DEF IInv, StoreInv, AbsentInv, chat
  <2>11. OwnInv'
    BY <1>4 DEF IInv, StoreInv, OwnInv, chat
  <2> QED BY <2>1, <2>2, <2>5, <2>6, <2>7, <2>8, <2>9, <2>10, <2>11 DEF IInv, StoreInv
<1> QED BY <1>5, <1>6 DEF LeaseSaves

-----------------------------------------------------------------------------
LEMMA Initially == Init => IInv
<1> SUFFICES ASSUME Init PROVE IInv
  OBVIOUS
<1> USE DEF Init
<1>1. TypeOK
  <2>1. saved \in [Sessions -> Files \cup {None}]
    BY SMTT(30) DEF Empty, NoTurns, Files, Transcripts, Progress, Fences
  <2>2. /\ holder \in [Stripes -> Requests \cup {None}]
        /\ cancels \in [Sessions -> Requests \cup {None}]
        /\ pc \in [Requests -> {"idle", "done"} \cup HasSlot]
        /\ target \in [Requests -> Sessions \cup {None}]
        /\ kind \in [Requests -> Kinds]
        /\ transcript \in [Requests -> Transcripts]
    BY DEF Kinds, NoKind, NoTurns, Transcripts, Progress
  <2>3. crashes \in 0..MaxCrashes
    BY CrashAssumption
  <2> QED BY <2>1, <2>2, <2>3 DEF TypeOK
<1>2. PlaceInv
  BY DEF PlaceInv, CallInv, LockInv, CancelInv, ReplyInv, FreshInv, NoKind, HasSlot,
     HasLock, Generates
<1>3. StoreInv
  <2>1. AbsentInv
    <3>1. \A u \in Requests : NoTurns[u] = "none"
      BY DEF NoTurns
    <3>2. \A t \in Sessions : saved[t] # None => saved[t].turns = NoTurns
      BY DEF Empty
    <3> QED BY <3>1, <3>2 DEF AbsentInv
  <2>2. OwnInv /\ FileInv /\ CopyInv /\ NotDeleted /\ DeletedStaysDeleted /\ ToldIsSaved
    BY DEF OwnInv, FileInv, CopyInv, NotDeleted, DeletedStaysDeleted, ToldIsSaved, Generates
  <2> QED BY <2>1, <2>2 DEF StoreInv
<1> QED BY <1>1, <1>2, <1>3 DEF IInv

LEMMA Inductive == IInv /\ [Next]_vars => IInv'
<1> SUFFICES ASSUME IInv, [Next]_vars PROVE IInv'
  OBVIOUS
<1>1. ASSUME NEW r \in Requests, ChatStep(r) PROVE IInv'
  BY <1>1, HandlerKeeps, LeavingKeeps, LockingKeeps, GeneratingKeeps, SavingKeeps DEF ChatStep
<1>2. ASSUME NEW r \in Requests,
             \/ Refuse(r)
             \/ \E s \in Sessions, k \in Kinds : Admit(r, s, k)
             \/ LoopCompacts(r) \/ LoopAnswers(r) \/ LoopStops(r)
             \/ LoopBlocks(r) \/ LoopUnblocks(r)
             \/ Disconnect(r) \/ Stall(r)
      PROVE  IInv'
  BY <1>2, HandlerKeeps, LoopKeeps, AdmissionKeeps
<1>3. ASSUME NEW c \in Calls, (\E o \in Ops : CallArrives(c, o)) \/ CallStep(c) PROVE IInv'
  BY <1>3, CallKeeps, DeletionKeeps, LeaseKeeps DEF CallStep
<1>4. CASE Crash
  BY <1>4, CrashKeeps
<1>5. CASE Idle \/ UNCHANGED vars
  BY <1>5 DEF Idle, IInv, TypeOK, PlaceInv, CallInv, LockInv, CancelInv, ReplyInv, FreshInv,
     StoreInv, AbsentInv, OwnInv, FileInv, CopyInv, NotDeleted, DeletedStaysDeleted,
     ToldIsSaved, Ended, vars, chat, api
<1> QED BY <1>1, <1>2, <1>3, <1>4, <1>5 DEF Next

LEMMA Invariance == Spec => []IInv
<1> QED BY Initially, Inductive, PTL DEF Spec

\* Every variable keeps its type (daemon.go, routes_lease.go).
THEOREM TypeCorrect == Spec => []TypeOK
<1>1. IInv => TypeOK
  BY DEF IInv
<1> QED BY <1>1, Invariance, PTL

\* A cancel, or a failed write, reaches the generation that runs, however many
\* chats of however many sessions there are (daemon.go:524-541, 705-741).
THEOREM CancelReached == Spec => []CancelReaches
<1>1. IInv => CancelReaches
  BY DEF IInv, PlaceInv, CancelInv, CancelReaches
<1> QED BY <1>1, Invariance, PTL

\* What a client was told is saved: the file goes on from the promised turn, across
\* later chats, failed saves and crashes; only a loop that had the turn in its
\* transcript takes some of it out (daemon.go:865-867, 1117, stream.go:176, 273).
THEOREM ToldKept == Spec => []ToldIsSaved
<1>1. IInv => ToldIsSaved
  BY DEF IInv, StoreInv
<1> QED BY <1>1, Invariance, PTL

\* A deleted session is not brought back by a chat (daemon.go:89-92).
THEOREM DeletedGone == Spec => []DeletedStaysDeleted
<1>1. IInv => DeletedStaysDeleted
  BY DEF IInv, StoreInv
<1> QED BY <1>1, Invariance, PTL
=============================================================================
