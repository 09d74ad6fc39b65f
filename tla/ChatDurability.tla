--------------------------- MODULE ChatDurability ---------------------------
(***************************************************************************)
(* How the interactive chat keeps a conversation on disk: the write-ahead  *)
(* log of the current session (internal/session/session.go, wal_batch.go), *)
(* the background and the synchronous session save                         *)
(* (cmd/chat_commands_session.go), the removal of the log after a save     *)
(* (cmd/chat_update_system.go), crashes, and the ways a session is taken   *)
(* up again (startup recovery in cmd/chat.go, --resume and /recover in     *)
(* internal/session/recovery.go, --continue and /resume).                  *)
(*                                                                         *)
(* Messages are numbers in the order they were created, so that order and  *)
(* duplication are visible; Meta stands for a session_meta line.  A crash  *)
(* is a crash of the process: what was written to a file survives.         *)
(***************************************************************************)
EXTENDS Naturals, Sequences, SequencesExt

CONSTANTS Sessions,       \* session ids
          NoSession,      \* no session: the nil WAL handle
          Absent,         \* no file under a path
          BgSaves,        \* background save commands that may be in flight
          Sync,           \* the save of saveSession, on the UI thread
          Rec,            \* the save of the startup recovery goroutine
          MaxMsgs,        \* bound: messages created
          MaxQueue,       \* bound: prompts waiting in messageQueue
          MaxStarts,      \* bound: process starts
          MaxSaveErrors,  \* bound: saves that fail on I/O
          MaxSwitches,    \* bound: /resume, /recover and /new
          MaxEvents       \* bound: messages and the last three together

ASSUME IdsDistinct == /\ NoSession \notin Sessions /\ Absent \notin Seq(Nat)
                      /\ Sync # Rec /\ {Sync, Rec} \cap BgSaves = {}
ASSUME BoundsAreNaturals == {MaxMsgs, MaxQueue} \subseteq Nat

Meta == 0
Saves == BgSaves \cup {Sync, Rec}

VARIABLES
    \* the disk
    jsonl,      \* the lines of <id>.jsonl, or Absent
    tmp,        \* the lines of <id>.jsonl.tmp.<pid> of the running process
    wal,        \* the lines of <id>.wal
    \* the chat process
    up,         \* it is running
    cur,        \* m.sessionID
    msgs,       \* the transcript of the engine session
    toolMsgs,   \* messages of the running tool batch, not in the transcript yet
    unlogged,   \* tool results the UI has not handled yet
    walFor,     \* the session whose file m.wal has open, or NoSession (nil)
    walAt,      \* that file: "linked", "orphan" (no name any more) or "closed"
    batched,    \* m.wal is a BatchedWAL (the one made at startup)
    buf,        \* BatchedWAL.buf: appended, not yet written
    walSeq,     \* m.walSeq
    waiting,    \* a turn is in progress
    queued,     \* len(m.messageQueue)
    uiOp,       \* what the UI thread does after its synchronous save
    saves,      \* the saves in flight
    results,    \* sessionSaveResultMsg not yet handled
    sid,        \* the session the startup goroutine will skip, or NoSession
                \* when it has listed the WALs
    toRecover,  \* WALs it has still to recover
    \* history and bounds
    created,    \* the session each message was created in
    logged,     \* messages handed to Append, less those a dying process had buffered
    clashed,    \* sessions of which two saves ran at once
    misused,    \* sessions that were taken up without messages their files have,
                \* recovered while in use or without a save, left with the log
                \* of another one, or saved on quit in the middle of a batch
    starts, saveErrors, switches

disk   == <<jsonl, tmp, wal>>
chat   == <<up, cur, msgs>>
tools  == <<toolMsgs, unlogged>>
handle == <<walFor, walAt, batched, buf, walSeq>>
turn   == <<waiting, queued, uiOp>>
rescue == <<sid, toRecover>>
past   == <<created, logged>>
flaws  == <<clashed, misused>>
counts == <<starts, saveErrors, switches>>
vars   == <<disk, chat, tools, handle, turn, saves, results, rescue, past, flaws,
            counts>>

\* Bound: there is room for n more messages, starts, failed saves or switches.
Room(n) == Len(created) + starts + saveErrors + switches + n <= MaxEvents

NoSave == [stage |-> "none", sess |-> NoSession, msgs |-> <<>>, seq |-> 0, at |-> "gone"]

IsFile(file) == file = Absent \/ file \in Seq(0..MaxMsgs)

TypeOK ==
    /\ \A s \in Sessions : IsFile(jsonl[s]) /\ IsFile(tmp[s]) /\ IsFile(wal[s])
    /\ cur \in Sessions \cup {NoSession} /\ walFor \in Sessions \cup {NoSession}
    /\ {msgs, toolMsgs, unlogged, buf} \subseteq Seq(1..MaxMsgs)
    /\ walAt \in {"linked", "orphan", "closed"}
    /\ {up, batched, waiting} \subseteq BOOLEAN
    /\ walSeq \in 0..MaxMsgs /\ queued \in 0..MaxQueue
    /\ uiOp \in {"none", "new", "quit", "exit"}
    /\ \A i \in Saves :
          /\ saves[i].stage \in {"none", "ready", "opened", "written", "ok", "err"}
          /\ saves[i].at \in {"tmp", "jsonl", "gone"}
          /\ saves[i].sess \in Sessions \/ saves[i] = NoSave
    /\ \A r \in results : r.sess \in Sessions /\ r.seq \in 0..MaxMsgs /\ r.ok \in BOOLEAN
    /\ sid \in Sessions \cup {NoSession}
    /\ toRecover \cup clashed \cup misused \subseteq Sessions
    /\ created \in Seq(Sessions) /\ logged \subseteq 1..MaxMsgs

Lines(file) == IF file = Absent THEN <<>> ELSE file

\* Messages recorded in a file.
Recorded(file) == ToSet(Lines(file)) \ {Meta}
OnDisk(s) == Recorded(jsonl[s]) \cup Recorded(wal[s])

\* scanJSONLLines: the first line is taken as meta, whatever it is; a later
\* meta line is no message.
Parsed(file) ==
    LET kept[i \in 0..Len(Lines(file))] ==
            IF i = 0 THEN <<>>
            ELSE kept[i - 1] \o (IF i = 1 \/ file[i] = Meta THEN <<>> ELSE <<file[i]>>)
    IN  kept[Len(Lines(file))]

\* Load fails on a missing or an empty session file.
Loadable(s) == Lines(jsonl[s]) # <<>>

Unused == {s \in Sessions : /\ jsonl[s] = Absent /\ wal[s] = Absent
                            /\ s \notin ToSet(created)}

-----------------------------------------------------------------------------
(* The write-ahead log: the next value of the handle and of its file. *)

\* ensureWAL and Append(m): the startup handle is a BatchedWAL and buffers; a
\* handle made later is a plain WAL and writes.  A file that lost its name
\* takes the line where nobody will find it, a closed one returns an error.
Logged(new) ==
    LET s == IF walFor = NoSession THEN cur ELSE walFor IN
    /\ walFor' = s /\ walSeq' = walSeq + 1 /\ logged' = logged \cup {new}
    /\ walAt' = IF walFor = NoSession THEN "linked" ELSE walAt
    /\ IF batched
       THEN buf' = Append(buf, new) /\ UNCHANGED wal
       ELSE /\ wal' = IF walAt' = "linked"
                      THEN [wal EXCEPT ![s] = Append(Lines(@), new)] ELSE wal
            /\ UNCHANGED buf
    /\ UNCHANGED batched

\* BatchedWAL.Flush writes the buffered lines to the end of the file.
FlushedFile == IF batched /\ walAt = "linked"
               THEN [wal EXCEPT ![walFor] = Lines(@) \o buf] ELSE wal
FlushedBufStays == buf   \* variant with a bug: the buffer is not reset
FlushedBuf == IF walAt = "closed" THEN buf ELSE <<>>

\* The 100 ms timer of the BatchedWAL, and its flush at batchMaxSize.
FlushWAL ==
    /\ up /\ buf # <<>> /\ walAt # "closed"
    /\ wal' = FlushedFile /\ buf' = FlushedBuf
    /\ UNCHANGED <<jsonl, tmp, chat, tools, walFor, walAt, batched, walSeq, turn,
                   saves, results, rescue, past, flaws, counts>>

\* m.wal.Remove and m.wal = nil: flush, close, unlink.  Unlinking fails if the
\* name is gone, and then the closed handle stays.
RemoveWAL ==
    /\ buf' = FlushedBuf
    /\ IF walAt = "linked"
       THEN /\ wal' = [wal EXCEPT ![walFor] = Absent]
            /\ walFor' = NoSession /\ batched' = FALSE /\ walAt' = walAt
       ELSE walAt' = "closed" /\ UNCHANGED <<wal, walFor, batched>>
    /\ UNCHANGED walSeq

\* os.Remove(<s>.wal) by somebody who is not the handle.
UnlinkWAL(s) ==
    /\ wal' = [wal EXCEPT ![s] = Absent]
    /\ walAt' = IF walFor = s /\ walAt = "linked" THEN "orphan" ELSE walAt
    /\ UNCHANGED <<walFor, batched, buf, walSeq>>

-----------------------------------------------------------------------------
(* Saves.  Two saves of one session share one temporary file; "at" is the  *)
(* path under which the file a save has open is found now.                 *)

Free(i) == saves[i].stage = "none"
Finished(i) == saves[i].stage \in {"ok", "err"}

NewSave(s, m, seq) == [stage |-> "ready", sess |-> s, msgs |-> m, seq |-> seq, at |-> "gone"]

\* History: the sessions clashed when one more save of s begins.
Saving(s) == \E i \in Saves : /\ saves[i].sess = s
                             /\ saves[i].stage \in {"ready", "opened", "written"}
Clashed(s) == IF Saving(s) THEN clashed \cup {s} ELSE clashed

unsaving == <<wal, chat, tools, handle, turn, rescue, past, flaws>>

\* What a write from offset 0 leaves of longer old contents.
Overlay(old, new) ==
    IF Len(new) >= Len(old) THEN new ELSE new \o SubSeq(old, Len(new) + 1, Len(old))

\* Variant with a bug: the session file itself is truncated and written.
SaveOpensTarget(i) ==
    /\ saves[i].stage = "ready"
    /\ jsonl' = [jsonl EXCEPT ![saves[i].sess] = <<>>]
    /\ saves' = [saves EXCEPT ![i].stage = "opened", ![i].at = "jsonl"]
    /\ UNCHANGED <<tmp, unsaving, results, counts>>

\* os.OpenFile(tmp, O_CREATE|O_TRUNC).
SaveOpens(i) ==
    /\ saves[i].stage = "ready"
    /\ tmp' = [tmp EXCEPT ![saves[i].sess] = <<>>]
    /\ saves' = [saves EXCEPT ![i].stage = "opened", ![i].at = "tmp"]
    /\ UNCHANGED <<jsonl, unsaving, results, counts>>

\* The meta line and the snapshot's messages, flushed and synced.
SaveWrites(i) ==
    LET s == saves[i].sess
        new == <<Meta>> \o saves[i].msgs IN
    /\ saves[i].stage = "opened"
    /\ tmp' = IF saves[i].at = "tmp" THEN [tmp EXCEPT ![s] = Overlay(@, new)] ELSE tmp
    /\ jsonl' = IF saves[i].at = "jsonl" THEN [jsonl EXCEPT ![s] = Overlay(@, new)] ELSE jsonl
    /\ saves' = [saves EXCEPT ![i].stage = "written"]
    /\ UNCHANGED <<unsaving, results, counts>>

\* What becomes of the open files of s when its temporary name is moved onto
\* the session file, or removed.
Retarget(s, from, to) ==
    [j \in Saves |-> IF saves[j].sess = s /\ saves[j].at = from
                     THEN [saves[j] EXCEPT !.at = to] ELSE saves[j]]

MovedOnto(s) ==
    [j \in Saves |-> IF saves[j].sess # s \/ saves[j].at = "gone" THEN saves[j]
                     ELSE [saves[j] EXCEPT !.at = IF @ = "tmp" THEN "jsonl" ELSE "gone"]]

\* os.Rename(tmp, target); it fails if another save took the name away.
SaveRenames(i) ==
    LET s == saves[i].sess IN
    /\ saves[i].stage = "written"
    /\ IF tmp[s] # Absent
       THEN /\ jsonl' = [jsonl EXCEPT ![s] = tmp[s]]
            /\ tmp' = [tmp EXCEPT ![s] = Absent]
            /\ saves' = [MovedOnto(s) EXCEPT ![i].stage = "ok"]
       ELSE /\ saves' = [saves EXCEPT ![i].stage = "err"]
            /\ UNCHANGED <<jsonl, tmp>>
    /\ UNCHANGED <<unsaving, results, counts>>

\* An I/O error before the rename: the temporary name is removed.
SaveFails(i) ==
    LET s == saves[i].sess IN
    /\ saves[i].stage \in {"opened", "written"} /\ saveErrors < MaxSaveErrors /\ Room(1)
    /\ tmp' = [tmp EXCEPT ![s] = Absent]
    /\ saves' = [Retarget(s, "tmp", "gone") EXCEPT ![i].stage = "err"]
    /\ saveErrors' = saveErrors + 1
    /\ UNCHANGED <<jsonl, unsaving, results, starts, switches>>

\* The background command returns its sessionSaveResultMsg to the UI queue.
SavePosts(i) ==
    /\ Finished(i)
    /\ results' = results \cup {[sess |-> saves[i].sess, seq |-> saves[i].seq,
                                 ok |-> saves[i].stage = "ok"]}
    /\ saves' = [saves EXCEPT ![i] = NoSave]
    /\ UNCHANGED <<disk, chat, tools, handle, turn, rescue, past, flaws, counts>>

SaveStep(i) ==
    \/ SaveOpens(i) \/ SaveWrites(i) \/ SaveRenames(i) \/ SaveFails(i)

-----------------------------------------------------------------------------
(* The engine goroutine of a running turn. *)

Fresh == Len(created) + 1
Create(n) == created' = created \o [k \in 1..n |-> cur]

idle == <<disk, handle, turn, saves, results, rescue, logged, flaws, counts>>

\* The model answers with text and tool calls: nobody logs the text.
ToolText ==
    /\ up /\ waiting /\ toolMsgs = <<>> /\ Fresh <= MaxMsgs /\ Room(1)
    /\ Create(1) /\ toolMsgs' = <<Fresh>>
    /\ UNCHANGED <<idle, chat, unlogged>>

\* A tool finishes: its result goes to the UI at once, and to the transcript
\* when the whole batch has finished.
ToolFinishes ==
    /\ up /\ waiting /\ Fresh <= MaxMsgs /\ Room(1)
    /\ Create(1) /\ toolMsgs' = Append(toolMsgs, Fresh) /\ unlogged' = Append(unlogged, Fresh)
    /\ UNCHANGED <<idle, chat>>

BatchAppended ==
    /\ up /\ toolMsgs # <<>>
    /\ msgs' = msgs \o toolMsgs /\ toolMsgs' = <<>>
    /\ UNCHANGED <<idle, up, cur, unlogged, created>>

-----------------------------------------------------------------------------
(* The UI thread.  It runs one handler at a time and is blocked while      *)
(* saveSession writes.                                                     *)

UIReady == up /\ uiOp = "none"

\* Submit: AddUser, then the log.
Submit ==
    /\ UIReady /\ ~waiting /\ Fresh <= MaxMsgs /\ Room(1)
    /\ Create(1) /\ msgs' = Append(msgs, Fresh) /\ Logged(Fresh)
    /\ waiting' = TRUE
    /\ UNCHANGED <<jsonl, tmp, up, cur, tools, queued, uiOp, saves, results, rescue, flaws,
                   counts>>

\* handleToolResult.
ToolResult ==
    /\ UIReady /\ unlogged # <<>>
    /\ Logged(Head(unlogged)) /\ unlogged' = Tail(unlogged)
    /\ UNCHANGED <<jsonl, tmp, chat, toolMsgs, turn, saves, results, rescue, created, flaws,
                   counts>>

\* Enter while a turn runs.
QueuePrompt ==
    /\ UIReady /\ waiting /\ queued < MaxQueue
    /\ queued' = queued + 1
    /\ UNCHANGED <<disk, chat, tools, handle, waiting, uiOp, saves, results, rescue, past,
                   flaws, counts>>

\* The answer of the turn, if it has text, is logged.
Answered(text) ==
    /\ UIReady /\ waiting /\ toolMsgs = <<>> /\ unlogged = <<>>
    /\ IF text THEN Logged(Fresh) ELSE UNCHANGED <<wal, handle, logged>>

\* handleStreamDone with no queued prompt: save in the background.
TurnEnds ==
    \E text \in BOOLEAN, i \in BgSaves :
        LET n == IF text THEN 1 ELSE 0 IN
        /\ queued = 0 /\ Len(created) + n <= MaxMsgs /\ Room(n)
        /\ Answered(text) /\ Create(n)
        /\ msgs' = IF text THEN Append(msgs, Fresh) ELSE msgs
        /\ waiting' = FALSE
        /\ Free(i) /\ clashed' = Clashed(cur)
        /\ saves' = [saves EXCEPT ![i] = NewSave(cur, msgs', walSeq')]
        /\ UNCHANGED <<jsonl, tmp, up, cur, tools, queued, uiOp, results, rescue, misused,
                       counts>>

\* Variant with a bug: the queue is not looked at.
TurnEndsIntoNoPrompt ==
    /\ Fresh + 1 <= MaxMsgs /\ Room(2)
    /\ Answered(TRUE) /\ Create(2) /\ msgs' = msgs \o <<Fresh, Fresh + 1>>
    /\ queued' = queued - 1
    /\ UNCHANGED <<jsonl, tmp, up, cur, tools, waiting, uiOp, saves, results, rescue, flaws,
                   counts>>

\* handleStreamDone with a queued prompt: the next prompt goes to the engine
\* only, and the save command is dropped.
TurnEndsIntoQueued ==
    /\ queued > 0 /\ Fresh + 1 <= MaxMsgs /\ Room(2)
    /\ Answered(TRUE) /\ Create(2) /\ msgs' = msgs \o <<Fresh, Fresh + 1>>
    /\ queued' = queued - 1
    /\ UNCHANGED <<jsonl, tmp, up, cur, tools, waiting, uiOp, saves, results, rescue, flaws,
                   counts>>

HandleResult(r, removes) ==
    /\ UIReady /\ results' = results \ {r}
    /\ IF removes /\ walFor # NoSession THEN RemoveWAL ELSE UNCHANGED <<wal, handle>>
    /\ UNCHANGED <<jsonl, tmp, chat, tools, turn, saves, rescue, past, flaws, counts>>

\* Variants with a bug: a message logged after the snapshot, or the error of
\* the save, is ignored.
SaveResultStale == \E r \in results : HandleResult(r, r.ok /\ r.sess = cur)
\* updateSessionSaveResult.
SaveResult ==
    \E r \in results : HandleResult(r, r.ok /\ r.sess = cur /\ r.seq = walSeq)

\* saveSession before /new, on quit, and once more after the UI has ended; an
\* empty transcript is not saved.
SaveBegins(op) ==
    /\ uiOp' = op
    /\ IF msgs = <<>> THEN UNCHANGED <<saves, clashed>>
       ELSE /\ Free(Sync) /\ clashed' = Clashed(cur)
            /\ saves' = [saves EXCEPT ![Sync] = NewSave(cur, msgs, walSeq)]
    /\ UNCHANGED <<disk, chat, tools, handle, waiting, queued, results, rescue, past>>

NewBegins ==
    /\ UIReady /\ ~waiting /\ switches < MaxSwitches /\ Room(1) /\ Unused # {}
    /\ SaveBegins("new")
    /\ switches' = switches + 1 /\ UNCHANGED <<misused, starts, saveErrors>>

\* A quit is possible during a turn; then the transcript saved may lack results of
\* a tool batch that are in the log.
QuitBegins ==
    /\ UIReady
    /\ SaveBegins("quit") /\ UNCHANGED counts
    /\ misused' = IF toolMsgs = <<>> THEN misused ELSE misused \cup {cur}

\* Variant with a bug: the error of the save is ignored.
SaveEndsAnyway ==
    /\ IF Finished(Sync) /\ walFor # NoSession
       THEN RemoveWAL ELSE UNCHANGED <<wal, handle>>
    /\ saves' = [saves EXCEPT ![Sync] = NoSave]

\* saveSession has its result: after a successful save the log is no longer
\* needed.
SaveEnds ==
    /\ IF saves[Sync].stage = "ok" /\ walFor # NoSession
       THEN RemoveWAL ELSE UNCHANGED <<wal, handle>>
    /\ saves' = [saves EXCEPT ![Sync] = NoSave]
SaveDone == Finished(Sync) \/ (Free(Sync) /\ msgs = <<>>)

\* /new: a fresh id with a plain WAL.  If the save failed, the old handle is
\* dropped; its BatchedWAL's timer still flushes it, here at once.
NewSession(transcript) ==
    /\ uiOp = "new" /\ SaveDone /\ uiOp' = "none"
    /\ LET left == IF saves[Sync].stage = "ok" /\ walFor # NoSession /\ walAt = "linked"
                   THEN [wal EXCEPT ![walFor] = Absent] ELSE FlushedFile IN
       \E s \in Unused :
           /\ cur' = s /\ walFor' = s /\ wal' = [left EXCEPT ![s] = <<>>]
    /\ msgs' = transcript /\ buf' = <<>> /\ batched' = FALSE /\ walAt' = "linked"
    /\ saves' = [saves EXCEPT ![Sync] = NoSave]
    /\ UNCHANGED <<jsonl, tmp, up, tools, walSeq, waiting, queued, results, rescue, past,
                   flaws, counts>>

NewEndsKeeps == NewSession(msgs)   \* variant with a bug
NewEnds == NewSession(<<>>)

QuitSaved ==
    /\ uiOp = "quit" /\ SaveDone /\ SaveEnds /\ uiOp' = "exit"
    /\ UNCHANGED <<jsonl, tmp, chat, tools, waiting, queued, results, rescue, past, flaws,
                   counts>>

\* runChat saves again after the UI has ended: the transcript may have grown.
ExitSaveBegins ==
    /\ uiOp = "exit" /\ Free(Sync) /\ msgs # <<>>
    /\ SaveBegins("exit") /\ UNCHANGED <<misused, counts>>

\* Everything that is only in memory is gone, a temporary file has the name of
\* a process that no longer runs.
ProcessEnds ==
    /\ up' = FALSE /\ cur' = NoSession /\ msgs' = <<>>
    /\ toolMsgs' = <<>> /\ unlogged' = <<>>
    /\ tmp' = [s \in Sessions |-> Absent]
    /\ walFor' = NoSession /\ walAt' = "linked" /\ batched' = FALSE
    /\ buf' = <<>> /\ walSeq' = 0
    /\ waiting' = FALSE /\ queued' = 0 /\ uiOp' = "none"
    /\ saves' = [i \in Saves |-> NoSave] /\ results' = {}
    /\ sid' = NoSession /\ toRecover' = {}
    /\ logged' = logged \ ToSet(buf) /\ UNCHANGED <<created, flaws>>

Exit ==
    /\ uiOp = "exit" /\ SaveDone
    /\ wal' = IF saves[Sync].stage = "ok" /\ walFor # NoSession /\ walAt = "linked"
              THEN [wal EXCEPT ![walFor] = Absent] ELSE wal
    /\ ProcessEnds
    /\ UNCHANGED <<jsonl, counts>>

Crash ==
    /\ up /\ ProcessEnds
    /\ UNCHANGED <<jsonl, wal, counts>>

-----------------------------------------------------------------------------
(* Taking up a session. *)

\* History: session s is taken up as transcript m although its files have more.
Misused(s, m) == IF OnDisk(s) \subseteq ToSet(m) THEN misused ELSE misused \cup {s}

\* ResumeSession: load the session file and drop the log, or rebuild it from
\* the log, save it and drop the log if the save succeeded.
Resumed(s, saved) ==
    /\ UNCHANGED past
    /\ IF Loadable(s)
       THEN /\ Parsed(jsonl[s]) # <<>> /\ msgs' = Parsed(jsonl[s])
            /\ UNCHANGED <<jsonl, clashed>>
       ELSE /\ Parsed(wal[s]) # <<>> /\ msgs' = Parsed(wal[s])
            /\ jsonl' = IF saved THEN [jsonl EXCEPT ![s] = <<Meta>> \o msgs'] ELSE jsonl
            /\ clashed' = Clashed(s)
DropsWAL(s, saved) == Loadable(s) \/ saved

\* m.wal stays on the session it was on, and so does the recovery goroutine.
Switch(s) ==
    /\ UIReady /\ ~waiting
    /\ switches < MaxSwitches /\ Room(1) /\ switches' = switches + 1
    /\ cur' = s
    /\ misused' = Misused(s, msgs') \cup (IF walFor = NoSession THEN {} ELSE {s, walFor})
                                   \cup (toRecover \cap {s})
    /\ UNCHANGED <<tmp, up, tools, turn, saves, results, rescue, past, starts>>

\* /resume and the session picker.
ResumeCommand(s) ==
    /\ Loadable(s) /\ msgs' = Parsed(jsonl[s])
    /\ Switch(s)
    /\ UNCHANGED <<jsonl, wal, handle, clashed, saveErrors>>

\* /recover <id>.
RecoverCommand(s, saved) ==
    /\ Resumed(s, saved) /\ Switch(s)
    /\ saved \/ saveErrors < MaxSaveErrors
    /\ saveErrors' = IF saved THEN saveErrors ELSE saveErrors + 1
    /\ IF DropsWAL(s, saved) THEN UnlinkWAL(s) ELSE UNCHANGED <<wal, handle>>

\* A new process opens the log of its session and appends a meta line.
Opens(s, left) ==
    /\ ~up /\ starts < MaxStarts /\ Room(1) /\ starts' = starts + 1
    /\ up' = TRUE /\ cur' = s
    /\ walFor' = s /\ walAt' = "linked" /\ batched' = TRUE
    /\ wal' = [left EXCEPT ![s] = Append(Lines(@), Meta)]
    /\ sid' = s
    /\ UNCHANGED <<tmp, tools, buf, walSeq, turn, saves, results, toRecover, past, switches>>

StartFresh(s) ==
    /\ s \in Unused
    /\ Opens(s, wal)
    /\ UNCHANGED <<jsonl, msgs, flaws, saveErrors>>

\* --resume <id>.
StartResume(s, saved) ==
    /\ saved \/ saveErrors < MaxSaveErrors
    /\ saveErrors' = IF saved THEN saveErrors ELSE saveErrors + 1
    /\ Resumed(s, saved) /\ misused' = Misused(s, msgs')
    /\ Opens(s, IF DropsWAL(s, saved) THEN [wal EXCEPT ![s] = Absent] ELSE wal)

\* --continue: the session file only; the log is kept.
StartContinue(s) ==
    /\ Loadable(s)
    /\ msgs' = Parsed(jsonl[s]) /\ misused' = Misused(s, msgs')
    /\ Opens(s, wal)
    /\ UNCHANGED <<jsonl, clashed, saveErrors>>

\* The startup goroutine lists the WALs of all sessions but the one the process
\* was started with ...
RecoveryScans ==
    /\ up /\ sid # NoSession
    /\ toRecover' = {s \in Sessions \ {sid} : wal[s] # Absent}
    /\ sid' = NoSession
    /\ UNCHANGED <<disk, chat, tools, handle, turn, saves, results, past, flaws, counts>>

\* ... rebuilds each one that has messages and saves it, whatever file it had and
\* whoever uses it ...
RecoveryReads(s) ==
    /\ s \in toRecover /\ Free(Rec)
    /\ IF Parsed(wal[s]) = <<>>
       THEN toRecover' = toRecover \ {s} /\ UNCHANGED <<saves, flaws>>
       ELSE /\ saves' = [saves EXCEPT ![Rec] = NewSave(s, Parsed(wal[s]), 0)]
            /\ clashed' = Clashed(s)
            /\ misused' = Misused(s, Parsed(wal[s])) \cup ({s} \cap {cur, walFor})
            /\ UNCHANGED toRecover
    /\ UNCHANGED <<disk, chat, tools, handle, turn, results, sid, past, counts>>

\* ... and removes the WAL, whatever Save returned.
RecoveryRemoves ==
    LET s == saves[Rec].sess IN
    /\ Finished(Rec)
    /\ UnlinkWAL(s)
    /\ toRecover' = toRecover \ {s}
    /\ misused' = IF saves[Rec].stage = "ok" THEN misused ELSE misused \cup {s}
    /\ saves' = [saves EXCEPT ![Rec] = NoSave]
    /\ UNCHANGED <<jsonl, tmp, chat, tools, turn, results, sid, past, clashed, counts>>

-----------------------------------------------------------------------------
Init ==
    /\ jsonl = [s \in Sessions |-> Absent] /\ tmp = jsonl /\ wal = jsonl
    /\ up = FALSE /\ cur = NoSession /\ msgs = <<>>
    /\ toolMsgs = <<>> /\ unlogged = <<>>
    /\ walFor = NoSession /\ walAt = "linked" /\ batched = FALSE
    /\ buf = <<>> /\ walSeq = 0
    /\ waiting = FALSE /\ queued = 0 /\ uiOp = "none"
    /\ saves = [i \in Saves |-> NoSave] /\ results = {}
    /\ sid = NoSession /\ toRecover = {}
    /\ created = <<>> /\ logged = {} /\ clashed = {} /\ misused = {}
    /\ starts = 0 /\ saveErrors = 0 /\ switches = 0

UI ==
    \/ Submit \/ ToolResult \/ QueuePrompt \/ TurnEnds \/ TurnEndsIntoQueued
    \/ SaveResult \/ NewBegins \/ NewEnds
    \/ QuitBegins \/ QuitSaved \/ ExitSaveBegins \/ Exit
    \/ \E s \in Sessions :
          ResumeCommand(s) \/ \E saved \in BOOLEAN : RecoverCommand(s, saved)

Engine == ToolText \/ ToolFinishes \/ BatchAppended

Recovery ==
    \/ RecoveryScans \/ RecoveryRemoves
    \/ \E s \in Sessions : RecoveryReads(s)

Start ==
    \E s \in Sessions :
        \/ StartFresh(s) \/ StartContinue(s)
        \/ \E saved \in BOOLEAN : StartResume(s, saved)

Next ==
    \/ UI \/ Engine \/ Recovery \/ Start \/ Crash \/ FlushWAL
    \/ \E i \in Saves : SaveStep(i)
    \/ \E i \in BgSaves : SavePosts(i)

Spec == Init /\ [][Next]_vars

\* Session ids are interchangeable (for TLC).
SessionSymmetry == Permutations(Sessions)

-----------------------------------------------------------------------------
(* Properties.  The program has no guard against the histories in which a  *)
(* session is misused or its saves clash.  They are histories of the model *)
(* too, and the premises below are about one session each: nothing but     *)
(* what marks a session can harm it.                                       *)

Clean(s) == s \notin clashed \cup misused
Home(m) == created[m]

\* Every message handed to the log (WAL.Append) of a clean session stays on disk
\* in the session's own log or file, or in the log's buffer, whatever fails,
\* crashes or arrives late.
LoggedIsKept ==
    \A m \in logged : Clean(Home(m)) => m \in OnDisk(Home(m)) \cup ToSet(buf)

\* No step takes a message out of the file of a clean session: every save, the
\* startup recovery's included, replaces a history by one that contains it.
HistoryKept ==
    [][\A s \in Sessions : Clean(s)' => Recorded(jsonl[s]) \subseteq Recorded(jsonl'[s])]_vars

\* What a step takes out of the log of s is in its file.
LogSaved(s) == Recorded(wal[s]) \subseteq Recorded(jsonl'[s]) \cup Recorded(wal'[s])

\* The log of a clean session is removed (WAL.Remove, os.Remove) only when its
\* file has all the messages of the log: no stale result of a save, no failed
\* save and no recovery removes more.
RemovedLogIsSaved == [][\A s \in Sessions : Clean(s)' => LogSaved(s)]_vars

\* The files of a clean session have messages of that session only, although saves
\* and their results outlive /new, /resume and a restart's recovery.
HomeOnly == \A s \in Sessions : Clean(s) => \A m \in OnDisk(s) : Home(m) = s

\* Unless two saves of it clash, a session file never has a message twice or out
\* of order, though file and log overlap after a crash between the rename and the
\* removal of the log, and are merged by resume and recovery.
SavedInOrder ==
    \A s \in Sessions \ clashed : \A i, j \in 1..Len(Lines(jsonl[s])) :
        i < j => jsonl[s][i] < jsonl[s][j]

\* A session file is absent, or begins with its meta line: never a partial write.
Complete(s) == jsonl[s] # Absent => Loadable(s) /\ Head(jsonl[s]) = Meta

\* Unless two saves of it clash, a session's file is never partial, through
\* failing writes and crashes at every step of Save.
LoneSaveIsAtomic == \A s \in Sessions \ clashed : Complete(s)

\* What the repository says of every session: "a crash at any point leaves either the old valid file or the new valid
\* file, never a partial write".  Violated: two saves share one temporary name, and
\* one writes into the file the other has just renamed.
SaveIsAtomic == \A s \in Sessions : Complete(s)
=============================================================================
