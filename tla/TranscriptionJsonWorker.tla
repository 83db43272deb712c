----------------------- MODULE TranscriptionJsonWorker -----------------------
(***************************************************************************)
(* The thread that keeps a session's results: the inference thread submits *)
(* them (submit takes no lock), the JSON thread appends each to the JSON   *)
(* file and to the text file, and when it ends it saves what is left in    *)
(* the queue and writes the text file again from the JSON file.            *)
(*                                                                         *)
(* Results are numbered as they are submitted.  A file is the results in   *)
(* it, or Missing, or Broken after a write that ended half way.            *)
(***************************************************************************)
EXTENDS Integers, Sequences, SequencesExt

CONSTANTS
    MaxEvents,      \* bound: results of the session
    QueueCapacity,
    Missing, Broken \* model values: no file; a file of which a part was written

ASSUME JsonAssumption ==
    MaxEvents \in Nat /\ QueueCapacity \in Nat \ {0} /\ Missing # Broken

VARIABLES
    submit_pc,      \* the inference thread in submit()
    next,           \* the result it submits, or will submit
    running, interrupted,
    eventQueue,
    json_pc,        \* the JSON thread, "off" before start()
    writer,         \* the writer exists
    event,          \* the result taken from the queue, 0 for none
    items,          \* of the writer
    json, text,     \* the files
    failed,         \* the loop was left by an exception
    \* history
    accepted,       \* results that went into the queue
    dropped,        \* taken out of a full queue again
    overlap,        \* the stop was requested during a submit()
    jsonSaved, textSaved    \* the last write of the file succeeded

submitVars == <<submit_pc, next, accepted, dropped>>
fileVars == <<json, jsonSaved, text, textSaved>>
threadVars == <<json_pc, writer, event, items, failed, fileVars>>
vars == <<submitVars, threadVars, running, interrupted, eventQueue, overlap>>

Unreadable == {Missing, Broken}

Init ==
    /\ submit_pc = "idle" /\ next = 1 /\ accepted = {} /\ dropped = {} /\ overlap = FALSE
    /\ running = FALSE /\ interrupted = FALSE /\ eventQueue = <<>>
    /\ json_pc = "off" /\ writer = FALSE /\ event = 0 /\ items = <<>>
    /\ json = Missing /\ text = Missing /\ failed = FALSE
    /\ jsonSaved = FALSE /\ textSaved = FALSE
-----------------------------------------------------------------------------
(* start() and requestStop(), on the service's thread. *)

Start ==
    /\ json_pc = "off"
    /\ running' = TRUE /\ json_pc' = "clear"
    /\ UNCHANGED <<submitVars, interrupted, eventQueue, writer, event, items, failed, fileVars, overlap>>

(* A thread that has ended is not interrupted. *)
RequestStop ==
    /\ json_pc # "off"
    /\ running' = FALSE
    /\ interrupted' = (interrupted \/ json_pc # "stopped")
    /\ overlap' = (overlap \/ submit_pc # "idle")
    /\ UNCHANGED <<submitVars, threadVars, eventQueue>>
-----------------------------------------------------------------------------
(* submit() *)

Submit ==
    /\ submit_pc = "idle" /\ next <= MaxEvents /\ json_pc # "off"
    /\ IF running THEN submit_pc' = "offer" /\ UNCHANGED next
                  ELSE submit_pc' = "idle" /\ next' = next + 1
    /\ UNCHANGED <<accepted, dropped, threadVars, running, interrupted, eventQueue, overlap>>

Enqueue ==
    /\ eventQueue' = Append(eventQueue, next) /\ accepted' = accepted \cup {next}
    /\ submit_pc' = "idle" /\ next' = next + 1

(* The second offer finds room: only this thread adds to the queue. *)
Offer ==
    /\ submit_pc \in {"offer", "again"}
    /\ IF Len(eventQueue) < QueueCapacity
       THEN Enqueue
       ELSE submit_pc' = "poll" /\ UNCHANGED <<eventQueue, accepted, next>>
    /\ UNCHANGED <<dropped, threadVars, running, interrupted, overlap>>

(* A full queue loses its oldest result, unless the JSON thread was faster. *)
DropOldest ==
    /\ submit_pc = "poll"
    /\ submit_pc' = "again"
    /\ IF eventQueue = <<>>
       THEN UNCHANGED <<eventQueue, dropped>>
       ELSE eventQueue' = Tail(eventQueue) /\ dropped' = dropped \cup {Head(eventQueue)}
    /\ UNCHANGED <<next, accepted, threadVars, running, interrupted, overlap>>
-----------------------------------------------------------------------------
(* run() *)

Step(pc) ==
    /\ json_pc' = pc
    /\ UNCHANGED <<submitVars, running, interrupted, overlap>>

(* A file is opened for writing, which empties it, and written; either can *)
(* fail.                                                                   *)
Write(file, saved, content) ==
    \/ file' = content /\ saved' = TRUE
    \/ file' \in {Broken, file} /\ saved' = FALSE

SaveJson(content) == Write(json, jsonSaved, content) /\ UNCHANGED <<text, textSaved>>
SaveText(content) == Write(text, textSaved, content) /\ UNCHANGED <<json, jsonSaved>>

(* clearFilteredText: without the text file there is no writer either. *)
Clear ==
    /\ json_pc = "clear"
    /\ SaveText(<<>>)
    /\ failed' = ~ textSaved'
    /\ Step(IF textSaved' THEN "create" ELSE "drain")
    /\ UNCHANGED <<eventQueue, writer, event, items>>

(* The writer saves an empty JSON file; a failure is only logged. *)
Create ==
    /\ json_pc = "create"
    /\ writer' = TRUE /\ SaveJson(items)
    /\ Step("loop")
    /\ UNCHANGED <<eventQueue, event, items, failed>>

(* Bug: the loop only ends with an empty queue. *)
LeaveLoopWhenEmpty ==
    /\ json_pc = "loop" /\ (~ running \/ interrupted) /\ eventQueue = <<>>
    /\ Step("drain")
    /\ UNCHANGED <<eventQueue, writer, event, items, failed, fileVars>>

LeaveLoop ==
    /\ json_pc = "loop" /\ (~ running \/ interrupted)
    /\ Step("drain")
    /\ UNCHANGED <<eventQueue, writer, event, items, failed, fileVars>>

(* poll with a timeout; without a result the loop starts over.  When the   *)
(* stop comes between the loop's test and the poll, the interrupt makes    *)
(* the poll throw, and LeaveLoop stands for that too.                      *)
Poll ==
    /\ json_pc = "loop" /\ running /\ ~ interrupted /\ eventQueue # <<>>
    /\ event' = Head(eventQueue) /\ eventQueue' = Tail(eventQueue)
    /\ Step("append")
    /\ UNCHANGED <<writer, items, failed, fileVars>>

(* Bug: an item that could not be saved is forgotten. *)
AppendEventIfSaved ==
    /\ json_pc = "append"
    /\ SaveJson(Append(items, event))
    /\ items' = IF jsonSaved' THEN Append(items, event) ELSE items
    /\ Step("appendText")
    /\ UNCHANGED <<eventQueue, writer, event, failed>>

(* append(): the item stays in the writer when the file cannot be saved. *)
AppendEvent ==
    /\ json_pc = "append"
    /\ items' = Append(items, event) /\ SaveJson(items')
    /\ Step("appendText")
    /\ UNCHANGED <<eventQueue, writer, event, failed>>

(* appendFilteredText: a failure ends the loop. *)
AppendText ==
    /\ json_pc = "appendText"
    /\ event' = 0
    /\ SaveText(Append(text, event))
    /\ failed' = ~ textSaved'
    /\ Step(IF textSaved' THEN "loop" ELSE "drain")
    /\ UNCHANGED <<eventQueue, writer, items>>

(* The rest of the queue; without a writer it is thrown away. *)
Drain ==
    /\ json_pc = "drain"
    /\ IF eventQueue = <<>>
       THEN Step("finish") /\ UNCHANGED <<eventQueue, items, fileVars>>
       ELSE /\ eventQueue' = Tail(eventQueue)
            /\ IF writer
               THEN items' = Append(items, Head(eventQueue)) /\ SaveJson(items')
               ELSE UNCHANGED <<items, fileVars>>
            /\ Step("drain")
    /\ UNCHANGED <<writer, event, failed>>

(* finish(): the file is saved once more, with the time of the end. *)
Finish ==
    /\ json_pc = "finish"
    /\ IF writer THEN SaveJson(items) /\ Step("rewrite")
                 ELSE UNCHANGED fileVars /\ Step("end")
    /\ UNCHANGED <<eventQueue, writer, event, items, failed>>

(* Bug: the text file is left as the loop wrote it. *)
RewriteNothing ==
    /\ json_pc = "rewrite"
    /\ Step("end")
    /\ UNCHANGED <<eventQueue, writer, event, items, failed, fileVars>>

(* saveTextFromJson: the text file again, from the JSON file. *)
Rewrite ==
    /\ json_pc = "rewrite"
    /\ IF json \in Unreadable THEN textSaved' = FALSE /\ UNCHANGED <<text, json, jsonSaved>>
                              ELSE SaveText(json)
    /\ Step("end")
    /\ UNCHANGED <<eventQueue, writer, event, items, failed>>

(* The flag is cleared and the stop published. *)
End ==
    /\ json_pc = "end"
    /\ running' = FALSE /\ json_pc' = "stopped"
    /\ UNCHANGED <<submitVars, interrupted, eventQueue, overlap, writer, event, items, failed, fileVars>>
-----------------------------------------------------------------------------
ThreadStep ==
    \/ Clear \/ Create \/ LeaveLoop \/ Poll \/ AppendEvent \/ AppendText
    \/ Drain \/ Finish \/ Rewrite \/ End

Next == Start \/ RequestStop \/ Submit \/ Offer \/ DropOldest \/ ThreadStep

Spec == Init /\ [][Next]_vars /\ WF_vars(ThreadStep)
-----------------------------------------------------------------------------
Content == Seq(1..MaxEvents) \cup Unreadable

TypeOK ==
    /\ submit_pc \in {"idle", "offer", "poll", "again"}
    /\ next \in 1..(MaxEvents + 1) /\ event \in 0..MaxEvents
    /\ {running, interrupted, writer, failed, overlap, jsonSaved, textSaved} \subseteq BOOLEAN
    /\ eventQueue \in Seq(1..MaxEvents) /\ Len(eventQueue) <= QueueCapacity
    /\ json_pc \in {"off", "clear", "create", "loop", "append", "appendText", "drain",
                    "finish", "rewrite", "end", "stopped"}
    /\ items \in Seq(1..MaxEvents) /\ json \in Content /\ text \in Content
    /\ accepted \subseteq 1..MaxEvents /\ dropped \subseteq accepted

InHand == IF json_pc = "append" THEN <<event>> ELSE <<>>
Kept == items \o InHand \o eventQueue

(* The writer's items, the result in the thread's hand and the queue are,  *)
(* in this order, the accepted results in the order of their submission:   *)
(* none twice, none missing but those a full queue dropped, whatever write *)
(* failed (only without a writer results are thrown away).  When a stop    *)
(* was requested while no submit() was under way and the loop did not      *)
(* fail, every accepted result became an item (otherwise one accepted      *)
(* after the last look at the queue stays in it).                          *)
EventsAccounted ==
    /\ TypeOK
    /\ \A i, k \in DOMAIN Kept : i < k => Kept[i] < Kept[k]
    /\ writer \/ ~ failed => ToSet(Kept) = accepted \ dropped
    /\ json_pc = "stopped" /\ ~ failed /\ ~ overlap => ToSet(items) = accepted \ dropped

(* A readable JSON file is a prefix of the items, and when the last writes *)
(* succeeded both files hold every item, whatever writes failed before and *)
(* whether an item was taken in the loop or after it.                      *)
FilesAgree ==
    /\ json \notin Unreadable => IsPrefix(json, items)
    /\ json_pc = "stopped" /\ jsonSaved /\ textSaved => json = items /\ text = items

(* A requested stop ends the thread, which the service waits for. *)
StopEndsJsonThread == (~ running /\ json_pc # "off") ~> json_pc = "stopped"
=============================================================================
