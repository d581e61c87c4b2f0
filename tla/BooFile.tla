-------------------------------- MODULE BooFile --------------------------------
(***************************************************************************)
(* The file of one boo (Boo.java, BooManager.java), and the threads that   *)
(* read, write and delete it:                                              *)
(*                                                                         *)
(*   "main"    lists, the recording and publishing activities, results of  *)
(*             requests for the upload queue, and what follows from them;  *)
(*   "player"  flattens the boo it is to play, and saves it;               *)
(*   "queue"   the upload queue: looks for uploads, flattens, saves.       *)
(*                                                                         *)
(* A save truncates the file and writes it then; whoever reads it in       *)
(* between finds it torn and deletes it.  Reading and writing may fail,    *)
(* and the process may die anywhere.  Of the data, the recordings, the     *)
(* flattened file and the progress of the upload are kept.  Recordings and *)
(* flattened files are numbered together, and each takes the number after  *)
(* the highest that is there.  A recording delivers something and adds to  *)
(* the list (Recorder has the rest).  Other boos only matter as further    *)
(* files.                                                                  *)
(***************************************************************************)
EXTENDS Integers, Sequences

CONSTANTS
  MaxFiles,   \* bound: numbers of recordings and flattened files
  MaxNames,   \* bound: how often the file is made
  MaxTime,    \* bound: the clock of the file system
  MaxSteps    \* bound: what the user does, results, deaths of the process

ASSUME BooFileAssumption ==
  /\ MaxFiles \in Nat /\ MaxNames \in Nat /\ MaxTime \in Nat \ {0}
  /\ MaxSteps \in Nat

Threads == {"main", "player", "queue"}
\* Who has an object of the boo.  "given": what the player has been told to play
\* and has not begun with.
Holders == {"ui", "given", "player", "queue", "index"}

\* recs: the numbers of its recordings.  flat: mHighMP3Url, 0 for null.  up: 0
\* without upload info; 1, 2 the audio stage without and with an attachment;
\* 3, 4 what follows, without and with an image or none.
Datas  == [recs : SUBSET Nat, flat : Nat, up : 0..4]
NoData == [recs |-> {}, flat |-> 0, up |-> -1]
Torn   == [recs |-> {}, flat |-> 0, up |-> -2]
Contents == Datas \cup {NoData, Torn}

\* A recording, or a flattened file: the recordings in it, and lastModified.
Audio  == [recs : SUBSET Nat, time : Nat, there : BOOLEAN]
NoFile == [recs |-> {}, time |-> 0, there |-> FALSE]

VARIABLES
  file,       \* its content, and how many files of that name there have been
  files,      \* recordings and flattened files, by number
  now,        \* the clock of the file system
  mem,        \* the boo object of every holder
  shared,     \* who else has the activity's object
  recording,  \* the number of the file that is being recorded, or 0
  op,         \* what every thread is at
  running,    \* the process is
  created, saved, gone,  \* the boo was created, saved, deleted on purpose
  \* history
  raced,      \* a save overlapped with another access to the file or was cut
              \* short, or an access failed
  disturbed,  \* a recording, or another call of flattenAudio(), overlapped with
              \* a flattening, or that was cut short or left recordings out
  outdated,   \* an activity was left and the lists were not refreshed since
  overtaken,  \* an activity was opened or left, or the boo deleted, with
              \* another thread at work on the boo; or a draft was clicked in
              \* an outdated list
  stale,      \* a flattened file that lacks recordings was taken for complete
  steps

memVars == <<mem, shared, recording>>
audioVars == <<files, now>>
lifeVars == <<created, saved, gone>>
flatHistory == <<disturbed, stale>>
listHistory == <<outdated, overtaken>>
vars == <<file, files, now, mem, shared, recording, op, running, created, saved,
          gone, raced, disturbed, outdated, overtaken, stale, steps>>

\* why: what the access is for.  whose: the object that is flattened or saved.
\* no, data: the file it has opened.  target: the file it flattens to.
Idle == [pc |-> "idle", why |-> "", whose |-> "ui", no |-> 0, data |-> NoData,
         target |-> 0]
Ops == [pc : {"idle", "open", "read", "torn", "fatal", "flatten", "save",
              "write", "image", "leave"},
        why : {"", "redraw", "filter", "index", "record", "publish", "leave",
               "drop", "image", "canceled"},
        whose : Holders, no : Nat, data : Contents, target : Nat]
Open(why) == [Idle EXCEPT !.pc = "open", !.why = why]
Save(whose, why) == [Idle EXCEPT !.pc = "save", !.why = why, !.whose = whose]

Init ==
  /\ file = [no |-> 0, data |-> NoData]
  /\ files = <<>> /\ now = 1
  /\ mem = [h \in Holders |-> NoData] /\ shared = {}
  /\ recording = 0
  /\ op = [t \in Threads |-> Idle] /\ running = TRUE
  /\ created = FALSE /\ saved = FALSE /\ gone = FALSE
  /\ raced = FALSE /\ disturbed = FALSE /\ outdated = FALSE /\ overtaken = FALSE
  /\ stale = FALSE
  /\ steps = 0

At(t, pc) == running /\ op[t].pc = pc
Others(t, pcs) == {u \in Threads \ {t} : op[u].pc \in pcs}
Flattening == \E t \in Threads : op[t].pc = "flatten"
ToPlay == mem["given"] # NoData
\* Another thread than t is at work on the boo, or is to be.
Overtakes(t) == ToPlay \/ \E u \in Threads \ {t} : op[u].pc # "idle"

\* The objects m with d as h's, and as that of whoever has the same: sharing are
\* those that have the activity's.
Store(m, sharing, h, d) ==
  LET same == IF h \in sharing \cup {"ui"} THEN sharing \cup {"ui"} ELSE {h}
  IN [x \in Holders |-> IF x \in same THEN d ELSE m[x]]

\* Mutated form: the highest number that is there, not the one after it.
IsHighest(fs, n) ==
  /\ n \in 1 .. Len(fs) + 1 /\ \A i \in n + 1 .. Len(fs) : ~fs[i].there
  /\ n = 1 \/ (n <= Len(fs) /\ fs[n].there)

\* getNewRecordingFilename().
IsNext(fs, n) ==
  /\ n \in 1 .. Len(fs) + 1 /\ (n > 1 => fs[n - 1].there)
  /\ \A i \in n .. Len(fs) : ~fs[i].there
WithFile(fs, n, f) == IF n > Len(fs) THEN Append(fs, f) ELSE [fs EXCEPT ![n] = f]
-------------------------------------------------------------------------------
(* constructFromFile().                                                    *)

BeginRead(t) ==
  /\ At(t, "open")
  /\ op' = [op EXCEPT ![t].pc = "read", ![t].no = file.no,
                      ![t].data = file.data]
  /\ raced' = (raced \/ Others(t, {"write"}) # {})
  /\ UNCHANGED <<file, audioVars, memVars, running, lifeVars,
                 flatHistory, listHistory, steps>>

\* What the read may find: a save meanwhile tears it.
Found(o) == IF file.no = o.no /\ file.data # o.data /\ file.data # NoData
            THEN {o.data, file.data, Torn} ELSE {o.data}

\* What is done with the boo, or with none.  rebuildIndex() reads every file
\* once to filter and once to use it.  An activity cannot do without its boo.
Loaded(t, d) ==
  LET why == op[t].why
      opens == why \in {"record", "publish"} /\ d # NoData
      plays == why = "record" /\ d.recs # {}
  IN /\ op' = [op EXCEPT ![t] =
                 IF why = "filter" /\ d # NoData THEN Open("index")
                 ELSE IF why \in {"record", "publish"} /\ d = NoData
                 THEN [Idle EXCEPT !.pc = "fatal"] ELSE Idle]
     /\ IF opens
        THEN /\ mem' = [mem EXCEPT !["ui"] = d,
                                   !["given"] = IF plays THEN d ELSE @]
             /\ shared' = IF plays THEN {"given"} ELSE {}
             /\ overtaken' = (overtaken \/ Overtakes(t))
             /\ UNCHANGED outdated
        ELSE /\ IF why \in {"filter", "index"} /\ op'[t] = Idle
                THEN /\ mem' = [mem EXCEPT !["index"] = d,
                              !["queue"] = IF t # "queue" THEN @
                                           ELSE IF d.up > 0 THEN d ELSE NoData]
                     /\ outdated' = FALSE
                ELSE UNCHANGED <<mem, outdated>>
             /\ UNCHANGED <<shared, overtaken>>
     /\ UNCHANGED recording

\* Any IOException counts as a torn file.
EndRead(t) ==
  /\ At(t, "read")
  /\ \/ \E d \in Found(op[t]) \ {Torn} : Loaded(t, d) /\ UNCHANGED raced
     \/ /\ op[t].data # NoData
        /\ op' = [op EXCEPT ![t].pc = "torn"]
        /\ raced' = (raced \/ Torn \notin Found(op[t]))
        /\ UNCHANGED <<memVars, listHistory>>
  /\ UNCHANGED <<file, audioVars, running, lifeVars, flatHistory, steps>>

\* A file that could not be read is deleted - whatever is in it by now.
DeleteTorn(t) ==
  /\ At(t, "torn")
  /\ file' = [file EXCEPT !.data = NoData]
  /\ Loaded(t, NoData)
  /\ UNCHANGED <<audioVars, running, lifeVars, raced, flatHistory, steps>>
-------------------------------------------------------------------------------
(* writeToFile(): the file is truncated, then written.                     *)

BeginWrite(t) ==
  LET no == IF file.data # NoData THEN file.no ELSE file.no + 1
  IN /\ At(t, "save") /\ no <= MaxNames
     /\ file' = [no |-> no, data |-> Torn]
     /\ op' = [op EXCEPT ![t].pc = "write", ![t].no = no]
     /\ raced' = (raced \/ Others(t, {"read", "torn", "write"}) # {})
     /\ UNCHANGED <<audioVars, memVars, running, lifeVars, flatHistory,
                    listHistory, steps>>

\* The player is done with its object.
Done(t, m, sharing) ==
  IF t = "player" THEN /\ mem' = [m EXCEPT !["player"] = NoData]
                       /\ shared' = sharing \ {"player"}
  ELSE mem' = m /\ shared' = sharing

\* What follows a save, whatever came of it.
AfterSave(t) ==
  LET o == op[t] IN
  /\ op' = [op EXCEPT ![t] =
              IF o.why \in {"record", "publish"} THEN Open(o.why)
              ELSE IF o.why = "leave" THEN [Idle EXCEPT !.pc = "leave"]
              ELSE IF o.why = "image"
              THEN [Idle EXCEPT !.pc = "image", !.whose = o.whose] ELSE Idle]
  /\ IF o.why = "drop"
     THEN mem' = [mem EXCEPT !["queue"] = NoData] /\ UNCHANGED shared
     ELSE Done(t, mem, shared)
  /\ UNCHANGED <<audioVars, recording, running, created, gone, flatHistory,
                 listHistory, steps>>

\* The file cannot be opened.
CannotWrite(t) ==
  /\ At(t, "save") /\ AfterSave(t)
  /\ UNCHANGED <<file, saved, raced>>

\* Mutated form: the stream is not flushed.
WriteUnflushed(o) == file

\* Of a file that was deleted meanwhile nothing is left.
Write(o) == IF file.no = o.no /\ file.data # NoData
            THEN [file EXCEPT !.data = mem[o.whose]] ELSE file

\* An IOException leaves what was written before it, two that write at the same
\* time may leave a mixture.
EndWrite(t) ==
  /\ At(t, "write") /\ AfterSave(t)
  /\ \/ file' = Write(op[t]) /\ UNCHANGED raced
     \/ UNCHANGED file /\ raced' = TRUE
  /\ saved' = TRUE
-------------------------------------------------------------------------------
(* flattenAudio(), by t for the object of h; m and sharing are the objects *)
(* and who has the activity's.                                             *)

\* Mutated form: a flattened file as old as the latest recording will do.
UpToDateOrEqual(d) ==
  /\ d.flat # 0 /\ files[d.flat].there
  /\ \A r \in d.recs : files[d.flat].time >= files[r].time

UpToDate(d) ==
  /\ d.flat # 0 /\ files[d.flat].there
  /\ \A r \in d.recs : files[d.flat].time > files[r].time

\* The old file is deleted before the new one is numbered; that is there when
\* something has been decoded.
Flatten(t, h, m, sharing) ==
  LET d == m[h]
      rest == [i \in DOMAIN files |-> IF i = d.flat THEN NoFile ELSE files[i]]
  IN /\ disturbed' = (disturbed \/ recording # 0 \/ Others(t, {"flatten"}) # {})
     /\ IF UpToDate(d)
        THEN /\ op' = [op EXCEPT ![t] = Idle]
             /\ stale' = (stale \/ (~gone /\ ~(d.recs \subseteq files[d.flat].recs)))
             /\ Done(t, m, sharing)
             /\ UNCHANGED audioVars
        ELSE /\ \E target \in 1 .. MaxFiles, made \in BOOLEAN :
                /\ IsNext(rest, target)
                /\ files' = WithFile(rest, target,
                              IF made THEN [NoFile EXCEPT !.time = now, !.there = TRUE]
                              ELSE NoFile)
                /\ op' = [op EXCEPT ![t] =
                             [Idle EXCEPT !.pc = "flatten", !.whose = h,
                                          !.data = d, !.target = target]]
             /\ mem' = Store(m, sharing, h, [d EXCEPT !.flat = 0])
             /\ shared' = sharing
             /\ UNCHANGED <<now, stale>>

\* The recordings are read and encoded; got are those that deliver.  Without any
\* there is no file.  If one was added to the list meanwhile the loop over it
\* fails, which ends the process, unless it was over already.
EndFlatten(t) ==
  LET o == op[t] IN
  /\ At(t, "flatten")
  /\ \/ \E got \in SUBSET {r \in o.data.recs : files[r].there} :
          /\ op' = [op EXCEPT ![t] = Save(o.whose, "")]
          /\ files' = IF got = {} THEN files
                      ELSE [files EXCEPT ![o.target] =
                              [recs |-> got, time |-> now, there |-> TRUE]]
          /\ mem' = Store(mem, shared, o.whose, [mem[o.whose] EXCEPT !.flat = o.target])
          /\ disturbed' = (disturbed \/ got = {} \/ got # o.data.recs)
     \/ /\ mem[o.whose].recs # o.data.recs
        /\ op' = [op EXCEPT ![t].pc = "fatal"]
        /\ disturbed' = TRUE
        /\ UNCHANGED <<files, mem>>
  /\ UNCHANGED <<file, now, shared, recording, running, lifeVars, raced,
                 stale, listHistory, steps>>

\* deleteBoo(): the data files and the file.
Deleted ==
  /\ file' = [file EXCEPT !.data = NoData]
  /\ files' = [i \in DOMAIN files |-> NoFile]
  /\ gone' = TRUE
  /\ overtaken' = (overtaken \/ Overtakes("main"))
-------------------------------------------------------------------------------
(* The user, on the main thread.                                           *)

User ==
  /\ At("main", "idle")
  /\ steps < MaxSteps /\ steps' = steps + 1
  /\ UNCHANGED <<running, raced, stale>>

InActivity == mem["ui"] # NoData
Draft == InActivity /\ mem["ui"].up = 0 /\ recording = 0

\* createBoo(), by the recording activity.
Create ==
  /\ At("main", "idle") /\ ~InActivity /\ ~created
  /\ created' = TRUE
  /\ mem' = [mem EXCEPT !["ui"] = [recs |-> {}, flat |-> 0, up |-> 0]]
  /\ UNCHANGED <<file, audioVars, shared, recording, op, running, saved, gone,
                 raced, flatHistory, listHistory, steps>>

\* A draft in the list is clicked: saved, and opened from the file.
ClickDraft ==
  /\ User /\ ~InActivity /\ mem["index"].up = 0
  /\ mem' = [mem EXCEPT !["ui"] = mem["index"]]
  /\ \E why \in {"record", "publish"} :
       op' = [op EXCEPT !["main"] = Save("ui", why)]
  /\ overtaken' = (overtaken \/ outdated)
  /\ UNCHANGED <<file, audioVars, shared, recording, lifeVars, disturbed,
                 outdated>>

\* The player is told to stop.
Record ==
  LET sharing == shared \ {"given"}
  IN /\ User /\ Draft
     /\ \E new \in 1 .. MaxFiles :
          /\ IsNext(files, new)
          /\ recording' = new
          /\ files' = WithFile(files, new,
                               [recs |-> {new}, time |-> now, there |-> TRUE])
          /\ mem' = Store([mem EXCEPT !["given"] = NoData], sharing, "ui",
                          [mem["ui"] EXCEPT !.recs = @ \cup {new}])
     /\ shared' = sharing
     /\ disturbed' = (disturbed \/ Flattening)
     /\ UNCHANGED <<file, now, op, lifeVars, listHistory>>

\* stopRecording(): the player is given the boo.
StopRecording ==
  /\ User /\ recording # 0
  /\ recording' = 0
  /\ mem' = [mem EXCEPT !["given"] = mem["ui"]]
  /\ shared' = shared \cup {"given"}
  /\ UNCHANGED <<file, audioVars, op, lifeVars, disturbed, listHistory>>

\* The draft is saved; the publishing activity is opened, or this one left.
SaveDraft ==
  /\ User /\ Draft /\ mem["ui"].recs # {}
  /\ \E why \in {"publish", "leave"} :
       op' = [op EXCEPT !["main"] = Save("ui", why)]
  /\ UNCHANGED <<file, audioVars, memVars, lifeVars, disturbed, listHistory>>

\* onSubmit().
Submit ==
  /\ User /\ Draft /\ mem["ui"].recs # {}
  /\ mem' = Store(mem, shared, "ui", [mem["ui"] EXCEPT !.up = 1])
  /\ op' = [op EXCEPT !["main"] = Save("ui", "leave")]
  /\ UNCHANGED <<file, audioVars, shared, recording, lifeVars, disturbed,
                 listHistory>>

\* The draft is deleted, and the activity left with that result.
Discard(why) ==
  /\ User /\ Draft
  /\ Deleted
  /\ op' = [op EXCEPT !["main"].pc = "leave", !["main"].why = why]
  /\ UNCHANGED <<now, memVars, created, saved, disturbed, outdated>>

\* deleteAndQuit().  To delete a file that is not there fails.
DeleteDraft == Discard(IF file.data = NoData THEN "canceled" ELSE "")

\* The button to start again: the activity goes on with another boo, which it
\* may delete before it was saved.
Restart == mem["ui"].recs # {} /\ Discard("canceled")

\* Mutated form: the list below is shown as it was.
BelowUnrefreshed(why) == Idle

\* The list below is refreshed, unless the result is RESULT_CANCELED.
Below(why) == IF why = "canceled" THEN Idle ELSE Open("filter")

\* The activity is left.
Leave ==
  /\ At("main", "leave")
  /\ mem' = [mem EXCEPT !["ui"] = NoData, !["given"] = NoData]
  /\ shared' = {}
  /\ op' = [op EXCEPT !["main"] = Below(op["main"].why)]
  /\ overtaken' = (overtaken \/ Overtakes("main"))
  /\ outdated' = (outdated \/ op["main"].why = "canceled")
  /\ UNCHANGED <<file, audioVars, recording, running, lifeVars, raced,
                 flatHistory, steps>>

\* The lists are refreshed: by the menu, or after an activity with another boo.
Refresh ==
  /\ User /\ ~InActivity
  /\ op' = [op EXCEPT !["main"] = Open("filter")]
  /\ UNCHANGED <<file, audioVars, memVars, lifeVars, disturbed, listHistory>>

\* The progress of an upload in the list is drawn.
Redraw ==
  /\ At("main", "idle") /\ ~InActivity /\ mem["index"].up > 0
  /\ op' = [op EXCEPT !["main"] = Open("redraw")]
  /\ UNCHANGED <<file, audioVars, memVars, running, lifeVars, raced,
                 flatHistory, listHistory, steps>>
-------------------------------------------------------------------------------
(* The player and the upload queue.                                        *)

\* It has its object until it is done with it, whatever it is given meanwhile.
Play ==
  LET sharing == IF "given" \in shared THEN {"player"} ELSE {}
      objects == [mem EXCEPT !["player"] = mem["given"], !["given"] = NoData]
  IN
  /\ At("player", "idle") /\ ToPlay
  /\ Flatten("player", "player", objects, sharing)
  /\ UNCHANGED <<file, recording, running, lifeVars, raced,
                 listHistory, steps>>

\* Mutated form: without the lock.
WakesUnlocked == At("queue", "idle")

\* The queue thread wakes up, and takes mUploadLock if the main thread is not
\* processing a result.
Wakes == At("queue", "idle") /\ op["main"].whose # "queue"

\* It looks for an upload.
FindUpload ==
  /\ Wakes /\ mem["queue"] = NoData
  /\ op' = [op EXCEPT !["queue"] = Open("filter")]
  /\ UNCHANGED <<file, audioVars, memVars, running, lifeVars, raced,
                 flatHistory, listHistory, steps>>

\* It flattens the audio before the first request.
StartUpload ==
  /\ Wakes /\ mem["queue"].up = 1
  /\ Flatten("queue", "queue", mem, shared)
  /\ UNCHANGED <<file, recording, running, lifeVars, raced, listHistory, steps>>

\* So it does before the first request for an image, and there the main thread
\* does; without an image the boo is saved as if that were uploaded.
StartImage(t) ==
  /\ \/ t = "main" /\ At("main", "image")
     \/ t = "queue" /\ Wakes
  /\ mem["queue"].up = 3
  /\ \/ Flatten(t, "queue", mem, shared)
     \/ /\ mem' = [mem EXCEPT !["queue"].up = 4]
        /\ op' = [op EXCEPT ![t] = Save("queue", "")]
        /\ UNCHANGED <<shared, audioVars, disturbed, stale>>
  /\ UNCHANGED <<file, recording, running, lifeVars, raced, listHistory, steps>>

\* Results arrive on the main thread, which takes the lock: the queue thread is
\* not in process().
Result == /\ At("main", "idle") /\ op["queue"].pc = "idle"
          /\ mem["queue"] # NoData

\* The audio or the image gets on; with the audio complete the image is next.
Progress ==
  /\ Result /\ User
  /\ \E up \in IF mem["queue"].up < 3 THEN {2, 3} ELSE {4} :
       /\ mem' = [mem EXCEPT !["queue"].up = up]
       /\ op' = [op EXCEPT !["main"] =
                   Save("queue", IF up = 3 THEN "image" ELSE "")]
  /\ UNCHANGED <<file, audioVars, shared, recording, lifeVars, disturbed,
                 listHistory>>

UploadFails ==
  /\ Result /\ User
  /\ op' = [op EXCEPT !["main"] = Save("queue", "drop")]
  /\ UNCHANGED <<file, audioVars, memVars, lifeVars, disturbed, listHistory>>

\* The boo is published and deleted.
Published ==
  /\ Result /\ mem["queue"].up = 4
  /\ Deleted
  /\ mem' = [mem EXCEPT !["queue"] = NoData]
  /\ UNCHANGED <<now, shared, recording, op, running, created, saved, raced,
                 flatHistory, outdated, steps>>
-------------------------------------------------------------------------------
\* What is being recorded or flattened is written all the time.
Tick ==
  LET written == {recording} \cup {op[t].target : t \in {u \in Threads : op[u].pc = "flatten"}}
  IN /\ now < MaxTime /\ now' = now + 1
     /\ files' = [i \in DOMAIN files |->
                    IF i \in written /\ files[i].there
                    THEN [files[i] EXCEPT !.time = now + 1] ELSE files[i]]
     /\ UNCHANGED <<file, memVars, op, running, lifeVars, raced,
                    flatHistory, listHistory, steps>>

\* The process dies, of itself or not.  A recording ends where it is.
Die ==
  /\ running
  /\ \/ \E t \in Threads : op[t].pc = "fatal" /\ UNCHANGED steps
     \/ steps < MaxSteps /\ steps' = steps + 1
  /\ running' = FALSE
  /\ op' = [t \in Threads |-> Idle]
  /\ mem' = [h \in Holders |-> NoData] /\ shared' = {} /\ recording' = 0
  /\ raced' = (raced \/ Others("", {"write"}) # {})
  /\ disturbed' = (disturbed \/ Flattening)
  /\ UNCHANGED <<file, audioVars, lifeVars, stale, listHistory>>

\* It is started again: BooManager's constructor builds the index.
Start ==
  /\ ~running /\ running' = TRUE
  /\ op' = [op EXCEPT !["main"] = Open("filter")]
  /\ UNCHANGED <<file, audioVars, memVars, lifeVars, raced, flatHistory,
                 listHistory, steps>>

ThreadStep(t) == BeginRead(t) \/ EndRead(t) \/ DeleteTorn(t) \/ BeginWrite(t)
                   \/ CannotWrite(t) \/ EndWrite(t) \/ EndFlatten(t)
UserStep == Create \/ ClickDraft \/ Record \/ StopRecording \/ SaveDraft
              \/ Submit \/ DeleteDraft \/ Restart \/ Leave \/ Refresh \/ Redraw
UploadStep == FindUpload \/ StartUpload \/ StartImage("main")
                \/ StartImage("queue") \/ Progress \/ UploadFails \/ Published
Next == (\E t \in Threads : ThreadStep(t)) \/ UserStep \/ UploadStep \/ Play
          \/ Tick \/ Die \/ Start

Spec == Init /\ [][Next]_vars

(***************************************************************************)
(* Properties.                                                             *)
(***************************************************************************)
TypeOK ==
  /\ file.no \in Nat /\ file.data \in Contents
  /\ files \in Seq(Audio) /\ now \in 1..MaxTime
  /\ mem \in [Holders -> Datas \cup {NoData}]
  /\ \A h \in Holders : mem[h].recs \cup {mem[h].flat} \subseteq 0..Len(files)
  /\ op \in [Threads -> Ops] /\ \A t \in Threads : op[t].target <= Len(files)
  /\ recording \in 0..Len(files)
  /\ {running, created, saved, gone, raced, disturbed, outdated, overtaken,
      stale} \subseteq BOOLEAN
  /\ shared \subseteq {"given", "player"}
  /\ \A h \in shared : mem[h] = mem["ui"]

\* A boo that was saved is on disk, and whole but while it is being written,
\* until it is deleted on purpose - unless a save once overlapped with another
\* access to the file or was cut short, or an access failed
\* (Boo.java:186-189 and 238-240).  So a boo that is in the list of uploads but
\* not on disk has been uploaded (BooListAdapter.java:243), with these
\* exceptions.
LostOnlyByRace ==
  saved /\ ~gone /\ ~raced =>
    \/ file.data \in Datas
    \/ file.data = Torn /\ \E t \in Threads : op[t].pc = "write"

\* What was deleted stays deleted - the threads and lists keep objects of it that
\* they could save (Boo.delete) - unless another thread was at work on the boo,
\* or about to be, when an activity with the boo was opened or left, or when it
\* was deleted; or a draft was clicked in a list that an activity left with
\* RESULT_CANCELED had not refreshed (MyBoosActivity.java:172-174).
DeletedStaysDeleted == gone /\ ~overtaken => file.data = NoData

\* flattenAudio() takes a flattened file for complete only if it has every
\* recording, although it compares times of files only and a number may be used
\* again - unless once a recording or another call overlapped with a flattening,
\* or one was cut short by the death of the process or left recordings out.
FlattenedWhole == stale => disturbed

\* The recordings of a boo stay until it is deleted: flattenAudio() deletes the
\* previously flattened file only (Boo.java:434-436), although that and the
\* recordings are numbered together - with the same exceptions.
RecordingsStay ==
  ~gone /\ ~disturbed =>
    \A h \in Holders : \A r \in mem[h].recs :
      r # mem[h].flat /\ files[r].there /\ files[r].recs = {r}
===============================================================================
