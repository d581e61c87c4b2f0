---------------------------- MODULE BooFileProofs -----------------------------
(***************************************************************************)
(* Proofs about BooFile, for any number of recordings, flattened files,    *)
(* steps of the user and deaths of the process.                            *)
(***************************************************************************)
EXTENDS BooFile, SequenceTheorems, TLAPS

USE BooFileAssumption DEF BooFileAssumption

Object == Datas \cup {NoData}

\* The data d refers to no file beyond the first f.
FitsIn(d, f) == d.flat \in 0 .. f /\ d.recs \subseteq 1 .. f
Fits(d) == FitsIn(d, Len(files))

Reading == {"open", "read", "torn"}
Saving == {"save", "write"}

\* What thread t may be at: the activities read and save for the user, the main
\* thread saves what came of a result, and flattens what is queued for an image;
\* the player only flattens and saves.
Place(t, o) ==
  /\ o.pc = "idle" => o.whose = "ui" /\ o.why = ""
  /\ o.pc \in Reading =>
       /\ t # "player" /\ o.whose = "ui"
       /\ \/ o.why \in {"filter", "index"}
          \/ t = "main" /\ o.why \in {"redraw", "record", "publish"}
  /\ o.pc \in Saving =>
       \/ t # "main" /\ o.whose = t /\ o.why = ""
       \/ t = "main" /\ o.whose = "ui" /\ o.why \in {"record", "publish", "leave"}
       \/ t = "main" /\ o.whose = "queue" /\ o.why \in {"", "drop", "image"}
  /\ o.pc = "flatten" =>
       /\ o.why = "" /\ o.target # 0
       /\ o.whose = IF t = "main" THEN "queue" ELSE t
  /\ o.pc = "image" => t = "main" /\ o.whose = "queue" /\ o.why = ""
  /\ o.pc = "leave" => t = "main" /\ o.whose = "ui" /\ o.why \in {"", "canceled"}
  /\ o.pc = "fatal" /\ t = "main" => o.whose \in {"ui", "queue"} /\ o.why = ""

FileFits == file \in [no : Nat, data : Contents] /\ Fits(file.data)

Clocks == files \in Seq(Audio) /\ now \in 1 .. MaxTime

ObjectsFit ==
  mem \in [Holders -> Object] /\ \A h \in Holders : Fits(mem[h])

Sharing ==
  /\ shared \subseteq {"given", "player"}
  /\ \A h \in shared : mem[h] = mem["ui"]
  /\ shared # {} => mem["ui"] # NoData

OpsFit ==
  /\ op \in [Threads -> Ops]
  /\ \A t \in Threads : Fits(op[t].data) /\ op[t].target <= Len(files)

Flags ==
  /\ running \in BOOLEAN /\ created \in BOOLEAN
  /\ saved \in BOOLEAN /\ gone \in BOOLEAN /\ raced \in BOOLEAN
  /\ disturbed \in BOOLEAN /\ outdated \in BOOLEAN /\ overtaken \in BOOLEAN
  /\ stale \in BOOLEAN

\* The lock: the queue thread is at nothing while the main thread deals with
\* what came of a result.
Control ==
  /\ \A t \in Threads : Place(t, op[t])
  /\ op["main"].whose = "queue" => op["queue"].pc = "idle"

\* Whoever flattens or saves an object has one, and so has who records.
Held ==
  /\ \A t \in Threads : op[t].pc \in Saving \cup {"flatten"} =>
       mem[op[t].whose] # NoData
  /\ recording \in 0 .. Len(files)
  /\ recording # 0 => /\ mem["ui"] # NoData
                      /\ op["main"].pc = "idle" \/ op["main"].whose = "queue"

TypeInv ==
  /\ FileFits /\ Clocks /\ ObjectsFit /\ Sharing /\ OpsFit /\ Flags /\ Control
  /\ Held

Down ==
  ~running => /\ \A t \in Threads : op[t] = Idle
              /\ \A h \in Holders : mem[h] = NoData
              /\ shared = {} /\ recording = 0
-------------------------------------------------------------------------------
(* The operators.                                                          *)

LEMMA IdleFields ==
  /\ Idle \in Ops /\ \A t : Place(t, Idle)
  /\ Idle.pc = "idle" /\ Idle.why = "" /\ Idle.whose = "ui" /\ Idle.target = 0
  /\ Idle.data = NoData
  BY DEF Idle, Ops, Place, Contents, Holders, Reading, Saving

LEMMA EndFields ==
  ASSUME NEW pc \in {"leave", "fatal"}
  PROVE  LET o == [Idle EXCEPT !.pc = pc]
         IN o \in Ops /\ o.pc = pc /\ o.why = "" /\ o.whose = "ui"
            /\ o.data = NoData /\ o.target = 0
  BY DEF Idle, Ops, Contents, Holders

LEMMA ImageFields ==
  LET o == [Idle EXCEPT !.pc = "image", !.whose = "queue"]
  IN o \in Ops /\ o.pc = "image" /\ o.why = "" /\ o.whose = "queue"
     /\ o.data = NoData /\ o.target = 0 /\ Place("main", o)
<1> DEFINE o == [Idle EXCEPT !.pc = "image", !.whose = "queue"]
<1>1. o \in Ops /\ o.pc = "image" /\ o.why = "" /\ o.whose = "queue"
      /\ o.data = NoData /\ o.target = 0
  BY DEF Idle, Ops, Contents, Holders
<1> HIDE DEF o
<1>2. Place("main", o)
  BY <1>1 DEF Place, Reading, Saving
<1> QED  BY <1>1, <1>2 DEF o

LEMMA OpenFields ==
  ASSUME NEW why \in {"redraw", "filter", "index", "record", "publish"}
  PROVE  /\ Open(why) \in Ops
         /\ Open(why).pc = "open" /\ Open(why).why = why
         /\ Open(why).whose = "ui" /\ Open(why).target = 0
         /\ Open(why).data = NoData
         /\ Place("main", Open(why))
         /\ why \in {"filter", "index"} => Place("queue", Open(why))
<1>1. /\ Open(why) \in Ops
      /\ Open(why).pc = "open" /\ Open(why).why = why
      /\ Open(why).whose = "ui" /\ Open(why).target = 0
      /\ Open(why).data = NoData
  BY DEF Open, Idle, Ops, Contents, Holders
<1> QED  BY <1>1 DEF Place, Reading, Saving

LEMMA SaveFields ==
  ASSUME NEW whose \in {"ui", "queue"},
         NEW why \in IF whose = "ui" THEN {"record", "publish", "leave"}
                     ELSE {"drop", "", "image"}
  PROVE  /\ Save(whose, why) \in Ops
         /\ Save(whose, why).pc = "save" /\ Save(whose, why).why = why
         /\ Save(whose, why).whose = whose /\ Save(whose, why).target = 0
         /\ Save(whose, why).data = NoData
         /\ Place("main", Save(whose, why))
<1>1. /\ Save(whose, why) \in Ops
      /\ Save(whose, why).pc = "save" /\ Save(whose, why).why = why
      /\ Save(whose, why).whose = whose /\ Save(whose, why).target = 0
      /\ Save(whose, why).data = NoData
  BY DEF Save, Idle, Ops, Contents, Holders
<1> QED  BY <1>1 DEF Place, Reading, Saving

LEMMA NatBounds ==
  ASSUME NEW n \in Nat
  PROVE  0 <= n /\ 0 \in 0 .. n
  OBVIOUS

LEMMA NothingFits ==
  ASSUME NEW f \in Nat
  PROVE  /\ NoData \in Object /\ NoData \in Contents /\ FitsIn(NoData, f)
         /\ Torn \in Contents /\ FitsIn(Torn, f) /\ Torn \notin Object
         /\ NoData.up = -1 /\ Torn.up = -2 /\ NoData # Torn
  BY DEF NoData, Torn, Object, Contents, FitsIn, Datas

LEMMA FitsGrows ==
  ASSUME NEW d, NEW f \in Nat, NEW f2 \in Nat, FitsIn(d, f), f <= f2
  PROVE  FitsIn(d, f2)
  BY DEF FitsIn

LEMMA ObjectContents ==
  /\ Object \subseteq Contents /\ Contents = Object \cup {Torn}
  /\ \A d \in Object : d # NoData <=> d \in Datas
<1>1. NoData \notin Datas
  BY DEF Datas, NoData
<1> QED  BY <1>1 DEF Object, Contents

LEMMA DataFields ==
  ASSUME NEW d \in Contents
  PROVE  /\ d.recs \in SUBSET Nat /\ d.flat \in Nat /\ d.up \in -2 .. 4
         /\ d.up >= 0 => d \in Datas
         /\ d \in Datas <=> d # NoData /\ d # Torn
  BY DEF Contents, Datas, NoData, Torn

LEMMA DataExcept ==
  ASSUME NEW d \in Datas
  PROVE  /\ \A n \in Nat : LET e == [d EXCEPT !.flat = n]
            IN e \in Datas /\ e.flat = n /\ e.recs = d.recs /\ e.up = d.up
         /\ \A n \in 0 .. 4 : LET e == [d EXCEPT !.up = n]
            IN e \in Datas /\ e.up = n /\ e.recs = d.recs /\ e.flat = d.flat
         /\ \A s \in SUBSET Nat : LET e == [d EXCEPT !.recs = s]
            IN e \in Datas /\ e.recs = s /\ e.up = d.up /\ e.flat = d.flat
  BY DEF Datas

LEMMA StoreValues ==
  ASSUME NEW m \in [Holders -> Object], NEW sharing \in SUBSET {"given", "player"},
         NEW h \in Holders, NEW d \in Object
  PROVE  /\ Store(m, sharing, h, d) \in [Holders -> Object]
         /\ Store(m, sharing, h, d)[h] = d
         /\ \A x \in Holders : Store(m, sharing, h, d)[x] = d
                              \/ Store(m, sharing, h, d)[x] = m[x]
         /\ \A x \in Holders \ {h} :
              ~(h \in sharing \cup {"ui"} /\ x \in sharing \cup {"ui"}) =>
                Store(m, sharing, h, d)[x] = m[x]
         /\ h \in sharing \cup {"ui"} =>
              \A x \in sharing \cup {"ui"} : Store(m, sharing, h, d)[x] = d
  BY DEF Store, Holders

\* A file that is put in among the others.
LEMMA WithFileValues ==
  ASSUME NEW fs \in Seq(Audio), NEW n \in 1 .. Len(fs) + 1, NEW f \in Audio
  PROVE  /\ WithFile(fs, n, f) \in Seq(Audio)
         /\ Len(WithFile(fs, n, f)) >= Len(fs) /\ n <= Len(WithFile(fs, n, f))
         /\ WithFile(fs, n, f)[n] = f
         /\ \A i \in 1 .. Len(fs) : i # n => WithFile(fs, n, f)[i] = fs[i]
<1>1. CASE n > Len(fs)
  <2>1. WithFile(fs, n, f) = Append(fs, f) /\ n = Len(fs) + 1
    BY <1>1 DEF WithFile
  <2> QED  BY <2>1
<1>2. CASE ~(n > Len(fs))
  <2>1. WithFile(fs, n, f) = [fs EXCEPT ![n] = f] /\ n \in 1 .. Len(fs)
    BY <1>2 DEF WithFile
  <2>2. [fs EXCEPT ![n] = f] \in Seq(Audio) /\ Len([fs EXCEPT ![n] = f]) = Len(fs)
    BY <2>1, ExceptSeq
  <2> QED  BY <2>1, <2>2
<1> QED  BY <1>1, <1>2

\* Some files are replaced.
LEMMA FilesReplaced ==
  ASSUME NEW fs \in Seq(Audio), NEW g,
         g = [i \in DOMAIN fs |-> g[i]], \A i \in 1 .. Len(fs) : g[i] \in Audio
  PROVE  g \in Seq(Audio) /\ Len(g) = Len(fs)
<1>1. DOMAIN fs = 1 .. Len(fs) /\ Len(fs) \in Nat
  OBVIOUS
<1>2. g \in [1 .. Len(fs) -> Audio]
  BY <1>1, Zenon
<1> QED  BY <1>1, <1>2, SeqDef

LEMMA AudioFields ==
  /\ NoFile \in Audio /\ ~NoFile.there /\ NoFile.recs = {} /\ NoFile.time = 0
  /\ \A r \in SUBSET Nat, n \in Nat, b \in BOOLEAN :
       [recs |-> r, time |-> n, there |-> b] \in Audio
  /\ \A f \in Audio : \A n \in Nat :
       /\ [f EXCEPT !.time = n] \in Audio /\ [f EXCEPT !.time = n].time = n
       /\ [f EXCEPT !.time = n].recs = f.recs /\ [f EXCEPT !.time = n].there = f.there
  BY DEF NoFile, Audio
-------------------------------------------------------------------------------
(* The type.                                                               *)

LEMMA Typed0 == Init => TypeInv
<1> SUFFICES ASSUME Init PROVE TypeInv
  OBVIOUS
<1> USE DEF Init
<1>1. FileFits
  BY NothingFits DEF FileFits, Fits, FitsIn, NoData
<1>2. Clocks
  BY DEF Clocks
<1>3. ObjectsFit
  BY NothingFits DEF ObjectsFit, Fits, FitsIn, NoData
<1>4. OpsFit
  <2>1. \A t \in Threads : op[t] = Idle
    OBVIOUS
  <2>2. Fits(NoData)
    BY NothingFits DEF Fits
  <2>3. op \in [Threads -> Ops]
    BY IdleFields
  <2>4. Len(files) = 0
    OBVIOUS
  <2> HIDE DEF Init
  <2>5. \A t \in Threads : op[t].data = NoData /\ op[t].target = 0
    BY <2>1, IdleFields
  <2> QED  BY <2>2, <2>3, <2>4, <2>5 DEF OpsFit
<1>5. Sharing /\ Flags
  BY DEF Sharing, Flags
<1>6. Control /\ Held
  <2>1. \A t \in Threads : op[t] = Idle
    OBVIOUS
  <2>2. recording = 0 /\ Len(files) = 0
    OBVIOUS
  <2> HIDE DEF Init
  <2>3. Control
    BY <2>1, IdleFields DEF Control, Threads
  <2>4. \A t \in Threads : op[t].pc = "idle"
    BY <2>1, IdleFields
  <2> QED  BY <2>2, <2>3, <2>4 DEF Held, Saving
<1> QED  BY <1>1, <1>2, <1>3, <1>4, <1>5, <1>6 DEF TypeInv

\* A step of thread t alone, which is at o afterwards.
Moves(t, o) == op' = [op EXCEPT ![t] = o]

\* Files are not forgotten.
Grows == Len(files') >= Len(files) /\ Clocks'

LEMMA Moved ==
  ASSUME OpsFit, NEW t \in Threads, NEW o \in Ops, Moves(t, o)
  PROVE  /\ op' \in [Threads -> Ops] /\ op'[t] = o
         /\ \A u \in Threads \ {t} : op'[u] = op[u]
  BY DEF Moves, OpsFit

LEMMA StillFits ==
  ASSUME Clocks, Grows, NEW d, Fits(d)
  PROVE  FitsIn(d, Len(files'))
<1>1. Len(files) \in Nat /\ Len(files') \in Nat
  BY DEF Clocks, Grows
<1> QED  BY <1>1, FitsGrows DEF Grows, Fits

\* The lock, as thread t moves to o.
Locks(t, o) ==
  /\ t = "main" /\ o.whose = "queue" => op["queue"].pc = "idle"
  /\ t = "queue" => op["main"].whose # "queue"

\* An object that another thread may be at work on stays.
Keeps(t) ==
  \A h \in {"ui", "player", "queue"} :
    mem[h] # NoData =>
      \/ mem'[h] # NoData \/ h = t
      \/ h = "queue" /\ t = "main" /\ op["queue"].pc = "idle"
      \/ h = "ui" /\ t = "main"

RecordingHeld ==
  /\ recording' \in 0 .. Len(files')
  /\ recording' # 0 => /\ mem'["ui"] # NoData
                       /\ op'["main"].pc = "idle" \/ op'["main"].whose = "queue"

\* A step of thread t.
LEMMA StepTyped ==
  ASSUME TypeInv, NEW t \in Threads, NEW o \in Ops, Moves(t, o), Place(t, o),
         Locks(t, o), Grows, FitsIn(o.data, Len(files')), o.target <= Len(files'),
         FileFits', ObjectsFit', Sharing', Flags', Keeps(t), RecordingHeld,
         o.pc \in Saving \cup {"flatten"} => mem'[o.whose] # NoData
  PROVE  TypeInv'
<1>1. op' \in [Threads -> Ops] /\ op'[t] = o
      /\ \A u \in Threads \ {t} : op'[u] = op[u]
  BY Moved DEF TypeInv
<1>2. OpsFit'
  <2>1. \A u \in Threads : FitsIn(op[u].data, Len(files'))
    BY StillFits DEF TypeInv, OpsFit
  <2>2. \A u \in Threads : op[u].target \in Nat /\ op[u].target <= Len(files)
    BY DEF TypeInv, OpsFit, Ops
  <2>3. Len(files) \in Nat /\ Len(files') \in Nat
    BY DEF TypeInv, Clocks, Grows
  <2>4. \A u \in Threads : op[u].target <= Len(files')
    BY <2>2, <2>3 DEF Grows
  <2> QED  BY <1>1, <2>1, <2>4 DEF OpsFit, Fits
<1>3. Control'
  <2>1. \A u \in Threads : Place(u, op'[u])
    BY <1>1 DEF TypeInv, Control
  <2>2. op'["main"].whose = "queue" => op'["queue"].pc = "idle"
    BY <1>1 DEF TypeInv, Control, Locks, Threads
  <2> QED  BY <2>1, <2>2 DEF Control
<1>4. ASSUME NEW u \in Threads, op'[u].pc \in Saving \cup {"flatten"}
      PROVE  mem'[op'[u].whose] # NoData
  <2>1. CASE u = t
    BY <1>1, <1>4, <2>1
  <2>2. CASE u # t
    <3>1. op'[u] = op[u] /\ mem[op[u].whose] # NoData
      BY <1>1, <1>4, <2>2 DEF TypeInv, Held
    <3>2. op[u].whose = u \/ (u = "main" /\ op[u].whose \in {"ui", "queue"})
      BY <1>4, <3>1 DEF TypeInv, Control, Place, Saving
    <3>3. u = "main" => op[u].whose \in {"ui", "queue"}
      BY <1>4, <3>1 DEF TypeInv, Control, Place, Saving
    <3>4. op[u].whose \in {"ui", "player", "queue"}
      BY <3>2, <3>3 DEF Threads
    <3>5. op[u].whose # t
      BY <2>2, <3>2, <3>3 DEF Locks, Threads
    <3>6. /\ ~(op[u].whose = "queue" /\ t = "main" /\ op["queue"].pc = "idle")
          /\ ~(op[u].whose = "ui" /\ t = "main")
      BY <1>4, <2>2, <3>1, <3>2 DEF Threads, Saving
    <3> QED  BY <3>1, <3>4, <3>5, <3>6 DEF Keeps
  <2> QED  BY <2>1, <2>2
<1> QED  BY <1>2, <1>3, <1>4 DEF TypeInv, Grows, Held, RecordingHeld

\* A step of no thread.
LEMMA StayTyped ==
  ASSUME TypeInv, op' = op, Grows, FileFits', ObjectsFit', Sharing', Flags',
         RecordingHeld,
         \A h \in {"ui", "player", "queue"} : mem[h] # NoData => mem'[h] # NoData
  PROVE  TypeInv'
<1>1. "player" \in Threads /\ op["player"] \in Ops /\ Moves("player", op["player"])
  BY DEF TypeInv, OpsFit, Moves, Threads
<1>2. Place("player", op["player"]) /\ Locks("player", op["player"]) /\ Keeps("player")
  BY <1>1 DEF TypeInv, Control, Locks, Keeps
<1>3. FitsIn(op["player"].data, Len(files'))
  BY <1>1, StillFits DEF TypeInv, OpsFit
<1>4. op["player"].target <= Len(files')
  <2>1. op["player"].target \in Nat /\ op["player"].target <= Len(files)
    BY <1>1 DEF TypeInv, OpsFit, Ops
  <2>2. Len(files) \in Nat /\ Len(files') \in Nat
    BY DEF TypeInv, Clocks, Grows
  <2> QED  BY <2>1, <2>2 DEF Grows
<1>5. op["player"].pc \in Saving \cup {"flatten"} => mem'[op["player"].whose] # NoData
  BY <1>1 DEF TypeInv, Held, Control, Place, Saving
<1> QED  BY <1>1, <1>2, <1>3, <1>4, <1>5, StepTyped

\* A step that leaves the files and the objects alone.
LEMMA QuietTyped ==
  ASSUME TypeInv, NEW t \in Threads, NEW o \in Ops, Moves(t, o), Place(t, o),
         Locks(t, o), FitsIn(o.data, Len(files)), o.target <= Len(files),
         FileFits', Flags', UNCHANGED <<files, now, mem, shared, recording>>,
         o.pc \in Saving \cup {"flatten"} => mem[o.whose] # NoData,
         recording # 0 /\ t = "main" => o.pc = "idle" \/ o.whose = "queue"
  PROVE  TypeInv'
<1>1. Grows /\ ObjectsFit' /\ Sharing' /\ Keeps(t)
  BY DEF Grows, Clocks, ObjectsFit, Sharing, Fits, TypeInv, Keeps
<1>2. op'[t] = o /\ \A u \in Threads \ {t} : op'[u] = op[u]
  BY Moved DEF TypeInv
<1>3. RecordingHeld
  BY <1>2 DEF RecordingHeld, TypeInv, Held, Threads
<1> QED  BY <1>1, <1>3, StepTyped
-------------------------------------------------------------------------------
(* The threads read, write and flatten.                                    *)

LEMMA OpTyped ==
  ASSUME TypeInv, NEW t \in Threads
  PROVE  /\ op[t] \in Ops /\ op[t].data \in Contents
         /\ FitsIn(op[t].data, Len(files)) /\ op[t].target \in Nat
         /\ op[t].target <= Len(files) /\ op[t].whose \in Holders
         /\ op[t].no \in Nat
         /\ op[t].pc # "idle" => (t = "queue" => op["main"].whose # "queue")
         /\ t = "main" /\ op[t].whose = "queue" => op["queue"].pc = "idle"
  BY DEF TypeInv, OpsFit, Ops, Fits, Control

LEMMA BeginReadTyped ==
  ASSUME TypeInv, NEW t \in Threads, BeginRead(t)
  PROVE  TypeInv'
<1> DEFINE o == [op[t] EXCEPT !.pc = "read", !.no = file.no, !.data = file.data]
<1>1. /\ Moves(t, o) /\ op[t].pc = "open"
      /\ UNCHANGED <<file, files, now, mem, shared, recording>>
  BY DEF BeginRead, At, TypeInv, OpsFit, Moves, audioVars, memVars
<1>2. Flags'
  BY DEF BeginRead, lifeVars, flatHistory, listHistory, TypeInv, Flags
<1>3. file.no \in Nat /\ file.data \in Contents /\ Fits(file.data)
  BY DEF TypeInv, FileFits
<1>4. /\ o \in Ops /\ o.whose = op[t].whose /\ o.pc = "read"
      /\ o.data = file.data /\ o.target = op[t].target /\ o.why = op[t].why
  BY <1>3, OpTyped DEF Ops
<1> HIDE DEF o
<1>5. Place(t, op[t])
  BY DEF TypeInv, Control
<1>6. Place(t, o) /\ Locks(t, o) /\ (t = "main" => recording = 0)
  BY <1>1, <1>4, <1>5, OpTyped DEF Place, Reading, Saving, Locks, TypeInv, Held
<1>7. FileFits'
  BY <1>1 DEF TypeInv, FileFits, Fits
<1> QED  BY <1>1, <1>2, <1>3, <1>4, <1>6, <1>7, OpTyped, QuietTyped DEF Fits, Saving

\* What is found is what was read, or what is there by now.
LEMMA FoundValues ==
  ASSUME TypeInv, NEW t \in Threads, NEW d \in Found(op[t]), d # Torn
  PROVE  d \in Object /\ Fits(d) /\ (d = op[t].data \/ d = file.data)
<1>1. d = op[t].data \/ d = file.data
  BY DEF Found
<1>2. op[t].data \in Contents /\ file.data \in Contents
  BY DEF TypeInv, OpsFit, FileFits, Ops
<1>3. Fits(op[t].data) /\ Fits(file.data)
  BY DEF TypeInv, OpsFit, FileFits
<1> QED  BY <1>1, <1>2, <1>3, ObjectContents

\* Where thread t is after it has loaded d, or has found nothing.
AfterLoad(t, d) ==
  IF op[t].why = "filter" /\ d # NoData THEN Open("index")
  ELSE IF op[t].why \in {"record", "publish"} /\ d = NoData
  THEN [Idle EXCEPT !.pc = "fatal"] ELSE Idle

LEMMA AfterLoadFields ==
  ASSUME TypeInv, NEW t \in Threads, op[t].pc \in {"read", "torn"}, NEW d
  PROVE  LET o == AfterLoad(t, d)
         IN /\ o \in Ops /\ o.pc \in {"open", "fatal", "idle"} /\ o.whose = "ui"
            /\ o.data = NoData /\ o.target = 0 /\ Place(t, o) /\ Locks(t, o)
            /\ t # "player" /\ op[t].whose = "ui"
            /\ t # "main" => op[t].why \in {"filter", "index"}
            /\ o = Idle <=> o.pc = "idle"
<1> DEFINE why == op[t].why
           o == AfterLoad(t, d)
<1>1. /\ \/ why \in {"filter", "index"}
         \/ t = "main" /\ why \in {"redraw", "record", "publish"}
      /\ t # "player" /\ op[t].whose = "ui"
  BY DEF TypeInv, Control, Place, Reading
<1>2. /\ o \in Ops /\ o.pc \in {"open", "fatal", "idle"} /\ o.whose = "ui"
      /\ o.data = NoData /\ o.target = 0 /\ Place(t, o) /\ (o = Idle <=> o.pc = "idle")
  <2>1. CASE why = "filter" /\ d # NoData
    BY <2>1, <1>1, OpenFields, IdleFields DEF Threads, AfterLoad
  <2>2. CASE why \in {"record", "publish"} /\ d = NoData
    <3> DEFINE p == [Idle EXCEPT !.pc = "fatal"]
    <3>1. p \in Ops /\ p.pc = "fatal" /\ p.why = "" /\ p.whose = "ui"
          /\ p.data = NoData /\ p.target = 0
      BY EndFields
    <3>2. o = p
      BY <2>2 DEF AfterLoad
    <3> HIDE DEF p, o
    <3> QED  BY <3>1, <3>2, IdleFields DEF Place, Reading, Saving
  <2>3. CASE ~(why = "filter" /\ d # NoData) /\ ~(why \in {"record", "publish"} /\ d = NoData)
    BY <2>3, IdleFields DEF AfterLoad
  <2> QED  BY <2>1, <2>2, <2>3
<1>3. Locks(t, o)
  BY <1>1, <1>2, OpTyped DEF Locks
<1> QED  BY <1>1, <1>2, <1>3

\* What a load does to the objects.
LEMMA LoadedMem ==
  ASSUME TypeInv, NEW t \in Threads, op[t].pc \in {"read", "torn"},
         NEW d \in Object, Loaded(t, d)
  PROVE  /\ Moves(t, AfterLoad(t, d)) /\ recording' = recording
         /\ mem' \in [Holders -> Object] /\ Sharing'
         /\ overtaken' \in BOOLEAN /\ outdated' \in BOOLEAN
         /\ \A h \in Holders : mem'[h] \in {d, mem[h], NoData}
         /\ mem["ui"] # NoData => mem'["ui"] # NoData
         /\ mem'["player"] = mem["player"]
         /\ t # "queue" => mem'["queue"] = mem["queue"]
<1> DEFINE why == op[t].why
           opens == why \in {"record", "publish"} /\ d # NoData
<1>1. Moves(t, AfterLoad(t, d)) /\ recording' = recording
  BY DEF Loaded, AfterLoad, Moves
<1>2. mem \in [Holders -> Object] /\ NoData \in Object
      /\ "ui" \in Holders /\ "given" \in Holders /\ "player" \in Holders
      /\ "queue" \in Holders /\ "index" \in Holders
  BY DEF TypeInv, ObjectsFit, Object, Holders
<1>3. CASE opens
  <2>1. /\ \/ mem' = [mem EXCEPT !["ui"] = d, !["given"] = d] /\ shared' = {"given"}
           \/ mem' = [mem EXCEPT !["ui"] = d, !["given"] = mem["given"]] /\ shared' = {}
        /\ overtaken' \in BOOLEAN /\ outdated' = outdated
    BY <1>3 DEF Loaded
  <2>2. \/ mem' = [mem EXCEPT !["ui"] = d, !["given"] = d] /\ shared' = {"given"}
        \/ mem' = [mem EXCEPT !["ui"] = d] /\ shared' = {}
    BY <1>2, <2>1
  <2>3. mem' \in [Holders -> Object] /\ \A h \in Holders : mem'[h] \in {d, mem[h]}
    BY <1>2, <2>2
  <2>4. Sharing' /\ mem'["ui"] # NoData /\ mem'["player"] = mem["player"]
        /\ mem'["queue"] = mem["queue"]
    BY <1>2, <1>3, <2>2 DEF Sharing
  <2> QED  BY <1>1, <2>1, <2>3, <2>4 DEF TypeInv, Flags
<1>4. CASE ~opens
  <2>1. shared' = shared /\ overtaken' = overtaken
        /\ (outdated' = FALSE \/ outdated' = outdated)
    BY <1>4 DEF Loaded
  <2>2. \/ mem' = mem
        \/ mem' = [mem EXCEPT !["index"] = d, !["queue"] = mem["queue"]] /\ t # "queue"
        \/ /\ t = "queue"
           /\ \E q \in {d, NoData} :
                mem' = [mem EXCEPT !["index"] = d, !["queue"] = q]
    BY <1>4, Zenon DEF Loaded
  <2>3. \/ mem' = mem
        \/ mem' = [mem EXCEPT !["index"] = d]
        \/ /\ t = "queue"
           /\ \E q \in {d, NoData} :
                mem' = [mem EXCEPT !["index"] = d, !["queue"] = q]
    BY <1>2, <2>2
  <2>4. mem' \in [Holders -> Object]
        /\ \A h \in Holders : mem'[h] \in {d, mem[h], NoData}
    BY <1>2, <2>3
  <2>5. /\ \A h \in Holders \ {"index", "queue"} : mem'[h] = mem[h]
        /\ t # "queue" => mem'["queue"] = mem["queue"]
    BY <1>2, <2>3
  <2>6. Sharing'
    BY <1>2, <2>1, <2>5 DEF Sharing, TypeInv, Holders
  <2> QED  BY <1>1, <1>2, <2>1, <2>4, <2>5, <2>6 DEF TypeInv, Flags
<1> QED  BY <1>3, <1>4

LEMMA LoadedTyped ==
  ASSUME TypeInv, NEW t \in Threads, op[t].pc \in {"read", "torn"},
         NEW d \in Object, Fits(d), Loaded(t, d), FileFits',
         UNCHANGED <<files, now, running, lifeVars, disturbed, stale>>,
         raced' \in BOOLEAN
  PROVE  TypeInv'
<1> DEFINE o == AfterLoad(t, d)
<1>1. /\ Moves(t, o) /\ recording' = recording
      /\ mem' \in [Holders -> Object] /\ Sharing'
      /\ overtaken' \in BOOLEAN /\ outdated' \in BOOLEAN
      /\ \A h \in Holders : mem'[h] \in {d, mem[h], NoData}
      /\ mem["ui"] # NoData => mem'["ui"] # NoData
      /\ mem'["player"] = mem["player"]
      /\ t # "queue" => mem'["queue"] = mem["queue"]
  BY LoadedMem
<1>2. /\ o \in Ops /\ o.pc \in {"open", "fatal", "idle"} /\ o.whose = "ui"
      /\ o.data = NoData /\ o.target = 0 /\ Place(t, o) /\ Locks(t, o)
      /\ t # "player" /\ op[t].whose = "ui"
  BY AfterLoadFields
<1> HIDE DEF o
<1>3. Len(files) \in Nat /\ FitsIn(NoData, Len(files))
  BY NothingFits DEF TypeInv, Clocks
<1>4. Grows /\ ObjectsFit' /\ Flags'
  BY <1>1, <1>3 DEF Grows, Clocks, ObjectsFit, Fits, TypeInv, Flags, lifeVars
<1>5. Keeps(t)
  BY <1>1 DEF Keeps
<1>6. t = "main" => recording = 0
  BY <1>2 DEF TypeInv, Held
<1>7. op'["main"] = IF t = "main" THEN o ELSE op["main"]
  BY <1>1, <1>2, Moved DEF TypeInv, Threads
<1>8. RecordingHeld
  BY <1>1, <1>6, <1>7 DEF RecordingHeld, TypeInv, Held
<1>9. FitsIn(o.data, Len(files')) /\ o.target <= Len(files')
  BY <1>2, <1>3
<1> QED  BY <1>1, <1>2, <1>4, <1>5, <1>8, <1>9, StepTyped DEF Saving

LEMMA EndReadTyped ==
  ASSUME TypeInv, NEW t \in Threads, EndRead(t)
  PROVE  TypeInv'
<1>1. /\ op[t].pc = "read"
      /\ UNCHANGED <<file, files, now, running, lifeVars, disturbed, stale>>
  BY DEF EndRead, At, audioVars, flatHistory
<1>2. FileFits'
  BY <1>1 DEF TypeInv, FileFits, Fits
<1>3. CASE \E d \in Found(op[t]) \ {Torn} : Loaded(t, d) /\ UNCHANGED raced
  <2>1. PICK d \in Found(op[t]) : d # Torn /\ Loaded(t, d) /\ raced' = raced
    BY <1>3
  <2>2. d \in Object /\ Fits(d) /\ raced' \in BOOLEAN
    BY <2>1, FoundValues DEF TypeInv, Flags
  <2> QED  BY <1>1, <1>2, <2>1, <2>2, LoadedTyped
<1>4. CASE /\ op' = [op EXCEPT ![t].pc = "torn"]
           /\ raced' = (raced \/ Torn \notin Found(op[t]))
           /\ UNCHANGED <<memVars, listHistory>>
  <2> DEFINE o == [op[t] EXCEPT !.pc = "torn"]
  <2>1. Moves(t, o) /\ UNCHANGED <<mem, shared, recording>> /\ Flags'
    BY <1>1, <1>4 DEF Moves, memVars, listHistory, lifeVars, TypeInv, Flags
  <2>2. /\ o \in Ops /\ o.whose = op[t].whose /\ o.pc = "torn"
        /\ o.data = op[t].data /\ o.target = op[t].target /\ o.why = op[t].why
    BY OpTyped DEF Ops
  <2> HIDE DEF o
  <2>3. Place(t, op[t])
    BY DEF TypeInv, Control
  <2>4. Place(t, o) /\ Locks(t, o) /\ (t = "main" => recording = 0)
    BY <1>1, <2>2, <2>3, OpTyped DEF Place, Reading, Saving, Locks, TypeInv, Held
  <2> QED  BY <1>1, <1>2, <2>1, <2>2, <2>4, OpTyped, QuietTyped DEF Saving
<1> QED  BY <1>3, <1>4 DEF EndRead

LEMMA DeleteTornTyped ==
  ASSUME TypeInv, NEW t \in Threads, DeleteTorn(t)
  PROVE  TypeInv'
<1>1. /\ op[t].pc = "torn" /\ Loaded(t, NoData) /\ raced' \in BOOLEAN
      /\ UNCHANGED <<files, now, running, lifeVars, disturbed, stale>>
      /\ file' = [file EXCEPT !.data = NoData]
  BY DEF DeleteTorn, At, audioVars, flatHistory, TypeInv, Flags
<1>2. NoData \in Object /\ NoData \in Contents /\ Fits(NoData)
  BY NothingFits DEF TypeInv, Clocks, Fits
<1>3. file' \in [no : Nat, data : Contents] /\ file'.data = NoData
  BY <1>1, <1>2 DEF TypeInv, FileFits
<1>4. FileFits'
  BY <1>1, <1>2, <1>3 DEF FileFits, Fits
<1> QED  BY <1>1, <1>2, <1>4, LoadedTyped

LEMMA BeginWriteTyped ==
  ASSUME TypeInv, NEW t \in Threads, BeginWrite(t)
  PROVE  TypeInv'
<1> DEFINE no == IF file.data # NoData THEN file.no ELSE file.no + 1
           o == [op[t] EXCEPT !.pc = "write", !.no = no]
<1>1. /\ Moves(t, o) /\ op[t].pc = "save" /\ file' = [no |-> no, data |-> Torn]
      /\ UNCHANGED <<files, now, mem, shared, recording>>
  BY DEF BeginWrite, At, TypeInv, OpsFit, Moves, audioVars, memVars
<1>2. Flags'
  BY DEF BeginWrite, lifeVars, flatHistory, listHistory, TypeInv, Flags
<1>3. no \in Nat /\ Fits(Torn) /\ Torn \in Contents
  BY NothingFits DEF TypeInv, FileFits, Clocks, Fits
<1>4. FileFits'
  BY <1>1, <1>3 DEF FileFits, Fits
<1> HIDE DEF no
<1>5. /\ o \in Ops /\ o.whose = op[t].whose /\ o.pc = "write"
      /\ o.data = op[t].data /\ o.target = op[t].target /\ o.why = op[t].why
  BY <1>3, OpTyped DEF Ops
<1> HIDE DEF o
<1>6. Place(t, op[t])
  BY DEF TypeInv, Control
<1>7. Place(t, o) /\ Locks(t, o)
  BY <1>1, <1>5, <1>6, OpTyped DEF Place, Reading, Saving, Locks
<1>8. mem[o.whose] # NoData
  BY <1>1, <1>5 DEF TypeInv, Held, Saving
<1>9. recording # 0 /\ t = "main" => o.whose = "queue"
  BY <1>1, <1>5 DEF TypeInv, Held
<1> QED  BY <1>1, <1>2, <1>4, <1>5, <1>7, <1>8, <1>9, OpTyped, QuietTyped

\* Where thread t is after it has saved.
Saved(t) ==
  IF op[t].why \in {"record", "publish"} THEN Open(op[t].why)
  ELSE IF op[t].why = "leave" THEN [Idle EXCEPT !.pc = "leave"]
  ELSE IF op[t].why = "image"
  THEN [Idle EXCEPT !.pc = "image", !.whose = op[t].whose] ELSE Idle

LEMMA SavedFields ==
  ASSUME TypeInv, NEW t \in Threads, op[t].pc \in Saving
  PROVE  LET o == Saved(t)
         IN /\ o \in Ops /\ o.pc \in {"open", "leave", "image", "idle"}
            /\ o.data = NoData /\ o.target = 0 /\ Place(t, o) /\ Locks(t, o)
            /\ op[t].whose = "ui" \/ o.pc = "idle" \/ o.whose = "queue"
            /\ \/ t # "main" /\ op[t].whose = t /\ op[t].why = "" /\ o = Idle
               \/ t = "main" /\ op[t].whose = "ui"
                  /\ op[t].why \in {"record", "publish", "leave"}
               \/ t = "main" /\ op[t].whose = "queue"
                  /\ op[t].why \in {"", "drop", "image"} /\ op["queue"].pc = "idle"
<1> DEFINE o == Saved(t)
<1>1. \/ t # "main" /\ op[t].whose = t /\ op[t].why = ""
      \/ t = "main" /\ op[t].whose = "ui"
         /\ op[t].why \in {"record", "publish", "leave"}
      \/ t = "main" /\ op[t].whose = "queue"
         /\ op[t].why \in {"", "drop", "image"} /\ op["queue"].pc = "idle"
  BY DEF TypeInv, Control, Place, Saving
<1>2. t = "queue" => op["main"].whose # "queue"
  BY OpTyped DEF Saving
<1>3. CASE op[t].why \in {"record", "publish"}
  <2>1. o = Open(op[t].why) /\ t = "main" /\ op[t].whose = "ui"
    BY <1>1, <1>3 DEF Saved
  <2> HIDE DEF o
  <2> QED  BY <1>1, <1>3, <2>1, OpenFields DEF Locks, o
<1>4. CASE op[t].why = "leave"
  <2> DEFINE p == [Idle EXCEPT !.pc = "leave"]
  <2>1. o = p /\ t = "main" /\ op[t].whose = "ui"
    BY <1>1, <1>4 DEF Saved
  <2>2. p \in Ops /\ p.pc = "leave" /\ p.why = "" /\ p.whose = "ui"
        /\ p.data = NoData /\ p.target = 0
    BY EndFields
  <2> HIDE DEF o, p
  <2>3. Place(t, p) /\ Locks(t, p)
    BY <2>1, <2>2 DEF Place, Reading, Saving, Locks
  <2> QED  BY <1>1, <1>4, <2>1, <2>2, <2>3 DEF o
<1>5. CASE op[t].why = "image"
  <2> DEFINE p == [Idle EXCEPT !.pc = "image", !.whose = "queue"]
  <2>1. o = p /\ t = "main" /\ op[t].whose = "queue"
    BY <1>1, <1>5 DEF Saved
  <2>2. p \in Ops /\ p.pc = "image" /\ p.why = "" /\ p.whose = "queue"
        /\ p.data = NoData /\ p.target = 0 /\ Place("main", p)
    BY ImageFields
  <2> HIDE DEF o, p
  <2>3. Locks(t, p)
    BY <1>1, <1>5, <2>1, <2>2 DEF Locks
  <2> QED  BY <1>1, <1>5, <2>1, <2>2, <2>3 DEF o
<1>6. CASE op[t].why \in {"", "drop"}
  <2>1. o = Idle
    BY <1>6 DEF Saved
  <2> HIDE DEF o
  <2>2. Locks(t, Idle)
    BY <1>2, IdleFields DEF Locks
  <2> QED  BY <1>1, <1>6, <2>1, <2>2, IdleFields DEF o
<1> QED  BY <1>1, <1>3, <1>4, <1>5, <1>6

LEMMA DoneMem ==
  ASSUME NEW t, NEW m \in [Holders -> Object], NEW sharing \in SUBSET {"given", "player"},
         \A h \in sharing : m[h] = m["ui"], sharing # {} => m["ui"] # NoData,
         Done(t, m, sharing), t = "player"
  PROVE  /\ mem' \in [Holders -> Object] /\ Sharing' /\ mem'["player"] = NoData
         /\ \A h \in Holders \ {"player"} : mem'[h] = m[h]
<1>1. mem' = [m EXCEPT !["player"] = NoData] /\ shared' = sharing \ {"player"}
  BY DEF Done
<1>2. NoData \in Object
  BY DEF Object
<1> QED  BY <1>1, <1>2 DEF Sharing, Holders

LEMMA AfterSaveMem ==
  ASSUME TypeInv, NEW t \in Threads, op[t].pc \in Saving, AfterSave(t)
  PROVE  /\ Moves(t, Saved(t)) /\ recording' = recording
         /\ mem' \in [Holders -> Object] /\ Sharing'
         /\ \A h \in Holders : mem'[h] \in {mem[h], NoData}
         /\ \A h \in Holders \ {"player", "queue"} : mem'[h] = mem[h]
         /\ t # "player" => mem'["player"] = mem["player"]
         /\ t = "player" => mem'["player"] = NoData /\ "player" \notin shared'
         /\ t # "player" => shared' = shared
         /\ ~(t = "main" /\ op[t].why = "drop") => mem'["queue"] = mem["queue"]
<1>1. Moves(t, Saved(t)) /\ recording' = recording
  BY DEF AfterSave, Saved, Moves
<1>2. /\ \/ op[t].why = "drop" /\ t = "main" /\ mem' = [mem EXCEPT !["queue"] = NoData]
            /\ shared' = shared
         \/ op[t].why # "drop" /\ Done(t, mem, shared)
  BY SavedFields DEF AfterSave
<1>3. mem \in [Holders -> Object] /\ NoData \in Object /\ Sharing
  BY DEF TypeInv, ObjectsFit, Object
<1>4. \/ t = "main" /\ op[t].why = "drop" /\ mem' = [mem EXCEPT !["queue"] = NoData]
         /\ shared' = shared
      \/ t = "player" /\ mem' = [mem EXCEPT !["player"] = NoData]
         /\ shared' = shared \ {"player"} /\ op[t].why # "drop"
      \/ t # "player" /\ op[t].why # "drop" /\ mem' = mem /\ shared' = shared
  BY <1>2 DEF Done
<1>5. CASE t = "player"
  BY <1>1, <1>3, <1>4, <1>5 DEF Sharing, Holders
<1>6. CASE t # "player" /\ mem' = mem
  BY <1>1, <1>3, <1>4, <1>6 DEF Sharing, Holders
<1>7. CASE t = "main" /\ op[t].why = "drop" /\ mem' = [mem EXCEPT !["queue"] = NoData]
  BY <1>1, <1>3, <1>4, <1>7 DEF Sharing, Holders
<1> QED  BY <1>4, <1>5, <1>6, <1>7

LEMMA AfterSaveTyped ==
  ASSUME TypeInv, NEW t \in Threads, op[t].pc \in Saving, AfterSave(t),
         FileFits', saved' \in BOOLEAN, raced' \in BOOLEAN
  PROVE  TypeInv'
<1> DEFINE o == Saved(t)
<1>1. /\ Moves(t, o) /\ recording' = recording
      /\ mem' \in [Holders -> Object] /\ Sharing'
      /\ \A h \in Holders : mem'[h] \in {mem[h], NoData}
      /\ \A h \in Holders \ {"player", "queue"} : mem'[h] = mem[h]
      /\ t # "player" => mem'["player"] = mem["player"]
      /\ ~(t = "main" /\ op[t].why = "drop") => mem'["queue"] = mem["queue"]
  BY AfterSaveMem
<1>2. /\ o \in Ops /\ o.pc \in {"open", "leave", "image", "idle"}
      /\ o.data = NoData /\ o.target = 0 /\ Place(t, o) /\ Locks(t, o)
      /\ op[t].whose = "ui" \/ o.pc = "idle" \/ o.whose = "queue"
      /\ \/ t # "main" /\ op[t].whose = t /\ op[t].why = "" /\ o = Idle
         \/ t = "main" /\ op[t].whose = "ui"
            /\ op[t].why \in {"record", "publish", "leave"}
         \/ t = "main" /\ op[t].whose = "queue"
            /\ op[t].why \in {"", "drop", "image"} /\ op["queue"].pc = "idle"
  BY SavedFields
<1> HIDE DEF o
<1>3. UNCHANGED <<files, now>>
  BY DEF AfterSave, audioVars
<1>4. Len(files) \in Nat /\ FitsIn(NoData, Len(files))
  BY NothingFits DEF TypeInv, Clocks
<1>5. Grows /\ ObjectsFit'
  BY <1>1, <1>3, <1>4 DEF Grows, Clocks, ObjectsFit, Fits, TypeInv
<1>6. Flags'
  BY DEF AfterSave, flatHistory, listHistory, TypeInv, Flags
<1>7. Keeps(t)
  BY <1>1, <1>2 DEF Keeps, Holders
<1>8. op'["main"] = IF t = "main" THEN o ELSE op["main"]
  BY <1>1, <1>2, Moved DEF TypeInv, Threads
<1>9. RecordingHeld
  <2>1. recording # 0 => /\ mem["ui"] # NoData
                         /\ op["main"].pc = "idle" \/ op["main"].whose = "queue"
    BY DEF TypeInv, Held
  <2>2. recording \in 0 .. Len(files')
    BY <1>3 DEF TypeInv, Held
  <2>3. t = "main" /\ recording # 0 => o.pc = "idle" \/ o.whose = "queue"
    BY <1>2, <2>1 DEF Saving
  <2>4. mem'["ui"] = mem["ui"]
    BY <1>1 DEF Holders
  <2> QED  BY <1>1, <1>8, <2>1, <2>2, <2>3, <2>4 DEF RecordingHeld
<1>10. FitsIn(o.data, Len(files')) /\ o.target <= Len(files')
  <2>1. files' = files /\ o.data = NoData /\ o.target = 0
    BY <1>2, <1>3
  <2> QED  BY <1>4, <2>1
<1> QED  BY <1>1, <1>2, <1>5, <1>6, <1>7, <1>9, <1>10, StepTyped DEF Saving

LEMMA CannotWriteTyped ==
  ASSUME TypeInv, NEW t \in Threads, CannotWrite(t)
  PROVE  TypeInv'
<1>1. op[t].pc \in Saving /\ AfterSave(t) /\ UNCHANGED <<file, saved, raced>>
  BY DEF CannotWrite, At, Saving
<1>2. FileFits' /\ saved' \in BOOLEAN /\ raced' \in BOOLEAN
  BY <1>1 DEF AfterSave, audioVars, TypeInv, FileFits, Fits, Flags
<1> QED  BY <1>1, <1>2, AfterSaveTyped

LEMMA EndWriteTyped ==
  ASSUME TypeInv, NEW t \in Threads, EndWrite(t)
  PROVE  TypeInv'
<1>1. /\ op[t].pc \in Saving /\ AfterSave(t) /\ saved' = TRUE /\ raced' \in BOOLEAN
      /\ file' \in {file, [file EXCEPT !.data = mem[op[t].whose]]}
  BY DEF EndWrite, At, Saving, Write, TypeInv, Flags
<1>2. mem[op[t].whose] \in Contents /\ Fits(mem[op[t].whose])
  BY OpTyped, ObjectContents DEF TypeInv, ObjectsFit
<1>3. file' \in [no : Nat, data : Contents]
      /\ file'.data \in {file.data, mem[op[t].whose]}
  BY <1>1, <1>2 DEF TypeInv, FileFits
<1>4. FileFits'
  BY <1>1, <1>2, <1>3 DEF AfterSave, audioVars, TypeInv, FileFits, Fits
<1> QED  BY <1>1, <1>4, AfterSaveTyped

\* The files without the flattened file of d.
Rest(d) == [i \in DOMAIN files |-> IF i = d.flat THEN NoFile ELSE files[i]]
Unflat(d) == [d EXCEPT !.flat = 0]
Begun(d, h, target) ==
  [Idle EXCEPT !.pc = "flatten", !.whose = h, !.data = d, !.target = target]
MadeFile(made) ==
  IF made THEN [NoFile EXCEPT !.time = now, !.there = TRUE] ELSE NoFile

LEMMA RestFiles ==
  ASSUME Clocks, NEW d
  PROVE  /\ Rest(d) \in Seq(Audio) /\ Len(Rest(d)) = Len(files)
         /\ \A i \in 1 .. Len(files) :
              Rest(d)[i] = IF i = d.flat THEN NoFile ELSE files[i]
         /\ \A made \in BOOLEAN :
              /\ MadeFile(made) \in Audio /\ MadeFile(made).recs = {}
              /\ MadeFile(made).there = made
              /\ made => MadeFile(made).time = now
<1>1. files \in Seq(Audio) /\ now \in Nat
  BY DEF Clocks
<1>2. \A i \in 1 .. Len(files) :
        /\ Rest(d)[i] = IF i = d.flat THEN NoFile ELSE files[i]
        /\ Rest(d)[i] \in Audio
  BY <1>1, AudioFields DEF Rest
<1>3. Rest(d) = [i \in DOMAIN files |-> Rest(d)[i]]
  BY DEF Rest
<1>4. Rest(d) \in Seq(Audio) /\ Len(Rest(d)) = Len(files)
  BY <1>1, <1>2, <1>3, FilesReplaced
<1>5. \A made \in BOOLEAN :
        /\ MadeFile(made) \in Audio /\ MadeFile(made).recs = {}
        /\ MadeFile(made).there = made
        /\ made => MadeFile(made).time = now
  BY <1>1 DEF MadeFile, Audio, NoFile
<1> QED  BY <1>2, <1>4, <1>5

LEMMA BegunOp ==
  ASSUME NEW d \in Contents, NEW h \in Holders, NEW target \in Nat
  PROVE  Begun(d, h, target) \in Ops
  BY DEF Begun, Ops, Idle

\* flattenAudio() for the thread t, which has the object m[h].
Flattener(t, h, m, sharing) ==
  /\ m \in [Holders -> Object] /\ m[h] # NoData
  /\ \A x \in Holders : Fits(m[x])
  /\ sharing \in SUBSET {"given", "player"}
  /\ \A x \in sharing : m[x] = m["ui"]
  /\ sharing # {} => m["ui"] # NoData
  /\ \A x \in {"ui", "player", "queue", "index"} : x = t \/ m[x] = mem[x]
  /\ h = (IF t = "main" THEN "queue" ELSE t)
  /\ t = "main" => op["queue"].pc = "idle"
  /\ t = "queue" => op["main"].whose # "queue"
  /\ op[t].pc \in {"idle", "image"}

\* What it does: nothing but take note of a file that is up to date, or delete
\* the old file and begin with a new one.
FlattenDone(t, h, m, sharing) ==
  /\ UpToDate(m[h])
  /\ Moves(t, Idle) /\ Done(t, m, sharing)
  /\ UNCHANGED <<files, now>>
  /\ stale' = (stale \/ (~gone /\ ~(m[h].recs \subseteq files[m[h].flat].recs)))

FlattenBegun(t, h, m, sharing, target, made) ==
  /\ ~UpToDate(m[h])
  /\ target \in 1 .. Len(files) + 1 /\ made \in BOOLEAN
  /\ IsNext(Rest(m[h]), target)
  /\ files' = WithFile(Rest(m[h]), target, MadeFile(made))
  /\ Moves(t, Begun(m[h], h, target))
  /\ mem' = Store(m, sharing, h, Unflat(m[h]))
  /\ shared' = sharing /\ now' = now /\ stale' = stale

LEMMA FlattenCases ==
  ASSUME Clocks, NEW t, NEW h, NEW m, NEW sharing, Flatten(t, h, m, sharing)
  PROVE  /\ \/ FlattenDone(t, h, m, sharing)
            \/ \E target, made : FlattenBegun(t, h, m, sharing, target, made)
         /\ disturbed' = (disturbed \/ recording # 0 \/ Others(t, {"flatten"}) # {})
<1>1. disturbed' = (disturbed \/ recording # 0 \/ Others(t, {"flatten"}) # {})
  BY DEF Flatten
<1>2. CASE UpToDate(m[h])
  BY <1>1, <1>2 DEF Flatten, FlattenDone, Moves, audioVars
<1>3. CASE ~UpToDate(m[h])
  <2>1. PICK target \in 1 .. MaxFiles, made \in BOOLEAN :
          /\ IsNext(Rest(m[h]), target)
          /\ files' = WithFile(Rest(m[h]), target, MadeFile(made))
          /\ op' = [op EXCEPT ![t] = Begun(m[h], h, target)]
    BY <1>3 DEF Flatten, Rest, MadeFile, Begun
  <2>2. mem' = Store(m, sharing, h, Unflat(m[h]))
        /\ shared' = sharing /\ now' = now /\ stale' = stale
    BY <1>3 DEF Flatten, Unflat
  <2>3. target \in 1 .. Len(files) + 1
    BY <2>1, RestFiles DEF IsNext
  <2> QED  BY <1>1, <1>3, <2>1, <2>2, <2>3 DEF FlattenBegun, Moves
<1> QED  BY <1>2, <1>3

LEMMA BegunValues ==
  ASSUME Clocks, NEW t, NEW h \in Holders, NEW m, NEW sharing, NEW target, NEW made,
         Flattener(t, h, m, sharing), FlattenBegun(t, h, m, sharing, target, made)
  PROVE  /\ m[h] \in Datas /\ Fits(m[h]) /\ target \in Nat /\ target # 0
         /\ Begun(m[h], h, target) \in Ops /\ Moves(t, Begun(m[h], h, target))
         /\ Grows /\ target <= Len(files') /\ files'[target] = MadeFile(made)
         /\ \A i \in 1 .. Len(files) : i # target =>
              files'[i] = IF i = m[h].flat THEN NoFile ELSE files[i]
         /\ Unflat(m[h]) \in Datas /\ Fits(Unflat(m[h]))
         /\ Unflat(m[h]).recs = m[h].recs /\ Unflat(m[h]).flat = 0
         /\ Unflat(m[h]).up = m[h].up
<1>1. m[h] \in Datas /\ Fits(m[h])
  BY ObjectContents DEF Flattener
<1>2. target \in 1 .. Len(files) + 1 /\ made \in BOOLEAN /\ Len(files) \in Nat
      /\ files' = WithFile(Rest(m[h]), target, MadeFile(made)) /\ now' = now
  BY DEF FlattenBegun, Clocks
<1>3. Begun(m[h], h, target) \in Ops
  <2>1. m[h] \in Contents /\ target \in Nat
    BY <1>1, <1>2, ObjectContents DEF Object
  <2> QED  BY <2>1, BegunOp
<1>4. /\ Rest(m[h]) \in Seq(Audio) /\ Len(Rest(m[h])) = Len(files)
      /\ \A i \in 1 .. Len(files) :
              Rest(m[h])[i] = IF i = m[h].flat THEN NoFile ELSE files[i]
      /\ MadeFile(made) \in Audio
  BY <1>2, RestFiles
<1>5. /\ files' \in Seq(Audio) /\ Len(files') >= Len(files)
      /\ target <= Len(files') /\ files'[target] = MadeFile(made)
      /\ \A i \in 1 .. Len(files) : i # target => files'[i] = Rest(m[h])[i]
  BY <1>2, <1>4, WithFileValues
<1>6. Grows
  BY <1>2, <1>5 DEF Grows, Clocks
<1>7. /\ Unflat(m[h]) \in Datas /\ Unflat(m[h]).recs = m[h].recs
      /\ Unflat(m[h]).flat = 0 /\ Unflat(m[h]).up = m[h].up
  BY <1>1 DEF Datas, Unflat
<1>8. Fits(Unflat(m[h]))
  BY <1>1, <1>2, <1>7 DEF Fits, FitsIn
<1> QED  BY <1>1, <1>2, <1>3, <1>4, <1>5, <1>6, <1>7, <1>8 DEF FlattenBegun

LEMMA StoreTyped ==
  ASSUME NEW m \in [Holders -> Object], NEW sharing \in SUBSET {"given", "player"},
         NEW h \in Holders, NEW e \in Object, e # NoData,
         \A x \in Holders : FitsIn(m[x], Len(files')),
         FitsIn(e, Len(files')),
         \A x \in sharing : m[x] = m["ui"], sharing # {} => m["ui"] # NoData,
         mem' = Store(m, sharing, h, e), shared' = sharing
  PROVE  /\ ObjectsFit' /\ Sharing' /\ mem'[h] = e
         /\ \A x \in Holders : mem'[x] = e \/ mem'[x] = m[x]
<1>1. /\ mem' \in [Holders -> Object] /\ mem'[h] = e
      /\ \A x \in Holders : mem'[x] = e \/ mem'[x] = m[x]
      /\ h \in sharing \cup {"ui"} =>
           \A x \in sharing \cup {"ui"} : mem'[x] = e
      /\ \A x \in Holders \ {h} :
           ~(h \in sharing \cup {"ui"} /\ x \in sharing \cup {"ui"})
             => mem'[x] = m[x]
  BY DEF Store, Holders
<1>2. ObjectsFit'
  BY <1>1 DEF ObjectsFit, Fits
<1>3. Sharing'
  BY <1>1 DEF Sharing, Holders
<1> QED  BY <1>1, <1>2, <1>3

LEMMA FlattenTyped ==
  ASSUME TypeInv, NEW t \in Threads, NEW h, NEW m, NEW sharing,
         Flattener(t, h, m, sharing), Flatten(t, h, m, sharing),
         UNCHANGED <<file, recording, running, lifeVars, raced, listHistory>>
  PROVE  TypeInv'
<1>1. /\ h \in Holders /\ h \in {"player", "queue"}
      /\ h = (IF t = "main" THEN "queue" ELSE t)
      /\ t = "queue" => op["main"].whose # "queue"
      /\ t = "main" => op["queue"].pc = "idle"
      /\ m \in [Holders -> Object] /\ m[h] # NoData
      /\ \A x \in Holders : Fits(m[x])
      /\ sharing \in SUBSET {"given", "player"}
      /\ \A x \in sharing : m[x] = m["ui"]
      /\ sharing # {} => m["ui"] # NoData
      /\ \A x \in {"ui", "player", "queue", "index"} : x = t \/ m[x] = mem[x]
  BY DEF Flattener, Threads, Holders
<1>2. Clocks /\ Len(files) \in Nat /\ FitsIn(NoData, Len(files))
  BY NothingFits DEF TypeInv, Clocks
<1>3. disturbed' \in BOOLEAN
  BY <1>2, FlattenCases DEF TypeInv, Flags
<1>4. recording # 0 => /\ mem["ui"] # NoData
                       /\ op["main"].pc = "idle" \/ op["main"].whose = "queue"
  BY DEF TypeInv, Held
<1>5. recording' = recording /\ recording \in 0 .. Len(files) /\ file' = file
  BY DEF TypeInv, Held
<1>6. CASE FlattenDone(t, h, m, sharing)
  <2>1. Moves(t, Idle) /\ UNCHANGED <<files, now>> /\ stale' \in BOOLEAN
    BY <1>6 DEF FlattenDone, TypeInv, Flags
  <2>2. /\ mem' \in [Holders -> Object] /\ Sharing'
        /\ \A x \in Holders : mem'[x] \in {m[x], NoData}
        /\ \A x \in Holders : x = t \/ mem'[x] = m[x]
    <3>1. CASE t = "player"
      <4>1. Done(t, m, sharing)
        BY <1>6 DEF FlattenDone
      <4>2. /\ mem' \in [Holders -> Object] /\ Sharing' /\ mem'["player"] = NoData
            /\ \A x \in Holders \ {"player"} : mem'[x] = m[x]
        BY <1>1, <3>1, <4>1, DoneMem
      <4> QED  BY <3>1, <4>2 DEF Holders
    <3>2. CASE t # "player"
      BY <1>1, <1>6, <3>2 DEF FlattenDone, Done, Sharing, Holders
    <3> QED  BY <3>1, <3>2
  <2>3. Grows /\ ObjectsFit' /\ FileFits' /\ Flags'
    BY <1>1, <1>2, <1>3, <1>5, <2>1, <2>2
       DEF Grows, Clocks, ObjectsFit, Fits, FileFits, TypeInv, Flags, lifeVars, listHistory
  <2>4. Keeps(t)
    BY <1>1, <2>2 DEF Keeps, Holders
  <2>5. op'["main"] = IF t = "main" THEN Idle ELSE op["main"]
    BY <2>1, IdleFields, Moved DEF TypeInv, Threads
  <2>6. mem'["ui"] = mem["ui"]
    BY <1>1, <2>2 DEF Holders, Threads
  <2>7. RecordingHeld
    BY <1>4, <1>5, <2>1, <2>5, <2>6, IdleFields DEF RecordingHeld
  <2>8. Locks(t, Idle)
    BY <1>1, IdleFields DEF Locks
  <2>9. FitsIn(Idle.data, Len(files')) /\ Idle.target <= Len(files')
    <3>1. files' = files /\ Idle.data = NoData /\ Idle.target = 0
      BY <2>1, IdleFields
    <3> QED  BY <1>2, <3>1
  <2>10. Idle \in Ops /\ Place(t, Idle) /\ Idle.pc \notin Saving \cup {"flatten"}
    BY IdleFields DEF Saving
  <2> QED  BY <2>1, <2>2, <2>3, <2>4, <2>7, <2>8, <2>9, <2>10, StepTyped
<1>7. ASSUME NEW target, NEW made, FlattenBegun(t, h, m, sharing, target, made)
      PROVE  TypeInv'
  <2> DEFINE o == Begun(m[h], h, target)
             e == Unflat(m[h])
  <2>1. /\ m[h] \in Datas /\ Fits(m[h]) /\ target \in Nat /\ target # 0
        /\ o \in Ops /\ Moves(t, o)
        /\ Grows /\ target <= Len(files')
        /\ e \in Datas /\ Fits(e) /\ e.recs = m[h].recs /\ e.flat = 0
    BY <1>1, <1>2, <1>7, BegunValues
  <2>2. m[h] \in Contents
    BY <2>1, ObjectContents DEF Object
  <2>3. /\ o.pc = "flatten" /\ o.why = "" /\ o.whose = h
        /\ o.data = m[h] /\ o.target = target
    <3>1. h \in Holders /\ target \in Nat
      BY <1>1, <2>1
    <3> QED  BY <2>2, <3>1 DEF Begun, Ops, Idle
  <2>4. mem' = Store(m, sharing, h, e) /\ shared' = sharing
        /\ stale' = stale /\ now' = now
    BY <1>7 DEF FlattenBegun
  <2> HIDE DEF o, e
  <2>5. Place(t, o) /\ Locks(t, o)
    BY <1>1, <2>1, <2>3 DEF Place, Reading, Saving, Locks
  <2>6. e \in Object /\ e # NoData
    BY <2>1, ObjectContents DEF Object
  <2>7. \A x \in Holders : FitsIn(m[x], Len(files'))
    BY <1>1, <1>2, <2>1, StillFits
  <2>8. FitsIn(e, Len(files')) /\ FitsIn(m[h], Len(files'))
        /\ FitsIn(file.data, Len(files'))
    BY <1>2, <2>1, StillFits DEF TypeInv, FileFits
  <2>9. /\ ObjectsFit' /\ Sharing' /\ mem'[h] = e
        /\ \A x \in Holders : mem'[x] = e \/ mem'[x] = m[x]
    BY <1>1, <2>4, <2>6, <2>7, <2>8, StoreTyped
  <2>10. FileFits' /\ Flags'
    BY <1>3, <1>5, <2>4, <2>8
       DEF FileFits, Fits, TypeInv, Flags, lifeVars, listHistory
  <2>11. Keeps(t)
    BY <1>1, <2>6, <2>9 DEF Keeps, Holders
  <2>12. op'["main"] = IF t = "main" THEN o ELSE op["main"]
    BY <2>1, Moved DEF TypeInv, Threads
  <2>13. mem["ui"] # NoData => mem'["ui"] # NoData
    BY <1>1, <2>6, <2>9 DEF Holders, Threads
  <2>14. recording \in 0 .. Len(files')
    BY <1>2, <1>5, <2>1 DEF Grows, Clocks
  <2>15. RecordingHeld
    BY <1>1, <1>4, <1>5, <2>3, <2>12, <2>13, <2>14 DEF RecordingHeld
  <2>16. FitsIn(o.data, Len(files')) /\ o.target <= Len(files')
    BY <2>1, <2>3, <2>8
  <2> QED  BY <2>1, <2>3, <2>5, <2>6, <2>9, <2>10, <2>11, <2>15, <2>16, StepTyped
<1> QED  BY <1>2, <1>6, <1>7, FlattenCases

Flattened(d, target) == [d EXCEPT !.flat = target]

\* What a flattening that has come to its end does.
FlattenEnded(t, got) ==
  LET o == op[t] IN
  /\ got \subseteq o.data.recs
  /\ op' = [op EXCEPT ![t] = Save(o.whose, "")]
  /\ files' = IF got = {} THEN files
              ELSE [files EXCEPT ![o.target] =
                      [recs |-> got, time |-> now, there |-> TRUE]]
  /\ mem' = Store(mem, shared, o.whose, Flattened(mem[o.whose], o.target))
  /\ disturbed' = (disturbed \/ got = {} \/ got # o.data.recs)

FlattenFailed(t) ==
  /\ mem[op[t].whose].recs # op[t].data.recs
  /\ op' = [op EXCEPT ![t].pc = "fatal"]
  /\ disturbed' = TRUE
  /\ UNCHANGED <<files, mem>>

LEMMA EndFlattenCases ==
  ASSUME NEW t, EndFlatten(t)
  PROVE  FlattenFailed(t) \/ \E got : FlattenEnded(t, got)
  BY DEF EndFlatten, FlattenFailed, FlattenEnded, Flattened

LEMMA EndedFiles ==
  ASSUME TypeInv, NEW t \in Threads, op[t].pc = "flatten", NEW got,
         FlattenEnded(t, got), now' = now
  PROVE  /\ op[t].target \in 1 .. Len(files)
         /\ Grows /\ Len(files') = Len(files)
         /\ \A i \in 1 .. Len(files) :
              i # op[t].target \/ got = {} => files'[i] = files[i]
         /\ got # {} => files'[op[t].target] =
                          [recs |-> got, time |-> now, there |-> TRUE]
<1> DEFINE i == op[t].target
           f == [recs |-> got, time |-> now, there |-> TRUE]
<1>1. i \in 1 .. Len(files) /\ Len(files) \in Nat
  <2>1. op[t].target # 0
    BY DEF TypeInv, Control, Place
  <2> QED  BY <2>1, OpTyped DEF TypeInv, Clocks
<1>2. files \in Seq(Audio) /\ now \in Nat
  BY DEF TypeInv, Clocks
<1>3. f \in Audio
  <2>1. got \in SUBSET Nat
    BY OpTyped, DataFields DEF FlattenEnded
  <2> QED  BY <1>2, <2>1 DEF Audio
<1>4. files' = IF got = {} THEN files ELSE [files EXCEPT ![i] = f]
  BY DEF FlattenEnded
<1> HIDE DEF i, f
<1>5. [files EXCEPT ![i] = f] \in Seq(Audio)
      /\ Len([files EXCEPT ![i] = f]) = Len(files)
  BY <1>1, <1>2, <1>3, ExceptSeq
<1>6. /\ files' \in Seq(Audio) /\ Len(files') = Len(files)
      /\ \A j \in 1 .. Len(files) : j # i \/ got = {} => files'[j] = files[j]
      /\ got # {} => files'[i] = f
  BY <1>1, <1>2, <1>4, <1>5
<1>7. Grows
  BY <1>1, <1>6 DEF Grows, Clocks, TypeInv
<1> QED  BY <1>1, <1>6, <1>7 DEF i, f

LEMMA EndFlattenTyped ==
  ASSUME TypeInv, NEW t \in Threads, EndFlatten(t)
  PROVE  TypeInv'
<1> DEFINE h == op[t].whose
           i == op[t].target
<1>1. op[t].pc = "flatten"
      /\ UNCHANGED <<file, now, shared, recording, running, lifeVars, raced,
                     stale, listHistory>>
  BY DEF EndFlatten, At
<1>2. /\ h = (IF t = "main" THEN "queue" ELSE t) /\ h \in Holders
      /\ op[t].why = "" /\ op[t].target # 0
      /\ mem[h] # NoData /\ mem[h] \in Object /\ mem[h] \in Datas /\ Fits(mem[h])
  BY <1>1, OpTyped, ObjectContents DEF TypeInv, Control, Place, Held, ObjectsFit
<1>3. recording \in 0 .. Len(files) /\ Len(files) \in Nat
      /\ (recording # 0 => /\ mem["ui"] # NoData
                           /\ op["main"].pc = "idle" \/ op["main"].whose = "queue")
  BY DEF TypeInv, Held, Clocks
<1>4. CASE FlattenFailed(t)
  <2> DEFINE o == [op[t] EXCEPT !.pc = "fatal"]
  <2>1. Moves(t, o) /\ UNCHANGED <<files, mem>> /\ disturbed' \in BOOLEAN
    BY <1>4 DEF FlattenFailed, Moves
  <2>2. /\ o \in Ops /\ o.whose = op[t].whose /\ o.pc = "fatal"
        /\ o.data = op[t].data /\ o.target = op[t].target /\ o.why = op[t].why
    BY OpTyped DEF Ops
  <2> HIDE DEF o
  <2>3. Place(t, o) /\ Locks(t, o)
    BY <1>1, <1>2, <2>2, OpTyped DEF Place, Reading, Saving, Locks
  <2>4. FileFits' /\ Flags'
    BY <1>1, <2>1 DEF TypeInv, FileFits, Fits, Flags, lifeVars, listHistory
  <2>5. recording # 0 /\ t = "main" => o.whose = "queue"
    BY <1>2, <2>2
  <2> QED  BY <1>1, <2>1, <2>2, <2>3, <2>4, <2>5, OpTyped, QuietTyped DEF Saving
<1>5. ASSUME NEW got, FlattenEnded(t, got)
      PROVE  TypeInv'
  <2> DEFINE o == Save(h, "")
             e == Flattened(mem[h], i)
  <2>1. Moves(t, o) /\ disturbed' \in BOOLEAN /\ mem' = Store(mem, shared, h, e)
    BY <1>5 DEF FlattenEnded, Moves, TypeInv, Flags
  <2>2. /\ o \in Ops /\ o.whose = op[t].whose /\ o.pc = "save"
        /\ o.data = NoData /\ o.target = 0 /\ o.why = ""
    BY <1>2 DEF Save, Idle, Ops, Contents
  <2> HIDE DEF o
  <2>3. Place(t, o) /\ Locks(t, o)
    BY <1>1, <1>2, <2>2, OpTyped DEF Place, Reading, Saving, Locks
  <2>4. i \in 1 .. Len(files) /\ Grows /\ Len(files') = Len(files)
    BY <1>1, <1>5, EndedFiles
  <2>5. e \in Datas /\ FitsIn(e, Len(files'))
    <3> DEFINE d == mem[h]
    <3>1. d \in Datas /\ Fits(d) /\ i \in Nat
      <4>1. d \in Datas /\ Fits(d)
        BY <1>2
      <4>2. i \in Nat
        BY <2>4
      <4> QED  BY <4>1, <4>2
    <3> HIDE DEF d, i
    <3>2. Flattened(d, i) \in Datas /\ Flattened(d, i).flat = i
          /\ Flattened(d, i).recs = d.recs
      BY <3>1 DEF Flattened, Datas
    <3> QED  BY <1>3, <2>4, <3>1, <3>2 DEF Fits, FitsIn, d
  <2> HIDE DEF e, h, i
  <2>6. e \in Object /\ e # NoData
    BY <2>5, ObjectContents DEF Object
  <2>7. /\ mem \in [Holders -> Object] /\ shared \in SUBSET {"given", "player"}
        /\ \A x \in shared : mem[x] = mem["ui"]
        /\ shared # {} => mem["ui"] # NoData
        /\ shared' = shared
    BY <1>1 DEF TypeInv, ObjectsFit, Sharing
  <2>8. /\ \A x \in Holders : FitsIn(mem[x], Len(files'))
        /\ FitsIn(NoData, Len(files')) /\ 0 <= Len(files')
        /\ FitsIn(file.data, Len(files'))
    BY <1>3, <2>4, NothingFits DEF TypeInv, ObjectsFit, FileFits, Fits
  <2>9. /\ ObjectsFit' /\ Sharing' /\ mem'[h] = e
        /\ \A x \in Holders : mem'[x] = e \/ mem'[x] = mem[x]
    <3>1. /\ h \in Holders /\ mem' = Store(mem, shared, h, e)
          /\ FitsIn(e, Len(files')) /\ \A x \in Holders : FitsIn(mem[x], Len(files'))
      BY <1>2, <2>1, <2>5, <2>8
    <3> QED  BY <2>6, <2>7, <3>1, StoreTyped
  <2>10. FileFits' /\ Flags'
    BY <1>1, <2>1, <2>8
       DEF TypeInv, FileFits, Fits, Flags, lifeVars, listHistory
  <2>11. Keeps(t)
    BY <2>6, <2>9 DEF Keeps, Holders
  <2>12. op'["main"] = IF t = "main" THEN o ELSE op["main"]
    BY <2>1, <2>2, Moved DEF TypeInv, Threads
  <2>13. RecordingHeld
    <3>1. mem["ui"] # NoData => mem'["ui"] # NoData
      BY <2>6, <2>9 DEF Holders
    <3>2. t = "main" => o.whose = "queue"
      BY <1>2, <2>2 DEF h
    <3> QED  BY <1>1, <1>3, <2>4, <2>12, <3>1, <3>2 DEF RecordingHeld
  <2>14. mem'[o.whose] # NoData
    BY <2>2, <2>6, <2>9 DEF h
  <2>15. FitsIn(o.data, Len(files')) /\ o.target <= Len(files')
    BY <2>2, <2>8
  <2> QED  BY <2>1, <2>2, <2>3, <2>4, <2>9, <2>10, <2>11, <2>13, <2>14, <2>15,
              StepTyped
<1> QED  BY <1>4, <1>5, EndFlattenCases

TakenObjects == [mem EXCEPT !["player"] = mem["given"], !["given"] = NoData]
TakenSharing == IF "given" \in shared THEN {"player"} ELSE {}

LEMMA PlayFlattens ==
  ASSUME TypeInv, Play
  PROVE  /\ Flattener("player", "player", TakenObjects, TakenSharing)
         /\ Flatten("player", "player", TakenObjects, TakenSharing)
         /\ UNCHANGED <<file, recording, running, lifeVars, raced, listHistory>>
<1>1. /\ op["player"].pc = "idle" /\ mem["given"] # NoData
      /\ Flatten("player", "player", TakenObjects, TakenSharing)
      /\ UNCHANGED <<file, recording, running, lifeVars, raced, listHistory>>
  BY DEF Play, At, ToPlay, TakenObjects, TakenSharing
<1>2. NoData \in Object /\ Fits(NoData)
  BY NothingFits DEF TypeInv, Clocks, Fits
<1>3. /\ TakenObjects \in [Holders -> Object]
      /\ \A h \in Holders : TakenObjects[h] \in {mem[h], mem["given"], NoData}
      /\ TakenObjects["player"] = mem["given"]
      /\ \A h \in Holders \ {"player", "given"} : TakenObjects[h] = mem[h]
  BY <1>2 DEF TypeInv, ObjectsFit, Holders, TakenObjects
<1>4. \A h \in Holders : Fits(TakenObjects[h])
  BY <1>2, <1>3 DEF TypeInv, ObjectsFit, Holders
<1>5. /\ TakenSharing \in SUBSET {"given", "player"}
      /\ \A h \in TakenSharing : TakenObjects[h] = TakenObjects["ui"]
      /\ TakenSharing # {} => TakenObjects["ui"] # NoData
  BY <1>3 DEF TypeInv, Sharing, Holders, TakenSharing
<1>6. /\ \A x \in {"ui", "player", "queue", "index"} :
           x = "player" \/ TakenObjects[x] = mem[x]
      /\ TakenObjects["player"] # NoData
  BY <1>1, <1>3 DEF Holders
<1> QED  BY <1>1, <1>3, <1>4, <1>5, <1>6 DEF Flattener

LEMMA QueueFlattener ==
  ASSUME TypeInv, NEW t \in {"main", "queue"},
         \/ t = "main" /\ At("main", "image")
         \/ t = "queue" /\ Wakes,
         mem["queue"].up \in {1, 3}
  PROVE  Flattener(t, "queue", mem, shared)
<1>1. mem["queue"] # NoData
  BY DEF NoData
<1>2. t = "main" => op["queue"].pc = "idle" /\ op[t].pc = "image"
  BY OpTyped DEF At, TypeInv, Control, Place, Threads, Wakes
<1>3. t = "queue" => op["main"].whose # "queue" /\ op[t].pc = "idle"
  BY DEF Wakes, At
<1> QED  BY <1>1, <1>2, <1>3 DEF Flattener, TypeInv, ObjectsFit, Sharing

LEMMA PlayTyped ==
  ASSUME TypeInv, Play
  PROVE  TypeInv'
<1>1. "player" \in Threads
  BY DEF Threads
<1> QED  BY <1>1, PlayFlattens, FlattenTyped

LEMMA StartUploadTyped ==
  ASSUME TypeInv, StartUpload
  PROVE  TypeInv'
<1>1. /\ Wakes /\ mem["queue"].up = 1 /\ "queue" \in Threads
      /\ Flatten("queue", "queue", mem, shared)
      /\ UNCHANGED <<file, recording, running, lifeVars, raced, listHistory>>
  BY DEF StartUpload, Threads
<1>2. Flattener("queue", "queue", mem, shared)
  BY <1>1, QueueFlattener
<1> QED  BY <1>1, <1>2, FlattenTyped

\* Progress in the data of the queue is saved.
LEMMA UpTyped ==
  ASSUME TypeInv, NEW t \in {"main", "queue"}, NEW up \in 0 .. 4, NEW o \in Ops,
         Moves(t, o), Locks(t, o), Place(t, o),
         o.pc = "save" /\ o.whose = "queue" /\ o.data = NoData /\ o.target = 0,
         mem["queue"] # NoData, mem' = [mem EXCEPT !["queue"].up = up],
         UNCHANGED <<file, files, now, shared, recording>>, Flags'
  PROVE  TypeInv'
<1> DEFINE e == [mem["queue"] EXCEPT !.up = up]
<1>1. mem["queue"] \in Datas /\ Fits(mem["queue"]) /\ "queue" \in Holders
      /\ t \in Threads
  BY ObjectContents DEF TypeInv, ObjectsFit, Holders, Threads
<1>2. e \in Datas /\ e.flat = mem["queue"].flat /\ e.recs = mem["queue"].recs
  BY <1>1 DEF Datas
<1>3. mem' = [mem EXCEPT !["queue"] = e]
  OBVIOUS
<1> HIDE DEF e
<1>4. e \in Object /\ e # NoData /\ Fits(e)
  BY <1>1, <1>2, ObjectContents DEF Object, Fits, FitsIn
<1>5. /\ mem' \in [Holders -> Object] /\ mem'["queue"] = e
      /\ \A h \in Holders \ {"queue"} : mem'[h] = mem[h]
  BY <1>3, <1>4 DEF TypeInv, ObjectsFit, Holders
<1>6. Grows /\ FileFits' /\ ObjectsFit' /\ Sharing'
  BY <1>4, <1>5
     DEF Grows, Clocks, FileFits, Fits, TypeInv, ObjectsFit, Sharing, Holders
<1>7. Keeps(t) /\ mem'[o.whose] # NoData
  BY <1>4, <1>5 DEF Keeps, Holders
<1>8. op'["main"] = IF t = "main" THEN o ELSE op["main"]
  BY <1>1, Moved DEF TypeInv, Threads
<1>9. RecordingHeld
  BY <1>5, <1>8 DEF RecordingHeld, TypeInv, Held, Holders
<1>10. FitsIn(o.data, Len(files')) /\ o.target <= Len(files')
  <2>1. Len(files') \in Nat
    BY DEF TypeInv, Clocks
  <2> QED  BY <2>1, NothingFits
<1> QED  BY <1>1, <1>6, <1>7, <1>9, <1>10, StepTyped

LEMMA StartImageTyped ==
  ASSUME TypeInv, NEW t \in {"main", "queue"}, StartImage(t)
  PROVE  TypeInv'
<1>1. /\ \/ t = "main" /\ At("main", "image")
         \/ t = "queue" /\ Wakes
      /\ mem["queue"].up = 3 /\ t \in Threads
      /\ UNCHANGED <<file, recording, running, lifeVars, raced, listHistory>>
  BY DEF StartImage, Threads
<1>2. CASE Flatten(t, "queue", mem, shared)
  <2>1. Flattener(t, "queue", mem, shared)
    BY <1>1, QueueFlattener
  <2> QED  BY <1>1, <1>2, <2>1, FlattenTyped
<1>3. CASE /\ mem' = [mem EXCEPT !["queue"].up = 4]
           /\ op' = [op EXCEPT ![t] = Save("queue", "")]
           /\ UNCHANGED <<shared, audioVars, disturbed, stale>>
  <2> DEFINE o == Save("queue", "")
  <2>1. /\ o \in Ops /\ o.pc = "save" /\ o.why = "" /\ o.whose = "queue"
        /\ o.target = 0 /\ o.data = NoData
    BY SaveFields
  <2>2. Moves(t, o)
    BY <1>3 DEF Moves
  <2> HIDE DEF o
  <2>3. t = "main" => op["queue"].pc = "idle"
    BY <1>1, OpTyped DEF At, TypeInv, Control, Place, Threads, Wakes
  <2>4. Locks(t, o) /\ Place(t, o)
    BY <1>1, <2>1, <2>3 DEF Locks, Place, Reading, Saving, Wakes
  <2>5. mem["queue"] # NoData
    BY <1>1 DEF NoData
  <2>6. Flags'
    BY <1>1, <1>3 DEF TypeInv, Flags, lifeVars, listHistory
  <2>7. /\ UNCHANGED <<file, files, now, shared, recording>> /\ 4 \in 0 .. 4
        /\ mem' = [mem EXCEPT !["queue"].up = 4]
    <3>1. mem' = [mem EXCEPT !["queue"].up = 4]
      BY <1>3
    <3>2. UNCHANGED <<files, now, shared>>
      BY <1>3 DEF audioVars
    <3> QED  BY <1>1, <3>1, <3>2
  <2> QED  BY <2>1, <2>2, <2>4, <2>5, <2>6, <2>7, UpTyped
<1> QED  BY <1>2, <1>3 DEF StartImage

\* A thread opens the file.
LEMMA OpensTyped ==
  ASSUME TypeInv, NEW t \in {"main", "queue"}, NEW why \in {"redraw", "filter"},
         Moves(t, Open(why)), t = "main" \/ why = "filter",
         t = "queue" => op["main"].whose # "queue", t = "main" => recording = 0,
         UNCHANGED <<file, files, now, mem, shared, recording>>, Flags'
  PROVE  TypeInv'
<1> DEFINE o == Open(why)
<1>1. /\ o \in Ops /\ o.pc = "open" /\ o.whose = "ui" /\ o.data = NoData
      /\ o.target = 0 /\ Place(t, o) /\ t \in Threads
  BY OpenFields DEF Threads
<1> HIDE DEF o
<1>2. Locks(t, o) /\ Moves(t, o)
  BY <1>1 DEF Locks, o
<1>3. FileFits' /\ Len(files) \in Nat /\ FitsIn(NoData, Len(files))
  BY NothingFits DEF FileFits, Fits, TypeInv, Clocks
<1>4. FitsIn(o.data, Len(files)) /\ o.target <= Len(files)
  BY <1>1, <1>3
<1> QED  BY <1>1, <1>2, <1>3, <1>4, QuietTyped DEF Saving

LEMMA FindUploadTyped ==
  ASSUME TypeInv, FindUpload
  PROVE  TypeInv'
<1>1. /\ Moves("queue", Open("filter")) /\ op["main"].whose # "queue"
      /\ UNCHANGED <<file, files, now, mem, shared, recording>> /\ Flags'
  BY DEF FindUpload, Wakes, Moves, audioVars, memVars, lifeVars, flatHistory,
         listHistory, TypeInv, Flags
<1> QED  BY <1>1, OpensTyped
-------------------------------------------------------------------------------
(* The user, and results.                                                  *)

LEMMA MainIdle ==
  ASSUME TypeInv, op["main"].pc = "idle"
  PROVE  "main" \in Threads /\ op["main"].whose = "ui" /\ op["main"].why = ""
         /\ op["main"] \in Ops
  BY DEF TypeInv, OpsFit, Control, Place, Threads

LEMMA SameFiles ==
  ASSUME TypeInv, UNCHANGED <<files, now>>
  PROVE  /\ Grows /\ Len(files) \in Nat /\ FitsIn(NoData, Len(files'))
         /\ UNCHANGED file => FileFits'
  BY NothingFits DEF TypeInv, Grows, Clocks, FileFits, Fits

LEMMA CreateTyped ==
  ASSUME TypeInv, Create
  PROVE  TypeInv'
<1> DEFINE e == [recs |-> {}, flat |-> 0, up |-> 0]
<1>1. /\ op["main"].pc = "idle" /\ mem["ui"] = NoData /\ mem' = [mem EXCEPT !["ui"] = e]
      /\ UNCHANGED <<file, files, now, shared, recording, op>> /\ Flags'
  BY DEF Create, At, InActivity, audioVars, flatHistory, listHistory, TypeInv, Flags
<1>2. e \in Object /\ e # NoData /\ Fits(e)
  BY DEF Object, Datas, NoData, Fits, FitsIn, TypeInv, Clocks
<1> HIDE DEF e
<1>3. shared' = {} /\ recording' = 0
  BY <1>1 DEF TypeInv, Sharing, Held
<1>4. /\ mem' \in [Holders -> Object] /\ mem'["ui"] = e
      /\ \A h \in Holders : mem'[h] \in {mem[h], e}
      /\ \A h \in Holders \ {"ui"} : mem'[h] = mem[h]
  BY <1>1, <1>2 DEF TypeInv, ObjectsFit, Holders
<1>5. Grows /\ FileFits' /\ Len(files') \in Nat
  BY <1>1, SameFiles
<1>6. ObjectsFit' /\ Sharing' /\ RecordingHeld
  BY <1>1, <1>2, <1>3, <1>4, <1>5 DEF ObjectsFit, Sharing, Fits, TypeInv, RecordingHeld
<1>7. \A h \in {"ui", "player", "queue"} : mem[h] # NoData => mem'[h] # NoData
  BY <1>2, <1>4 DEF Holders
<1> QED  BY <1>1, <1>5, <1>6, <1>7, StayTyped

\* The main thread goes on to save an object.
LEMMA SavesTyped ==
  ASSUME TypeInv, op["main"].pc = "idle", NEW whose \in {"ui", "queue"},
         recording = 0 \/ whose = "queue",
         NEW why \in IF whose = "ui" THEN {"record", "publish", "leave"}
                     ELSE {"drop", "", "image"},
         op' = [op EXCEPT !["main"] = Save(whose, why)],
         whose = "queue" => op["queue"].pc = "idle",
         mem'[whose] # NoData, ObjectsFit', Sharing', Keeps("main"),
         mem["ui"] # NoData => mem'["ui"] # NoData,
         UNCHANGED <<file, files, now, recording>>, Flags'
  PROVE  TypeInv'
<1> DEFINE o == Save(whose, why)
<1>1. /\ o \in Ops /\ o.pc = "save" /\ o.whose = whose /\ o.data = NoData
      /\ o.target = 0 /\ Place("main", o)
  BY SaveFields
<1>2. Moves("main", o)
  BY DEF Moves
<1> HIDE DEF o
<1>3. Locks("main", o) /\ "main" \in Threads
  BY <1>1 DEF Locks, Threads
<1>4. Grows /\ FileFits' /\ FitsIn(NoData, Len(files')) /\ Len(files') \in Nat
  BY SameFiles
<1>5. op'["main"] = o
  BY <1>1, <1>2, <1>3, Moved DEF TypeInv
<1>6. RecordingHeld
  <2>1. recording' = recording /\ recording \in 0 .. Len(files')
    BY DEF TypeInv, Held
  <2>2. recording # 0 => mem["ui"] # NoData /\ o.whose = "queue"
    BY <1>1 DEF TypeInv, Held
  <2> QED  BY <1>5, <2>1, <2>2 DEF RecordingHeld
<1>7. FitsIn(o.data, Len(files')) /\ o.target <= Len(files')
  <2>1. o.data = NoData /\ o.target = 0
    BY <1>1
  <2>2. FitsIn(o.data, Len(files'))
    BY <2>1, <1>4
  <2>3. 0 <= Len(files')
    BY <1>4, NatBounds
  <2> QED  BY <2>1, <2>2, <2>3
<1> QED  BY <1>1, <1>2, <1>3, <1>4, <1>6, <1>7, StepTyped

LEMMA ClickDraftTyped ==
  ASSUME TypeInv, ClickDraft
  PROVE  TypeInv'
<1>1. PICK why \in {"record", "publish"} :
        op' = [op EXCEPT !["main"] = Save("ui", why)]
  BY DEF ClickDraft
<1>2. /\ op["main"].pc = "idle" /\ mem["ui"] = NoData /\ mem["index"].up = 0
      /\ mem' = [mem EXCEPT !["ui"] = mem["index"]]
      /\ UNCHANGED <<file, files, now, shared, recording>> /\ Flags'
  BY DEF ClickDraft, User, At, InActivity, audioVars, lifeVars, TypeInv, Flags
<1>3. shared' = {} /\ recording = 0 /\ mem["index"] # NoData
  BY <1>2 DEF TypeInv, Sharing, Held, NoData
<1>4. /\ mem' \in [Holders -> Object] /\ mem'["ui"] = mem["index"]
      /\ \A h \in Holders : mem'[h] \in {mem[h], mem["index"]}
      /\ \A h \in Holders \ {"ui"} : mem'[h] = mem[h]
  BY <1>2 DEF TypeInv, ObjectsFit, Holders
<1>5. ObjectsFit' /\ Sharing'
  BY <1>2, <1>3, <1>4 DEF ObjectsFit, Sharing, Fits, TypeInv, Holders
<1>6. Keeps("main")
  BY <1>3, <1>4 DEF Keeps, Holders
<1> QED  BY <1>1, <1>2, <1>3, <1>4, <1>5, <1>6, SavesTyped

LEMMA RecordedFiles ==
  ASSUME TypeInv, Record
  PROVE  \E new : /\ new \in 1 .. Len(files) + 1 /\ IsNext(files, new)
                  /\ recording' = new /\ now' = now /\ Grows /\ new <= Len(files')
                  /\ files'[new] = [recs |-> {new}, time |-> now, there |-> TRUE]
                  /\ \A i \in 1 .. Len(files) : i # new => files'[i] = files[i]
                  /\ mem' = Store([mem EXCEPT !["given"] = NoData],
                                  shared \ {"given"}, "ui",
                                  [mem["ui"] EXCEPT !.recs = @ \cup {new}])
<1>1. PICK new :
        /\ IsNext(files, new) /\ recording' = new /\ now' = now
        /\ files' = WithFile(files, new, [recs |-> {new}, time |-> now, there |-> TRUE])
        /\ mem' = Store([mem EXCEPT !["given"] = NoData], shared \ {"given"}, "ui",
                        [mem["ui"] EXCEPT !.recs = @ \cup {new}])
  BY DEF Record
<1> DEFINE f == [recs |-> {new}, time |-> now, there |-> TRUE]
<1>2. files \in Seq(Audio) /\ now \in Nat /\ new \in 1 .. Len(files) + 1 /\ new \in Nat
      /\ Len(files) \in Nat
  BY <1>1 DEF TypeInv, Clocks, IsNext
<1>3. f \in Audio /\ files' = WithFile(files, new, f)
  BY <1>1, <1>2 DEF Audio
<1> HIDE DEF f
<1>4. /\ files' \in Seq(Audio) /\ Len(files') >= Len(files) /\ new <= Len(files')
      /\ files'[new] = f
      /\ \A i \in 1 .. Len(files) : i # new => files'[i] = files[i]
  BY <1>2, <1>3, WithFileValues
<1>5. Grows
  BY <1>1, <1>4 DEF Grows, Clocks, TypeInv
<1> QED  BY <1>1, <1>2, <1>4, <1>5 DEF f

LEMMA RecordTyped ==
  ASSUME TypeInv, Record
  PROVE  TypeInv'
<1>1. PICK new :
        /\ new \in 1 .. Len(files) + 1 /\ IsNext(files, new)
        /\ recording' = new /\ now' = now /\ Grows /\ new <= Len(files')
        /\ mem' = Store([mem EXCEPT !["given"] = NoData],
                        shared \ {"given"}, "ui",
                        [mem["ui"] EXCEPT !.recs = @ \cup {new}])
  BY RecordedFiles
<1> DEFINE sharing == shared \ {"given"}
           m == [mem EXCEPT !["given"] = NoData]
           e == [mem["ui"] EXCEPT !.recs = @ \cup {new}]
<1>2. /\ op["main"].pc = "idle" /\ mem["ui"] # NoData
      /\ shared' = sharing /\ mem' = Store(m, sharing, "ui", e)
      /\ UNCHANGED <<file, op>> /\ Flags'
  BY <1>1 DEF Record, User, At, Draft, InActivity, lifeVars, listHistory, TypeInv, Flags
<1>3. Len(files) \in Nat /\ Len(files') \in Nat /\ new \in Nat /\ new \in 1 .. Len(files')
  BY <1>1 DEF TypeInv, Clocks, Grows
<1>4. mem["ui"] \in Datas /\ Fits(mem["ui"])
  BY <1>2, ObjectContents DEF TypeInv, ObjectsFit, Holders
<1>5. e \in Object /\ e # NoData /\ FitsIn(e, Len(files'))
  <2> DEFINE d == mem["ui"]
             recs == d.recs \cup {new}
  <2>1. d \in Datas /\ recs \in SUBSET Nat
    BY <1>3, <1>4 DEF Datas
  <2>2. e = [d EXCEPT !.recs = recs]
    BY <2>1 DEF Datas
  <2>3. FitsIn(d, Len(files'))
    BY <1>1, <1>4, StillFits DEF TypeInv
  <2> HIDE DEF recs, d, e
  <2>4. e \in Datas /\ e.recs = recs /\ e.flat = d.flat
    BY ONLY <2>1, <2>2, DataExcept
  <2> QED  BY <1>3, <2>3, <2>4, ObjectContents DEF recs, FitsIn, Object
<1>6. /\ m \in [Holders -> Object] /\ m["given"] = NoData
      /\ \A h \in Holders \ {"given"} : m[h] = mem[h]
  BY NothingFits DEF TypeInv, ObjectsFit, Holders
<1>7. \A x \in Holders : FitsIn(m[x], Len(files'))
  <2>1. \A x \in Holders : FitsIn(mem[x], Len(files'))
    BY <1>1, StillFits DEF TypeInv, ObjectsFit
  <2>2. FitsIn(NoData, Len(files'))
    BY <1>3, NothingFits
  <2> QED  BY <1>6, <2>1, <2>2
<1>8. /\ sharing \in SUBSET {"given", "player"}
      /\ \A x \in sharing : m[x] = m["ui"]
      /\ sharing # {} => m["ui"] # NoData
  BY <1>6 DEF TypeInv, Sharing, Holders
<1> HIDE DEF m, e, sharing
<1>9. /\ ObjectsFit' /\ Sharing' /\ mem'["ui"] = e
      /\ \A x \in Holders : mem'[x] = e \/ mem'[x] = m[x]
  <2>1. "ui" \in Holders
    BY DEF Holders
  <2> QED  BY <1>2, <1>5, <1>6, <1>7, <1>8, <2>1, StoreTyped
<1>10. FileFits'
  <2>1. FitsIn(file.data, Len(files'))
    BY <1>1, StillFits DEF TypeInv, FileFits
  <2> QED  BY <1>2, <2>1 DEF TypeInv, FileFits, Fits
<1>11. \A h \in {"ui", "player", "queue"} : mem[h] # NoData => mem'[h] # NoData
  BY <1>5, <1>6, <1>9 DEF Holders
<1>12. RecordingHeld
  BY <1>1, <1>2, <1>3, <1>5, <1>9 DEF RecordingHeld
<1> QED  BY <1>1, <1>2, <1>9, <1>10, <1>11, <1>12, StayTyped

LEMMA StopRecordingTyped ==
  ASSUME TypeInv, StopRecording
  PROVE  TypeInv'
<1>1. /\ recording # 0 /\ recording' = 0
      /\ mem' = [mem EXCEPT !["given"] = mem["ui"]]
      /\ shared' = shared \cup {"given"}
      /\ UNCHANGED <<file, files, now, op>> /\ Flags'
  BY DEF StopRecording, User, At, audioVars, lifeVars, listHistory, TypeInv, Flags
<1>2. mem["ui"] # NoData
  BY <1>1 DEF TypeInv, Held
<1>3. /\ mem' \in [Holders -> Object] /\ mem'["given"] = mem["ui"]
      /\ \A h \in Holders \ {"given"} : mem'[h] = mem[h]
      /\ \A h \in Holders : mem'[h] \in {mem[h], mem["ui"]}
  BY <1>1 DEF TypeInv, ObjectsFit, Holders
<1>4. Grows /\ FileFits' /\ Len(files') \in Nat
  BY <1>1, SameFiles
<1>5. ObjectsFit' /\ Sharing' /\ RecordingHeld
  BY <1>1, <1>2, <1>3, <1>4 DEF TypeInv, ObjectsFit, Fits, Sharing, Holders, RecordingHeld
<1>6. \A h \in {"ui", "player", "queue"} : mem[h] # NoData => mem'[h] # NoData
  BY <1>3 DEF Holders
<1> QED  BY <1>1, <1>4, <1>5, <1>6, StayTyped

LEMMA SaveDraftTyped ==
  ASSUME TypeInv, SaveDraft
  PROVE  TypeInv'
<1>1. PICK why \in {"publish", "leave"} :
        op' = [op EXCEPT !["main"] = Save("ui", why)]
  BY DEF SaveDraft
<1>2. /\ op["main"].pc = "idle" /\ mem["ui"] # NoData /\ recording = 0
      /\ UNCHANGED <<file, files, now, mem, shared, recording>> /\ Flags'
  BY DEF SaveDraft, User, At, Draft, InActivity, audioVars, memVars, lifeVars,
         listHistory, TypeInv, Flags
<1>3. ObjectsFit' /\ Sharing' /\ Keeps("main")
  BY <1>2 DEF ObjectsFit, Sharing, Fits, TypeInv, Keeps
<1> QED  BY <1>1, <1>2, <1>3, SavesTyped

LEMMA SubmitTyped ==
  ASSUME TypeInv, Submit
  PROVE  TypeInv'
<1> DEFINE e == [mem["ui"] EXCEPT !.up = 1]
<1>1. /\ op["main"].pc = "idle" /\ mem["ui"] # NoData /\ recording = 0
      /\ op' = [op EXCEPT !["main"] = Save("ui", "leave")]
      /\ mem' = Store(mem, shared, "ui", e)
      /\ UNCHANGED <<file, files, now, shared, recording>> /\ Flags'
  BY DEF Submit, User, At, Draft, InActivity, audioVars, lifeVars, listHistory,
         TypeInv, Flags
<1>2. mem["ui"] \in Datas /\ Fits(mem["ui"]) /\ "ui" \in Holders
  BY <1>1, ObjectContents DEF TypeInv, ObjectsFit, Holders
<1>3. e \in Datas /\ e.flat = mem["ui"].flat /\ e.recs = mem["ui"].recs
  BY <1>2 DEF Datas
<1> HIDE DEF e
<1>4. e \in Object /\ e # NoData /\ FitsIn(e, Len(files'))
  BY <1>1, <1>2, <1>3, ObjectContents DEF Object, Fits, FitsIn
<1>5. /\ ObjectsFit' /\ Sharing' /\ mem'["ui"] = e
      /\ \A x \in Holders : mem'[x] = e \/ mem'[x] = mem[x]
  <2>1. \A x \in Holders : FitsIn(mem[x], Len(files'))
    BY <1>1 DEF TypeInv, ObjectsFit, Fits
  <2>2. /\ mem \in [Holders -> Object] /\ shared \in SUBSET {"given", "player"}
        /\ \A x \in shared : mem[x] = mem["ui"]
        /\ shared # {} => mem["ui"] # NoData
        /\ shared' = shared
    BY <1>1 DEF TypeInv, ObjectsFit, Sharing
  <2> QED  BY <1>1, <1>2, <1>4, <2>1, <2>2, StoreTyped
<1>6. Keeps("main")
  BY <1>4, <1>5 DEF Keeps, Holders
<1> QED  BY <1>1, <1>4, <1>5, <1>6, SavesTyped

\* deleteBoo(): what it does to the files.
LEMMA DeletedTyped ==
  ASSUME TypeInv, Deleted, now' = now
  PROVE  /\ Grows /\ FileFits' /\ Len(files') = Len(files) /\ Len(files) \in Nat
         /\ gone' = TRUE /\ overtaken' \in BOOLEAN
         /\ \A i \in 1 .. Len(files) : files'[i] = NoFile
<1>1. files' = [i \in DOMAIN files |-> NoFile] /\ gone' = TRUE
      /\ file' = [file EXCEPT !.data = NoData] /\ overtaken' \in BOOLEAN
  BY DEF Deleted, TypeInv, Flags
<1>2. files \in Seq(Audio) /\ NoFile \in Audio
  BY AudioFields DEF TypeInv, Clocks
<1>3. files' \in [1 .. Len(files) -> Audio] /\ Len(files) \in Nat
      /\ \A i \in 1 .. Len(files) : files'[i] = NoFile
  BY <1>1, <1>2
<1>4. files' \in Seq(Audio) /\ Len(files') = Len(files)
  BY <1>3, SeqDef
<1>5. Grows
  BY <1>3, <1>4 DEF Grows, Clocks, TypeInv
<1>6. NoData \in Contents /\ Fits(NoData)
  BY NothingFits DEF TypeInv, Clocks, Fits
<1>7. FileFits'
  BY <1>1, <1>4, <1>6 DEF FileFits, TypeInv, Fits
<1> QED  BY <1>1, <1>3, <1>4, <1>5, <1>7

LEMMA DiscardTyped ==
  ASSUME TypeInv, NEW why \in {"", "canceled"}, Discard(why)
  PROVE  TypeInv'
<1> DEFINE o == [op["main"] EXCEPT !.pc = "leave", !.why = why]
<1>1. /\ op["main"].pc = "idle" /\ mem["ui"] # NoData /\ recording = 0 /\ Deleted
      /\ op' = [op EXCEPT !["main"].pc = "leave", !["main"].why = why]
      /\ UNCHANGED <<now, mem, shared, recording, running, created, saved,
                     raced, disturbed, stale, outdated>>
  BY DEF Discard, User, At, Draft, InActivity, memVars
<1>2. /\ Grows /\ FileFits' /\ Len(files') = Len(files) /\ Len(files) \in Nat
      /\ gone' = TRUE /\ overtaken' \in BOOLEAN
  BY <1>1, DeletedTyped
<1>3. "main" \in Threads /\ op["main"] \in Ops /\ op["main"].whose = "ui"
      /\ op \in [Threads -> Ops]
  BY <1>1, MainIdle DEF TypeInv, OpsFit
<1>4. /\ o \in Ops /\ o.pc = "leave" /\ o.whose = "ui" /\ o.why = why
      /\ o.data = op["main"].data /\ o.target = op["main"].target
  BY <1>3 DEF Ops
<1>5. Moves("main", o)
  BY <1>1, <1>3 DEF Moves
<1> HIDE DEF o
<1>6. Place("main", o) /\ Locks("main", o)
  BY <1>4 DEF Place, Reading, Saving, Locks
<1>7. ObjectsFit' /\ Sharing' /\ Flags' /\ Keeps("main")
  BY <1>1, <1>2 DEF ObjectsFit, Sharing, TypeInv, Fits, Flags, Keeps
<1>8. FitsIn(o.data, Len(files')) /\ o.target <= Len(files')
  BY <1>2, <1>3, <1>4, OpTyped
<1>9. RecordingHeld
  <2>1. recording' = 0 /\ Len(files') \in Nat
    BY <1>1, <1>2
  <2>2. 0 \in 0 .. Len(files')
    BY <2>1, NatBounds
  <2> QED  BY <2>1, <2>2 DEF RecordingHeld
<1> QED  BY <1>2, <1>3, <1>4, <1>5, <1>6, <1>7, <1>8, <1>9, StepTyped DEF Saving

LEMMA LeaveTyped ==
  ASSUME TypeInv, Leave
  PROVE  TypeInv'
<1> DEFINE o == Below(op["main"].why)
<1>1. /\ op["main"].pc = "leave" /\ Moves("main", o) /\ shared' = {}
      /\ mem' = [mem EXCEPT !["ui"] = NoData, !["given"] = NoData]
      /\ UNCHANGED <<file, files, now, recording>> /\ Flags'
  BY DEF Leave, At, audioVars, lifeVars, flatHistory, TypeInv, Flags, Moves
<1>2. /\ o \in Ops /\ o.pc \in {"open", "idle"} /\ o.whose = "ui" /\ o.data = NoData
      /\ o.target = 0 /\ Place("main", o)
  BY OpenFields, IdleFields DEF Below
<1> HIDE DEF o
<1>3. Locks("main", o) /\ "main" \in Threads
  BY <1>2 DEF Locks, Threads
<1>4. recording' = 0
  BY <1>1 DEF TypeInv, Held, Control, Place, Threads
<1>5. /\ mem' \in [Holders -> Object] /\ mem'["ui"] = NoData
      /\ \A h \in Holders : mem'[h] \in {mem[h], NoData}
      /\ mem'["player"] = mem["player"] /\ mem'["queue"] = mem["queue"]
  BY <1>1, NothingFits DEF TypeInv, ObjectsFit, Holders
<1>6. Grows /\ FileFits' /\ FitsIn(NoData, Len(files')) /\ Len(files') \in Nat
  BY <1>1, SameFiles
<1>7. ObjectsFit' /\ Sharing' /\ RecordingHeld
  BY <1>1, <1>4, <1>5, <1>6 DEF ObjectsFit, Fits, TypeInv, Sharing, RecordingHeld
<1>8. FitsIn(o.data, Len(files')) /\ o.target <= Len(files')
  BY <1>2, <1>6
<1>9. Keeps("main")
  BY <1>5 DEF Keeps
<1> QED  BY <1>1, <1>2, <1>3, <1>6, <1>7, <1>8, <1>9, StepTyped DEF Saving

LEMMA RefreshTyped ==
  ASSUME TypeInv, Refresh \/ Redraw
  PROVE  TypeInv'
<1>1. CASE Refresh
  <2>1. /\ mem["ui"] = NoData /\ Moves("main", Open("filter"))
        /\ UNCHANGED <<file, files, now, mem, shared, recording>> /\ Flags'
    BY <1>1 DEF Refresh, User, InActivity, audioVars, memVars, lifeVars,
                listHistory, TypeInv, Flags, Moves
  <2>2. recording = 0
    BY <2>1 DEF TypeInv, Held
  <2> QED  BY <2>1, <2>2, OpensTyped
<1>2. CASE Redraw
  <2>1. /\ mem["ui"] = NoData /\ Moves("main", Open("redraw"))
        /\ UNCHANGED <<file, files, now, mem, shared, recording>> /\ Flags'
    BY <1>2 DEF Redraw, InActivity, audioVars, memVars, lifeVars, flatHistory,
                listHistory, TypeInv, Flags, Moves
  <2>2. recording = 0
    BY <2>1 DEF TypeInv, Held
  <2> QED  BY <2>1, <2>2, OpensTyped
<1> QED  BY <1>1, <1>2

LEMMA ProgressTyped ==
  ASSUME TypeInv, Progress
  PROVE  TypeInv'
<1>1. PICK up \in {2, 3, 4} :
        /\ mem' = [mem EXCEPT !["queue"].up = up]
        /\ op' = [op EXCEPT !["main"] = Save("queue", IF up = 3 THEN "image" ELSE "")]
  BY DEF Progress
<1> DEFINE why == IF up = 3 THEN "image" ELSE ""
           o == Save("queue", why)
<1>2. /\ o \in Ops /\ o.pc = "save" /\ o.whose = "queue" /\ o.data = NoData
      /\ o.target = 0 /\ Place("main", o)
  BY SaveFields
<1>3. /\ mem["queue"] # NoData /\ op["queue"].pc = "idle" /\ Moves("main", o)
      /\ UNCHANGED <<file, files, now, shared, recording>> /\ Flags'
  BY <1>1 DEF Progress, Result, User, audioVars, lifeVars, listHistory, TypeInv,
              Flags, Moves
<1> HIDE DEF o
<1>4. Locks("main", o)
  BY <1>2, <1>3 DEF Locks
<1>5. up \in 0 .. 4
  OBVIOUS
<1> QED  BY <1>1, <1>2, <1>3, <1>4, <1>5, UpTyped

LEMMA UploadFailsTyped ==
  ASSUME TypeInv, UploadFails
  PROVE  TypeInv'
<1>1. /\ op["main"].pc = "idle" /\ mem["queue"] # NoData /\ op["queue"].pc = "idle"
      /\ op' = [op EXCEPT !["main"] = Save("queue", "drop")]
      /\ UNCHANGED <<file, files, now, mem, shared, recording>> /\ Flags'
  BY DEF UploadFails, Result, User, At, audioVars, memVars, lifeVars, listHistory,
         TypeInv, Flags
<1>2. ObjectsFit' /\ Sharing' /\ Keeps("main")
  BY <1>1 DEF ObjectsFit, Sharing, Fits, TypeInv, Keeps
<1> QED  BY <1>1, <1>2, SavesTyped

LEMMA PublishedTyped ==
  ASSUME TypeInv, Published
  PROVE  TypeInv'
<1>1. /\ op["queue"].pc = "idle" /\ op["main"].pc = "idle" /\ Deleted
      /\ mem' = [mem EXCEPT !["queue"] = NoData]
      /\ UNCHANGED <<now, op, shared, recording, running, created, saved,
                     raced, disturbed, stale, outdated>>
  BY DEF Published, Result, At, flatHistory
<1>2. /\ Grows /\ FileFits' /\ Len(files') = Len(files) /\ Len(files) \in Nat
      /\ gone' = TRUE /\ overtaken' \in BOOLEAN
  BY <1>1, DeletedTyped
<1>3. /\ mem' \in [Holders -> Object]
      /\ \A h \in Holders : mem'[h] \in {mem[h], NoData}
      /\ \A h \in Holders \ {"queue"} : mem'[h] = mem[h]
  BY <1>1, NothingFits DEF TypeInv, ObjectsFit, Holders
<1>4. Fits(NoData)
  BY NothingFits DEF TypeInv, Clocks, Fits
<1>5. ObjectsFit' /\ Sharing' /\ Flags'
  BY <1>1, <1>2, <1>3, <1>4
     DEF TypeInv, ObjectsFit, Sharing, Fits, Flags, Holders
<1>6. Keeps("main")
  BY <1>1, <1>3 DEF Keeps, Holders
<1>7. "main" \in Threads /\ op["main"] \in Ops /\ op["main"].whose = "ui"
  BY <1>1, MainIdle
<1>8. Moves("main", op["main"]) /\ Place("main", op["main"]) /\ Locks("main", op["main"])
  BY <1>1, <1>7 DEF Moves, TypeInv, OpsFit, Control, Locks
<1>9. FitsIn(op["main"].data, Len(files')) /\ op["main"].target <= Len(files')
  BY <1>2, <1>7, OpTyped
<1>10. RecordingHeld
  <2>1. recording' = recording /\ recording \in 0 .. Len(files')
    BY <1>1, <1>2 DEF TypeInv, Held
  <2>2. mem'["ui"] = mem["ui"] /\ op' = op
    BY <1>1, <1>3 DEF Holders
  <2>3. recording # 0 => /\ mem["ui"] # NoData
                         /\ op["main"].pc = "idle" \/ op["main"].whose = "queue"
    BY DEF TypeInv, Held
  <2>4. recording' # 0 => /\ mem'["ui"] # NoData
                          /\ op'["main"].pc = "idle" \/ op'["main"].whose = "queue"
    BY <2>1, <2>2, <2>3
  <2>5. recording' \in 0 .. Len(files')
    BY <2>1
  <2> QED  BY <2>4, <2>5 DEF RecordingHeld
<1> QED  BY <1>1, <1>2, <1>5, <1>6, <1>7, <1>8, <1>9, <1>10, StepTyped DEF Saving

\* The clock.
Ticked(f) == [f EXCEPT !.time = now + 1]
Written ==
  {recording} \cup {op[t].target : t \in {u \in Threads : op[u].pc = "flatten"}}

LEMMA TickedFiles ==
  ASSUME TypeInv, Tick
  PROVE  /\ now' = now + 1 /\ Grows /\ Len(files') = Len(files)
         /\ \A i \in 1 .. Len(files) :
              /\ files'[i].recs = files[i].recs /\ files'[i].there = files[i].there
              /\ IF i \in Written /\ files[i].there
                 THEN files'[i].time = now + 1 ELSE files'[i] = files[i]
<1>1. /\ now < MaxTime /\ now' = now + 1
      /\ files' = [i \in DOMAIN files |->
                     IF i \in Written /\ files[i].there THEN Ticked(files[i])
                     ELSE files[i]]
  BY DEF Tick, Written, Ticked
<1>2. files \in Seq(Audio) /\ now + 1 \in 1 .. MaxTime /\ Len(files) \in Nat
      /\ DOMAIN files = 1 .. Len(files) /\ now + 1 \in Nat
  BY <1>1 DEF TypeInv, Clocks
<1>3. \A f \in Audio : /\ Ticked(f) \in Audio /\ Ticked(f).time = now + 1
                       /\ Ticked(f).recs = f.recs /\ Ticked(f).there = f.there
  BY <1>2, AudioFields DEF Ticked
<1> HIDE DEF Written
<1>4. \A i \in 1 .. Len(files) :
        /\ files'[i] \in Audio
        /\ files'[i].recs = files[i].recs /\ files'[i].there = files[i].there
        /\ IF i \in Written /\ files[i].there
           THEN files'[i].time = now + 1 ELSE files'[i] = files[i]
  <2> SUFFICES ASSUME NEW i \in 1 .. Len(files)
               PROVE /\ files'[i] \in Audio
                     /\ files'[i].recs = files[i].recs
                     /\ files'[i].there = files[i].there
                     /\ IF i \in Written /\ files[i].there
                        THEN files'[i].time = now + 1 ELSE files'[i] = files[i]
    OBVIOUS
  <2>1. files[i] \in Audio
    BY <1>2
  <2>2. files'[i] = IF i \in Written /\ files[i].there THEN Ticked(files[i])
                    ELSE files[i]
    BY <1>1, <1>2
  <2> QED  BY <1>3, <2>1, <2>2
<1>5. files' = [i \in DOMAIN files |-> files'[i]]
  BY <1>1
<1>6. files' \in Seq(Audio) /\ Len(files') = Len(files)
  BY <1>2, <1>4, <1>5, FilesReplaced
<1>7. Grows
  BY <1>1, <1>2, <1>6 DEF Grows, Clocks
<1> QED  BY <1>1, <1>4, <1>6, <1>7

LEMMA TickTyped ==
  ASSUME TypeInv, Tick
  PROVE  TypeInv'
<1>1. /\ UNCHANGED <<file, mem, shared, recording, op>> /\ Flags'
      /\ Grows /\ Len(files') = Len(files)
  BY TickedFiles DEF Tick, memVars, lifeVars, flatHistory, listHistory, TypeInv, Flags
<1>2. FileFits' /\ ObjectsFit' /\ Sharing'
  BY <1>1 DEF TypeInv, FileFits, ObjectsFit, Sharing, Fits
<1>3. RecordingHeld
  BY <1>1 DEF RecordingHeld, TypeInv, Held
<1> QED  BY <1>1, <1>2, <1>3, StayTyped

LEMMA DieTyped ==
  ASSUME TypeInv, Die
  PROVE  TypeInv'
<1>1. /\ op' = [t \in Threads |-> Idle] /\ mem' = [h \in Holders |-> NoData]
      /\ shared' = {} /\ recording' = 0
      /\ UNCHANGED <<file, files, now>> /\ Flags'
  BY DEF Die, audioVars, lifeVars, listHistory, TypeInv, Flags
<1>2. NoData \in Object /\ Fits(NoData) /\ Len(files) \in Nat
  BY NothingFits DEF TypeInv, Clocks, Fits
<1>3. FileFits' /\ Clocks' /\ ObjectsFit' /\ Sharing'
  BY <1>1, <1>2 DEF TypeInv, FileFits, Clocks, ObjectsFit, Sharing, Fits
<1>4. op' \in [Threads -> Ops] /\ \A t \in Threads : op'[t] = Idle
  BY <1>1, IdleFields
<1>5. OpsFit'
  <2>1. \A t \in Threads : op'[t].data = NoData /\ op'[t].target = 0
    BY <1>4, IdleFields
  <2> QED  BY <1>1, <1>2, <1>4, <2>1 DEF OpsFit, Fits
<1>6. Control'
  BY <1>4, IdleFields DEF Control, Threads
<1>7. Held'
  <2>1. \A t \in Threads : op'[t].pc \notin Saving \cup {"flatten"}
    BY <1>4, IdleFields DEF Saving
  <2>2. recording' \in 0 .. Len(files')
    BY <1>1, <1>2
  <2> QED  BY <1>1, <2>1, <2>2 DEF Held
<1> QED  BY <1>1, <1>3, <1>5, <1>6, <1>7 DEF TypeInv

LEMMA StartTyped ==
  ASSUME TypeInv, Down, Start
  PROVE  TypeInv'
<1>1. /\ ~running /\ Moves("main", Open("filter"))
      /\ UNCHANGED <<file, files, now, mem, shared, recording>> /\ Flags'
  BY DEF Start, audioVars, memVars, lifeVars, flatHistory, listHistory, TypeInv,
         Flags, Moves
<1>2. recording = 0
  BY <1>1 DEF Down
<1> QED  BY <1>1, <1>2, OpensTyped

LEMMA DownStep == Down /\ [Next]_vars => Down'
<1> SUFFICES ASSUME Down, [Next]_vars PROVE Down'
  OBVIOUS
<1>1. CASE running' = running /\ running
  BY <1>1 DEF Down
<1>2. CASE Die
  BY <1>2 DEF Die, Down
<1>3. CASE Start
  BY <1>3 DEF Start, Down
<1>4. CASE Tick
  BY <1>4 DEF Tick, Down, memVars
<1>5. CASE UNCHANGED vars
  BY <1>5 DEF vars, Down
<1>6. ASSUME NEW t \in Threads, ThreadStep(t)
      PROVE  running' = running /\ running
  BY <1>6 DEF ThreadStep, BeginRead, EndRead, DeleteTorn, BeginWrite, CannotWrite,
              EndWrite, AfterSave, EndFlatten, At
<1>7. ASSUME UserStep
      PROVE  running' = running /\ running
  BY <1>7 DEF UserStep, Create, ClickDraft, Record, StopRecording, SaveDraft,
              Submit, DeleteDraft, Restart, Discard, Leave, Refresh, Redraw, User, At
<1>8. ASSUME UploadStep
      PROVE  running' = running /\ running
  BY <1>8 DEF UploadStep, FindUpload, StartUpload, StartImage, Progress,
              UploadFails, Published, Result, Wakes, User, At
<1>9. ASSUME Play
      PROVE  running' = running /\ running
  BY <1>9 DEF Play, At
<1> QED  BY <1>1, <1>2, <1>3, <1>4, <1>5, <1>6, <1>7, <1>8, <1>9 DEF Next

LEMMA TypedStep == TypeInv /\ Down /\ [Next]_vars => TypeInv'
<1> SUFFICES ASSUME TypeInv, Down, [Next]_vars PROVE TypeInv'
  OBVIOUS
<1>1. ASSUME NEW t \in Threads, ThreadStep(t)
      PROVE  TypeInv'
  BY <1>1, BeginReadTyped, EndReadTyped, DeleteTornTyped, BeginWriteTyped,
     CannotWriteTyped, EndWriteTyped, EndFlattenTyped DEF ThreadStep
<1>2. CASE UserStep
  <2>1. CASE DeleteDraft \/ Restart
    BY <2>1, DiscardTyped DEF DeleteDraft, Restart
  <2> QED  BY <1>2, <2>1, CreateTyped, ClickDraftTyped, RecordTyped,
              StopRecordingTyped, SaveDraftTyped, SubmitTyped, LeaveTyped,
              RefreshTyped DEF UserStep
<1>3. CASE UploadStep
  BY <1>3, FindUploadTyped, StartUploadTyped, StartImageTyped, ProgressTyped,
     UploadFailsTyped, PublishedTyped DEF UploadStep
<1>4. CASE Play
  BY <1>4, PlayTyped
<1>5. CASE Tick
  BY <1>5, TickTyped
<1>6. CASE Die
  BY <1>6, DieTyped
<1>7. CASE Start
  BY <1>7, StartTyped
<1>8. CASE UNCHANGED vars
  BY <1>8 DEF vars, TypeInv, FileFits, Clocks, ObjectsFit, Sharing, OpsFit,
              Flags, Control, Held, Fits
<1> QED  BY <1>1, <1>2, <1>3, <1>4, <1>5, <1>6, <1>7, <1>8 DEF Next

LEMMA Typed == Spec => [](TypeInv /\ Down)
<1>1. Init => TypeInv /\ Down
  BY Typed0 DEF Init, Down
<1>2. TypeInv /\ Down /\ [Next]_vars => (TypeInv /\ Down)'
  BY TypedStep, DownStep
<1> QED  BY <1>1, <1>2, PTL DEF Spec

\* Whatever a thread or an activity holds, a file or a save contains, is of its
\* type, and refers to recordings and flattened files there have been; the
\* player has the activity's object if it is taken to share it.
THEOREM TypeCorrect == Spec => []TypeOK
<1>1. TypeInv => TypeOK
  <2> SUFFICES ASSUME TypeInv PROVE TypeOK
    OBVIOUS
  <2>1. file.no \in Nat /\ file.data \in Contents
    BY DEF TypeInv, FileFits
  <2>2. files \in Seq(Audio) /\ now \in 1 .. MaxTime /\ Len(files) \in Nat
    BY DEF TypeInv, Clocks
  <2>3. mem \in [Holders -> Datas \cup {NoData}]
    BY DEF TypeInv, ObjectsFit, Object
  <2>4. \A h \in Holders : mem[h].recs \cup {mem[h].flat} \subseteq 0 .. Len(files)
    BY <2>2 DEF TypeInv, ObjectsFit, Fits, FitsIn
  <2>5. op \in [Threads -> Ops] /\ \A t \in Threads : op[t].target <= Len(files)
    BY DEF TypeInv, OpsFit
  <2>6. {running, created, saved, gone, raced, disturbed, outdated, overtaken,
         stale} \subseteq BOOLEAN
    BY DEF TypeInv, Flags
  <2>7. shared \subseteq {"given", "player"} /\ \A h \in shared : mem[h] = mem["ui"]
    BY DEF TypeInv, Sharing
  <2>8. recording \in 0 .. Len(files)
    BY DEF TypeInv, Held
  <2> QED  BY <2>1, <2>2, <2>3, <2>4, <2>5, <2>6, <2>7, <2>8 DEF TypeOK
<1> QED  BY <1>1, Typed, PTL
-------------------------------------------------------------------------------
(* What is saved.                                                          *)

Accessing == {"read", "torn", "write"}

\* Who writes is alone with the file.
WritesAlone(t) ==
  op[t].pc = "write" =>
    /\ \A u \in Threads \ {t} : op[u].pc \notin Accessing
    /\ file.no = op[t].no /\ file.data = Torn

\* Who reads has read what is there.
ReadsWhole(t) ==
  /\ op[t].pc # "torn"
  /\ op[t].pc = "read" =>
       op[t].no = file.no /\ op[t].data = file.data /\ file.data # Torn

Whole ==
  /\ \A t \in Threads : WritesAlone(t) /\ ReadsWhole(t)
  /\ file.data = Torn => \E t \in Threads : op[t].pc = "write"
  /\ saved => file.data # NoData

Unraced == ~raced /\ ~gone => Whole

\* A step that neither touches the file nor begins or ends an access to it; a
\* read may end.
LEMMA UnracedQuiet ==
  ASSUME TypeInv, Unraced, UNCHANGED <<file, saved, raced, gone>>,
         \A t \in Threads : \/ op'[t] = op[t]
                            \/ op'[t].pc \notin Accessing /\ op[t].pc # "write"
  PROVE  Unraced'
<1> SUFFICES ASSUME ~raced, ~gone PROVE Whole'
  BY DEF Unraced
<1>1. Whole
  BY DEF Unraced
<1>2. ASSUME NEW t \in Threads PROVE WritesAlone(t)' /\ ReadsWhole(t)'
  <2>1. CASE op'[t] = op[t]
    BY <1>1, <2>1 DEF Whole, WritesAlone, ReadsWhole, Accessing
  <2>2. CASE op'[t].pc \notin Accessing
    BY <2>2 DEF WritesAlone, ReadsWhole, Accessing
  <2> QED  BY <2>1, <2>2
<1>3. file'.data = Torn => \E t \in Threads : op'[t].pc = "write"
  BY <1>1 DEF Whole
<1> QED  BY <1>1, <1>2, <1>3 DEF Whole

\* A thread moves on, but not to an access.
LEMMA UnracedMoves ==
  ASSUME TypeInv, Unraced, UNCHANGED <<file, saved, raced, gone>>,
         NEW t \in Threads, NEW o \in Ops, Moves(t, o), o.pc \notin Accessing,
         op[t].pc # "write"
  PROVE  Unraced'
<1>1. \A u \in Threads : \/ op'[u] = op[u]
                         \/ op'[u].pc \notin Accessing /\ op[u].pc # "write"
  BY Moved DEF TypeInv
<1> QED  BY <1>1, UnracedQuiet

LEMMA UnracedBeginRead ==
  ASSUME TypeInv, Unraced, NEW t \in Threads, BeginRead(t)
  PROVE  Unraced'
<1> SUFFICES ASSUME ~raced', ~gone' PROVE Whole'
  BY DEF Unraced
<1>1. /\ op[t].pc = "open" /\ UNCHANGED <<file, saved, gone>> /\ ~raced
      /\ \A u \in Threads \ {t} : op[u].pc # "write"
  BY DEF BeginRead, At, Others, lifeVars
<1>2. Whole
  BY <1>1 DEF Unraced
<1> DEFINE o == [op[t] EXCEPT !.pc = "read", !.no = file.no, !.data = file.data]
<1>3. Moves(t, o)
  BY DEF BeginRead, Moves, TypeInv, OpsFit, Ops
<1>4. /\ o \in Ops /\ o.pc = "read" /\ o.no = file.no /\ o.data = file.data
  BY DEF TypeInv, OpsFit, FileFits, Ops
<1> HIDE DEF o
<1>5. op'[t] = o /\ \A u \in Threads \ {t} : op'[u] = op[u]
  BY <1>3, <1>4, Moved DEF TypeInv
<1>6. \A u \in Threads : op[u].pc # "write"
  BY <1>1
<1>7. file.data # Torn
  BY <1>2, <1>6 DEF Whole
<1>8. WritesAlone(t)' /\ ReadsWhole(t)'
  BY <1>1, <1>4, <1>5, <1>7 DEF WritesAlone, ReadsWhole
<1>9. ASSUME NEW u \in Threads \ {t} PROVE WritesAlone(u)' /\ ReadsWhole(u)'
  BY <1>1, <1>2, <1>5, <1>6 DEF Whole, WritesAlone, ReadsWhole
<1> QED  BY <1>1, <1>2, <1>7, <1>8, <1>9 DEF Whole

LEMMA UnracedEndRead ==
  ASSUME TypeInv, Unraced, NEW t \in Threads, EndRead(t)
  PROVE  Unraced'
<1>1. op[t].pc = "read" /\ UNCHANGED <<file, saved, gone>>
  BY DEF EndRead, At, lifeVars
<1> SUFFICES ASSUME ~raced', ~gone PROVE Unraced'
  BY <1>1 DEF Unraced
<1>2. raced' = raced \/ (raced' = (raced \/ Torn \notin Found(op[t])))
  BY DEF EndRead
<1>3. ~raced
  BY <1>2
<1>4. op[t].data = file.data /\ file.data # Torn
  BY <1>1, <1>3 DEF Unraced, Whole, ReadsWhole
<1>5. Found(op[t]) = {file.data}
  BY <1>4 DEF Found
<1>6. Loaded(t, file.data) /\ raced' = raced
  BY <1>4, <1>5 DEF EndRead
<1>7. file.data \in Object
  BY <1>4, ObjectContents DEF TypeInv, FileFits
<1>8. Moves(t, AfterLoad(t, file.data))
  BY <1>1, <1>6, <1>7, LoadedMem
<1>9. AfterLoad(t, file.data) \in Ops /\ AfterLoad(t, file.data).pc \notin Accessing
  BY <1>1, AfterLoadFields DEF Accessing
<1> QED  BY <1>1, <1>6, <1>8, <1>9, UnracedMoves

LEMMA UnracedBeginWrite ==
  ASSUME TypeInv, Unraced, NEW t \in Threads, BeginWrite(t)
  PROVE  Unraced'
<1> SUFFICES ASSUME ~raced', ~gone' PROVE Whole'
  BY DEF Unraced
<1> DEFINE no == IF file.data # NoData THEN file.no ELSE file.no + 1
           o == [op[t] EXCEPT !.pc = "write", !.no = no]
<1>1. /\ op[t].pc = "save" /\ file' = [no |-> no, data |-> Torn]
      /\ Moves(t, o)
  BY DEF BeginWrite, At, Moves
<1>2. \A u \in Threads \ {t} : op[u].pc \notin Accessing
  BY DEF BeginWrite, Others, Accessing
<1>3. no \in Nat
  BY DEF TypeInv, FileFits
<1> HIDE DEF no
<1>4. o \in Ops /\ o.pc = "write" /\ o.no = no
  BY <1>3 DEF TypeInv, OpsFit, Ops
<1> HIDE DEF o
<1>5. op'[t] = o /\ \A u \in Threads \ {t} : op'[u] = op[u]
  BY <1>1, <1>4, Moved DEF TypeInv
<1>6. file'.no = no /\ file'.data = Torn /\ file'.data # NoData
  BY <1>1, NothingFits
<1>7. WritesAlone(t)' /\ ReadsWhole(t)'
  BY <1>2, <1>4, <1>5, <1>6 DEF WritesAlone, ReadsWhole
<1>8. ASSUME NEW u \in Threads \ {t} PROVE WritesAlone(u)' /\ ReadsWhole(u)'
  BY <1>2, <1>5 DEF WritesAlone, ReadsWhole, Accessing
<1> QED  BY <1>4, <1>5, <1>6, <1>7, <1>8 DEF Whole

LEMMA UnracedEndWrite ==
  ASSUME TypeInv, Unraced, NEW t \in Threads, EndWrite(t)
  PROVE  Unraced'
<1> SUFFICES ASSUME ~raced', ~gone' PROVE Whole'
  BY DEF Unraced
<1>1. /\ op[t].pc = "write" /\ ~raced /\ ~gone
      /\ file' = Write(op[t]) /\ Moves(t, Saved(t))
  BY DEF EndWrite, AfterSave, At, Moves, Saved
<1>2. /\ \A u \in Threads \ {t} : op[u].pc \notin Accessing
      /\ file.no = op[t].no /\ file.data = Torn
  BY <1>1 DEF Unraced, Whole, WritesAlone
<1>3. file' = [file EXCEPT !.data = mem[op[t].whose]]
  BY <1>1, <1>2, NothingFits DEF Write
<1>4. mem[op[t].whose] \in Datas
  <2>1. op[t].whose \in Holders /\ mem[op[t].whose] # NoData
    BY <1>1 DEF TypeInv, OpsFit, Ops, Held, Saving
  <2>2. mem[op[t].whose] \in Object
    BY <2>1 DEF TypeInv, ObjectsFit
  <2> QED  BY <2>1, <2>2, ObjectContents
<1>5. file'.data \in Datas
  BY <1>3, <1>4 DEF TypeInv, FileFits
<1>6. file'.data # Torn /\ file'.data # NoData
  BY <1>5 DEF Datas, Torn, NoData
<1>7. Saved(t) \in Ops /\ Saved(t).pc \notin Accessing
  BY <1>1, SavedFields DEF Saving, Accessing
<1>8. op'[t] = Saved(t) /\ \A u \in Threads \ {t} : op'[u] = op[u]
  BY <1>1, <1>7, Moved DEF TypeInv
<1>9. \A u \in Threads : op'[u].pc \notin Accessing
  BY <1>2, <1>7, <1>8
<1>10. \A u \in Threads : WritesAlone(u)' /\ ReadsWhole(u)'
  BY <1>9 DEF WritesAlone, ReadsWhole, Accessing
<1> QED  BY <1>6, <1>10 DEF Whole

LEMMA UnracedDie ==
  ASSUME TypeInv, Unraced, Die
  PROVE  Unraced'
<1> SUFFICES ASSUME ~raced', ~gone' PROVE Whole'
  BY DEF Unraced
<1>1. /\ UNCHANGED <<file, saved, gone>> /\ ~raced
      /\ \A t \in Threads : op'[t] = Idle
  BY DEF Die, lifeVars
<1>2. \A t \in Threads : op[t].pc # "write"
  BY DEF Die, Others, Threads
<1>3. Whole
  BY <1>1 DEF Unraced
<1>4. \A t \in Threads : WritesAlone(t)' /\ ReadsWhole(t)'
  BY <1>1, IdleFields DEF WritesAlone, ReadsWhole
<1> QED  BY <1>1, <1>2, <1>3, <1>4 DEF Whole

LEMMA UnracedFlatten ==
  ASSUME TypeInv, Unraced, NEW t \in Threads, NEW h \in Holders, NEW m, NEW sharing,
         Flattener(t, h, m, sharing), Flatten(t, h, m, sharing),
         UNCHANGED <<file, saved, raced, gone>>
  PROVE  Unraced'
<1>1. op[t].pc # "write"
  BY DEF Flattener
<1>2. CASE FlattenDone(t, h, m, sharing)
  <2>1. Moves(t, Idle) /\ Idle \in Ops /\ Idle.pc \notin Accessing
    BY <1>2, IdleFields DEF FlattenDone, Accessing
  <2> QED  BY <1>1, <2>1, UnracedMoves
<1>3. ASSUME NEW target, NEW made, FlattenBegun(t, h, m, sharing, target, made)
      PROVE  Unraced'
  <2>1. /\ Begun(m[h], h, target) \in Ops /\ Moves(t, Begun(m[h], h, target))
    BY <1>3, BegunValues DEF TypeInv
  <2>2. Begun(m[h], h, target).pc = "flatten"
    BY DEF Begun, Idle
  <2> QED  BY <1>1, <2>1, <2>2, UnracedMoves DEF Accessing
<1> QED  BY <1>2, <1>3, FlattenCases DEF TypeInv

LEMMA UnracedThread ==
  ASSUME TypeInv, Unraced, NEW t \in Threads, ThreadStep(t)
  PROVE  Unraced'
<1>1. CASE DeleteTorn(t)
  <2>1. op[t].pc = "torn" /\ raced' = raced /\ gone' = gone
    BY <1>1 DEF DeleteTorn, At, lifeVars
  <2> QED  BY <2>1 DEF Unraced, Whole, ReadsWhole
<1>2. CASE EndFlatten(t)
  <2>1. \/ Moves(t, Save(op[t].whose, ""))
        \/ Moves(t, [op[t] EXCEPT !.pc = "fatal"])
    BY <1>2 DEF EndFlatten, Moves
  <2>2. /\ Save(op[t].whose, "") \in Ops
        /\ Save(op[t].whose, "").pc = "save"
        /\ [op[t] EXCEPT !.pc = "fatal"] \in Ops
        /\ [op[t] EXCEPT !.pc = "fatal"].pc = "fatal"
    <3>1. op[t] \in Ops
      BY DEF TypeInv, OpsFit
    <3> QED  BY <3>1 DEF Ops, Save, Idle, Contents
  <2>3. UNCHANGED <<file, saved, raced, gone>> /\ op[t].pc = "flatten"
    BY <1>2 DEF EndFlatten, At, lifeVars
  <2> QED  BY <2>1, <2>2, <2>3, UnracedMoves DEF Accessing
<1>3. CASE CannotWrite(t)
  <2>1. /\ op[t].pc = "save" /\ Moves(t, Saved(t))
        /\ UNCHANGED <<file, saved, raced, gone>>
    BY <1>3 DEF CannotWrite, AfterSave, At, Moves, Saved
  <2>2. Saved(t) \in Ops /\ Saved(t).pc \notin Accessing
    BY <2>1, SavedFields DEF Saving, Accessing
  <2> QED  BY <2>1, <2>2, UnracedMoves
<1> QED  BY <1>1, <1>2, <1>3, UnracedBeginRead, UnracedEndRead,
            UnracedBeginWrite, UnracedEndWrite DEF ThreadStep

\* The main thread begins with something of the user's.
LEMMA UnracedUser ==
  ASSUME TypeInv, Unraced, UserStep
  PROVE  Unraced'
<1>1. "main" \in Threads
  BY DEF Threads
<1>2. ASSUME op' = op, UNCHANGED <<file, saved, raced, gone>> PROVE Unraced'
  BY <1>2, UnracedQuiet
<1>3. CASE Create \/ Record \/ StopRecording
  BY <1>2, <1>3 DEF Create, Record, StopRecording, User, lifeVars
<1>4. CASE DeleteDraft \/ Restart
  BY <1>4 DEF DeleteDraft, Restart, Discard, Deleted, Unraced
<1>5. CASE ClickDraft \/ SaveDraft \/ Submit
  <2>1. PICK why \in {"record", "publish", "leave"} :
          op' = [op EXCEPT !["main"] = Save("ui", why)]
    BY <1>5 DEF ClickDraft, SaveDraft, Submit
  <2>2. op["main"].pc = "idle" /\ UNCHANGED <<file, saved, raced, gone>>
    BY <1>5 DEF ClickDraft, SaveDraft, Submit, User, At, lifeVars
  <2> QED  BY <1>1, <2>1, <2>2, SaveFields, UnracedMoves DEF Moves, Accessing
<1>6. CASE Leave
  <2>1. /\ Moves("main", Below(op["main"].why)) /\ op["main"].pc = "leave"
        /\ UNCHANGED <<file, saved, raced, gone>>
    BY <1>6 DEF Leave, At, Moves, lifeVars
  <2>2. /\ Below(op["main"].why) \in Ops
        /\ Below(op["main"].why).pc \notin Accessing
    BY OpenFields, IdleFields DEF Below, Accessing
  <2> QED  BY <1>1, <2>1, <2>2, UnracedMoves
<1>7. CASE Redraw \/ Refresh
  <2>1. PICK why \in {"redraw", "filter"} : Moves("main", Open(why))
    BY <1>7 DEF Redraw, Refresh, Moves
  <2>2. op["main"].pc = "idle" /\ UNCHANGED <<file, saved, raced, gone>>
    BY <1>7 DEF Redraw, Refresh, User, At, lifeVars
  <2> QED  BY <1>1, <2>1, <2>2, OpenFields, UnracedMoves DEF Accessing
<1> QED  BY <1>3, <1>4, <1>5, <1>6, <1>7 DEF UserStep

LEMMA UnracedUpload ==
  ASSUME TypeInv, Unraced, UploadStep
  PROVE  Unraced'
<1>1. "main" \in Threads /\ "queue" \in Threads /\ "queue" \in Holders
  BY DEF Threads, Holders
<1>2. CASE FindUpload
  <2>1. /\ Moves("queue", Open("filter")) /\ op["queue"].pc = "idle"
        /\ UNCHANGED <<file, saved, raced, gone>>
    BY <1>2 DEF FindUpload, Wakes, At, Moves, lifeVars
  <2> QED  BY <1>1, <2>1, OpenFields, UnracedMoves DEF Accessing
<1>3. CASE StartUpload
  <2>1. /\ Flatten("queue", "queue", mem, shared)
        /\ UNCHANGED <<file, saved, raced, gone>>
        /\ Wakes /\ mem["queue"].up = 1
    BY <1>3 DEF StartUpload, lifeVars
  <2>2. Flattener("queue", "queue", mem, shared)
    BY <2>1, QueueFlattener
  <2> QED  BY <1>1, <2>1, <2>2, UnracedFlatten
<1>4. ASSUME NEW t \in {"main", "queue"}, StartImage(t)
      PROVE  Unraced'
  <2>1. /\ \/ t = "main" /\ At("main", "image")
           \/ t = "queue" /\ Wakes
        /\ mem["queue"].up = 3 /\ t \in Threads
        /\ UNCHANGED <<file, saved, raced, gone>>
    BY <1>4 DEF StartImage, Threads, lifeVars
  <2>2. CASE Flatten(t, "queue", mem, shared)
    <3>1. Flattener(t, "queue", mem, shared)
      BY <2>1, QueueFlattener
    <3> QED  BY <1>1, <2>1, <2>2, <3>1, UnracedFlatten
  <2>3. CASE op' = [op EXCEPT ![t] = Save("queue", "")]
    <3>1. op[t].pc \in {"idle", "image"}
      BY <2>1 DEF Wakes, At
    <3> QED  BY <2>1, <2>3, <3>1, SaveFields, UnracedMoves DEF Moves, Accessing
  <2> QED  BY <1>4, <2>2, <2>3 DEF StartImage
<1>5. CASE Progress \/ UploadFails
  <2>1. PICK why \in {"", "drop", "image"} :
          op' = [op EXCEPT !["main"] = Save("queue", why)]
    BY <1>5 DEF Progress, UploadFails
  <2>2. op["main"].pc = "idle" /\ UNCHANGED <<file, saved, raced, gone>>
    BY <1>5 DEF Progress, UploadFails, Result, User, At, lifeVars
  <2> QED  BY <1>1, <2>1, <2>2, SaveFields, UnracedMoves DEF Moves, Accessing
<1>6. CASE Published
  BY <1>6 DEF Published, Deleted, Unraced
<1> QED  BY <1>2, <1>3, <1>4, <1>5, <1>6 DEF UploadStep

LEMMA UnracedStep == TypeInv /\ Down /\ Unraced /\ [Next]_vars => Unraced'
<1> SUFFICES ASSUME TypeInv, Down, Unraced, [Next]_vars PROVE Unraced'
  OBVIOUS
<1>1. CASE Play
  <2>1. /\ Flattener("player", "player", TakenObjects, TakenSharing)
        /\ Flatten("player", "player", TakenObjects, TakenSharing)
        /\ UNCHANGED <<file, saved, raced, gone>>
    BY <1>1, PlayFlattens DEF lifeVars
  <2>2. "player" \in Threads /\ "player" \in Holders
    BY DEF Threads, Holders
  <2> QED  BY <2>1, <2>2, UnracedFlatten
<1>2. CASE Start
  <2>1. /\ Moves("main", Open("filter")) /\ UNCHANGED <<file, saved, raced, gone>>
        /\ op["main"] = Idle /\ "main" \in Threads
    BY <1>2 DEF Start, Moves, Down, Threads, lifeVars
  <2> QED  BY <2>1, OpenFields, IdleFields, UnracedMoves DEF Accessing
<1>3. CASE Tick \/ UNCHANGED vars
  BY <1>3, UnracedQuiet DEF Tick, vars, lifeVars
<1> QED  BY <1>1, <1>2, <1>3, UnracedThread, UnracedUser, UnracedUpload,
            UnracedDie DEF Next

\* A boo that was saved is on disk, and whole but while it is written, until it
\* is deleted on purpose, unless a save overlapped with another access or was cut
\* short, or an access failed: who writes is alone with the file, so nobody finds
\* it torn.
THEOREM NothingLost == Spec => []LostOnlyByRace
<1>1. Init => Unraced
  <2> SUFFICES ASSUME Init PROVE Whole
    BY DEF Unraced
  <2>1. \A t \in Threads : op[t] = Idle
    BY DEF Init
  <2>2. file.data = NoData /\ saved = FALSE
    BY DEF Init
  <2>3. \A t \in Threads : WritesAlone(t) /\ ReadsWhole(t)
    BY <2>1, IdleFields DEF WritesAlone, ReadsWhole
  <2> QED  BY <2>2, <2>3, NothingFits DEF Whole
<1>2. TypeInv /\ Unraced => LostOnlyByRace
  <2> SUFFICES ASSUME TypeInv, Unraced, saved, ~gone, ~raced
               PROVE  \/ file.data \in Datas
                      \/ file.data = Torn /\ \E t \in Threads : op[t].pc = "write"
    BY DEF LostOnlyByRace
  <2>1. Whole /\ file.data \in Contents
    BY DEF Unraced, TypeInv, FileFits
  <2> QED  BY <2>1, DataFields DEF Whole
<1> QED  BY <1>1, <1>2, Typed, UnracedStep, PTL DEF Spec
===============================================================================
