------------------------------ MODULE BooPlayer ------------------------------
(***************************************************************************)
(* The playback thread (service/BooPlayer.java) with its two kinds of      *)
(* player (APIPlayer over MediaPlayer, FLACPlayerWrapper over FLACPlayer)  *)
(* and the playback notification of AudiobooService.                       *)
(*                                                                         *)
(* Callers only set a pending ("target") state; one thread moves the       *)
(* actual state towards it.  Callbacks of the players come from the main   *)
(* thread (MediaPlayer) or from a thread of their own (FLACPlayer): a      *)
(* callback begins, and takes effect when it gets mLock, by which time     *)
(* its player may have been replaced.  A critical section of mLock is one  *)
(* step.  interrupt() only shortens a sleep that ends anyway, so the loop  *)
(* may iterate at any time.                                                *)
(***************************************************************************)
EXTENDS Integers

CONSTANTS
  RemoteBoos,  \* boos played by an APIPlayer (remote ones and the intro)
  LocalBoos,   \* boos played by a FLACPlayerWrapper
  OddBoos,     \* boos that are neither local nor remote
  NoBoo,       \* a null Boo
  Positions,   \* arguments of seekTo()
  MaxCalls     \* bound: calls of the playback interface

Boos == RemoteBoos \cup LocalBoos \cup OddBoos

ASSUME BoosAssumption ==
  /\ NoBoo \notin Boos
  /\ RemoteBoos \cap LocalBoos = {}
  /\ OddBoos \cap (RemoteBoos \cup LocalBoos) = {}
  /\ Positions \subseteq Nat
  /\ MaxCalls \in Nat

VARIABLES
  tpc,         \* the thread: "started" (run() not begun), "loop", "exited"
  shouldRun,   \* mShouldRun
  state,       \* mState
  target,      \* mTargetState
  reset,       \* mResetState
  boo,         \* mBoo
  seek,        \* mSeekTo, with whether a boo was playing at the call
  player,      \* mPlayer; kind "none" when null
  made,        \* how many players were made so far
  ending,      \* ids of FLAC threads told to stop that still run
  callbacks,   \* callbacks that have begun and not yet taken effect
  timer,       \* mTimer # null
  tick,        \* a timer task is running
  notification,\* the playback notification is up
  destroyed,   \* the service's onDestroy() has run
  crashed,     \* a thread died of an uncaught exception
  calls,       \* calls made so far
  meant,       \* history: the target as calls, and the player at work, set it
  jumped,      \* history: the last seek that was carried out
  crossed,     \* history: an onPrepared was taken for that of another player
  late         \* history: a timer task outlived its timer

threadVars  == <<tpc, shouldRun>>
machineVars == <<state, target, meant, reset, boo, seek>>
mediaVars   == <<player, made, ending>>
noticeVars  == <<timer, tick, notification, late>>
vars == <<tpc, shouldRun, state, target, meant, reset, boo, seek, player, made,
          ending, callbacks, timer, tick, notification, destroyed, crashed,
          calls, jumped, crossed, late>>

States == {"NONE", "PREPARING", "PAUSED", "PLAYING", "FINISHED", "BUFFERING", "ERROR"}
Active == {"PLAYING", "BUFFERING"}

NoPlayer == [kind |-> "none", id |-> 0, boo |-> NoBoo,
             prepared |-> FALSE, started |-> FALSE, played |-> FALSE,
             alive |-> FALSE]
NoSeek == [pos |-> -1, live |-> FALSE]

Players == [kind : {"none", "api", "flac"}, id : Nat, boo : Boos \cup {NoBoo},
            prepared : BOOLEAN, started : BOOLEAN, played : BOOLEAN,
            alive : BOOLEAN]
Seeks == [pos : Positions \cup {-1}, live : BOOLEAN]
Callbacks == [event : {"prepared", "finished", "error", "playing", "buffering"},
              kind : {"api", "flac"}, id : Nat]

Init ==
  /\ tpc = "started" /\ shouldRun = FALSE
  /\ state = "NONE" /\ target = "NONE" /\ meant = "NONE" /\ reset = FALSE
  /\ boo = NoBoo /\ seek = NoSeek
  /\ player = NoPlayer /\ made = 0 /\ ending = {}
  /\ callbacks = {}
  /\ timer = FALSE /\ tick = FALSE /\ notification = FALSE
  /\ destroyed = FALSE /\ crashed = FALSE /\ calls = 0
  /\ jumped = NoSeek /\ crossed = FALSE /\ late = FALSE

-------------------------------------------------------------------------------
(* The playback interface.  The binder of the service runs in the process  *)
(* of its callers, on the main thread, which also runs the callbacks of    *)
(* MediaPlayer: while one of those is under way no call is made.           *)

MainThreadFree == \A c \in callbacks : c.kind # "api"

Called ==
  /\ ~destroyed /\ MainThreadFree
  /\ calls < MaxCalls
  /\ calls' = calls + 1

\* play(boo, playImmediately)
Play(b, immediately) ==
  /\ Called
  /\ boo' = b
  /\ target' = IF b = NoBoo THEN "ERROR"
               ELSE IF immediately THEN "PLAYING" ELSE "PAUSED"
  /\ meant' = target' /\ reset' = TRUE
  /\ UNCHANGED <<state, seek, callbacks, destroyed, crashed, jumped, crossed>>
  /\ UNCHANGED threadVars /\ UNCHANGED mediaVars /\ UNCHANGED noticeVars

\* stop() and pause() of the binder also take the notification down.
SetTarget(t) ==
  /\ target' = t /\ meant' = t
  /\ UNCHANGED <<state, reset, boo, seek, callbacks, destroyed, crashed, jumped, crossed>>
  /\ UNCHANGED threadVars /\ UNCHANGED mediaVars

Stop ==
  /\ Called /\ SetTarget("FINISHED")
  /\ notification' = FALSE
  /\ UNCHANGED <<timer, tick, late>>

Pause ==
  /\ Called /\ SetTarget("PAUSED")
  /\ notification' = FALSE
  /\ UNCHANGED <<timer, tick, late>>

\* Mutated form: resume() goes back to whatever the player was doing.
ResumeAsStated ==
  /\ Called /\ SetTarget(state)
  /\ UNCHANGED noticeVars

Resume ==
  /\ Called /\ SetTarget("PLAYING")
  /\ UNCHANGED noticeVars

\* seekTo(position): the position is only noted.
SeekTo(p) ==
  /\ Called
  /\ seek' = [pos |-> p, live |-> state \in Active]
  /\ UNCHANGED <<state, target, meant, reset, boo, callbacks, destroyed, crashed,
                 jumped, crossed>>
  /\ UNCHANGED threadVars /\ UNCHANGED mediaVars /\ UNCHANGED noticeVars

\* AudiobooService.onDestroy(); its mPlayer is null afterwards.
Destroy ==
  /\ ~destroyed /\ MainThreadFree
  /\ destroyed' = TRUE
  /\ notification' = FALSE
  /\ shouldRun' = FALSE
  /\ UNCHANGED <<tpc, callbacks, crashed, calls, jumped, crossed, timer, tick, late>>
  /\ UNCHANGED machineVars /\ UNCHANGED mediaVars
-------------------------------------------------------------------------------
(* What the thread does to its player.                                     *)

\* Mutated form: nobody is told that playback is over.
TimerForgotten == timer' = FALSE /\ UNCHANGED notification

\* Cancels the timer, if there is one, and with it the notification.
CancelTimer ==
  IF timer THEN timer' = FALSE /\ notification' = FALSE
           ELSE UNCHANGED <<timer, notification>>

\* stopUnlocked(): the player is stopped and released; a FLAC thread is only
\* told to end.
StopUnlocked ==
  /\ ending' = IF player.kind = "flac" /\ player.alive
               THEN ending \cup {player.id} ELSE ending
  /\ CancelTimer

\* A new player for boo b.
NewPlayer(kind, b, ok) ==
  [kind |-> kind, id |-> made + 1, boo |-> b,
   prepared |-> ok /\ kind = "flac", started |-> FALSE, played |-> FALSE,
   alive |-> ok]

\* Mutated form: what is neither local nor remote is not turned away.
PrepareUnknown(old) ==
  /\ made' = made + 1
  /\ \E ok \in BOOLEAN :
       IF boo \in LocalBoos
         THEN /\ player' = NewPlayer("flac", boo, ok)
              /\ state' = IF ok THEN "PAUSED" ELSE "ERROR"
         ELSE /\ player' = IF boo \in RemoteBoos THEN NewPlayer("api", boo, ok) ELSE old
              /\ state' = IF ok THEN "PREPARING" ELSE "ERROR"

\* prepareInternal(): MediaPlayer prepares in the background; a FLACPlayer is
\* ready at once, when its thread starts.  A player that cannot be set up is
\* kept all the same.  `old' is what mPlayer holds if none is made.
PrepareInternal(old) ==
  \/ /\ boo \in OddBoos \cup {NoBoo}
     /\ state' = "ERROR"
     /\ player' = old /\ UNCHANGED made
  \/ /\ boo \in RemoteBoos \cup LocalBoos
     /\ made' = made + 1
     /\ \E ok \in BOOLEAN :
          IF boo \in RemoteBoos
            THEN /\ player' = NewPlayer("api", boo, ok)
                 /\ state' = IF ok THEN "PREPARING" ELSE "ERROR"
            ELSE /\ player' = NewPlayer("flac", boo, ok)
                 /\ state' = IF ok THEN "PAUSED" ELSE "ERROR"

\* Mutated form: the progress timer goes on while playback is paused.
PauseKeepsTimer ==
  /\ player' = [player EXCEPT !.started = FALSE]
  /\ state' = "PAUSED"
  /\ UNCHANGED <<made, ending, timer, notification>>

\* pauseInternal()
PauseInternal ==
  /\ player' = [player EXCEPT !.started = FALSE]
  /\ state' = "PAUSED"
  /\ CancelTimer
  /\ UNCHANGED <<made, ending>>

\* resumeInternal(): a player that is not prepared refuses.
ResumeInternal ==
  /\ IF player.prepared
       THEN /\ player' = [player EXCEPT !.started = player.alive, !.played = TRUE]
            /\ state' = "PLAYING"
            /\ timer' = TRUE
       ELSE /\ state' = "ERROR"
            /\ UNCHANGED <<player, timer>>
  /\ UNCHANGED <<made, ending, notification>>

-------------------------------------------------------------------------------
(* The thread.                                                             *)

\* Pseudo-states count as the state they stand for.
NormalizeState(s) == CASE s = "BUFFERING" -> "PLAYING"
                       [] s = "ERROR"     -> "NONE"
                       [] OTHER           -> s

\* STATE_DECISION_MATRIX: how to get from state s towards state t.
Decision(s, t) ==
  IF s = t \/ s = "PREPARING" THEN "NONE" ELSE
  CASE s = "NONE" /\ t = "FINISHED"                 -> "STOP"
    [] s = "NONE" /\ t # "FINISHED"                 -> "PREPARE"
    [] s # "NONE" /\ t = "NONE"                     -> "STOP"
    [] s \in {"PAUSED", "PLAYING"} /\ t = "FINISHED" -> "STOP"
    [] s = "PAUSED" /\ t = "PLAYING"                -> "RESUME"
    [] s = "PLAYING" /\ t = "PAUSED"                -> "PAUSE"
    [] OTHER                                        -> "RESET"

\* run() begins: a stop before this point is undone, a reset forgotten.
Begin ==
  /\ tpc = "started"
  /\ tpc' = "loop" /\ shouldRun' = TRUE /\ reset' = FALSE
  /\ UNCHANGED <<state, target, meant, boo, seek, callbacks, destroyed, crashed,
                 calls, jumped, crossed>>
  /\ UNCHANGED mediaVars /\ UNCHANGED noticeVars

LoopFrame == UNCHANGED <<tpc, shouldRun, target, meant, boo, seek, callbacks,
                         tick, destroyed, crashed, calls, crossed, late>>

\* One iteration after play(): the player goes; the machine starts over, unless
\* the target is the error state.
IterateReset ==
  /\ tpc = "loop" /\ shouldRun /\ reset
  /\ reset' = FALSE
  /\ StopUnlocked
  /\ \/ /\ target = "ERROR"
        /\ state' = "ERROR" /\ player' = NoPlayer /\ UNCHANGED made
     \/ /\ target # "ERROR"
        /\ CASE Decision("NONE", NormalizeState(target)) = "PREPARE" ->
                  PrepareInternal(NoPlayer)
             [] Decision("NONE", NormalizeState(target)) = "STOP" ->
                  state' = target /\ player' = NoPlayer /\ UNCHANGED made
             [] OTHER -> player' = NoPlayer /\ UNCHANGED <<state, made>>
  /\ UNCHANGED jumped
  /\ LoopFrame

\* Mutated form: a resume leads out of the error state.
ActionOutOfError == Decision(NormalizeState(state), NormalizeState(target))

\* Mutated form: what has finished is not played again.
ActionOnlyForward == IF state \in {"ERROR", "FINISHED"} THEN "NONE"
                     ELSE Decision(NormalizeState(state), NormalizeState(target))

\* The action of an iteration without reset; in the error state there is none.
Action == IF state = "ERROR" THEN "NONE"
          ELSE Decision(NormalizeState(state), NormalizeState(target))

\* An iteration without reset.  mSeekTo is not cleared when it was used.
Iterate ==
  /\ tpc = "loop" /\ shouldRun /\ ~reset
  /\ \/ /\ Action = "NONE"
        /\ jumped' = IF state = "PLAYING" /\ seek.pos > 0 THEN seek ELSE jumped
        /\ UNCHANGED <<state, timer, notification>> /\ UNCHANGED mediaVars
     \/ /\ Action = "PREPARE"
        /\ PrepareInternal(player)
        /\ UNCHANGED <<ending, timer, notification, jumped>>
     \/ /\ Action = "RESUME"
        /\ ResumeInternal /\ UNCHANGED jumped
     \/ /\ Action = "STOP"
        /\ StopUnlocked
        /\ state' = target /\ player' = NoPlayer
        /\ UNCHANGED <<made, jumped>>
     \/ /\ Action = "PAUSE"
        /\ PauseInternal /\ UNCHANGED jumped
     \/ /\ Action = "RESET"
        /\ StopUnlocked
        /\ PrepareInternal(NoPlayer)
        /\ UNCHANGED jumped
  /\ UNCHANGED reset
  /\ LoopFrame

\* The loop ends; the last transition is towards NONE.
Exit ==
  /\ tpc = "loop" /\ ~shouldRun
  /\ tpc' = "exited"
  /\ IF Decision(NormalizeState(state), "NONE") = "STOP"
       THEN StopUnlocked /\ state' = "NONE" /\ player' = NoPlayer /\ UNCHANGED made
       ELSE UNCHANGED <<state, timer, notification>> /\ UNCHANGED mediaVars
  /\ UNCHANGED <<shouldRun, target, meant, reset, boo, seek, callbacks, tick,
                 destroyed, crashed, calls, jumped, crossed, late>>

-------------------------------------------------------------------------------
(* The players.  MediaPlayer and AudioTrack are the platform's.            *)

Begins(event, kind, id) ==
  /\ callbacks' = callbacks \cup {[event |-> event, kind |-> kind, id |-> id]}
  /\ UNCHANGED <<made, destroyed, crashed, calls, jumped, crossed>>
  /\ UNCHANGED threadVars /\ UNCHANGED machineVars /\ UNCHANGED noticeVars

LiveApi == player.kind = "api" /\ player.alive /\ MainThreadFree

\* onPrepared(): the flag is set before the lock is asked for.
ApiPrepared ==
  /\ LiveApi /\ ~player.prepared
  /\ player' = [player EXCEPT !.prepared = TRUE]
  /\ Begins("prepared", "api", player.id) /\ UNCHANGED ending

\* onError(): MediaPlayer is of no use afterwards.
ApiErrors ==
  /\ LiveApi
  /\ player' = [player EXCEPT !.alive = FALSE, !.started = FALSE]
  /\ Begins("error", "api", player.id) /\ UNCHANGED ending

\* onCompletion()
ApiCompletes ==
  /\ LiveApi /\ player.started
  /\ player' = [player EXCEPT !.started = FALSE]
  /\ Begins("finished", "api", player.id) /\ UNCHANGED ending

\* onBufferingUpdate(), with what isPlaying() said.
ApiBuffers ==
  /\ LiveApi
  /\ \E e \in {"playing", "buffering"} : Begins(e, "api", player.id)
  /\ UNCHANGED <<player, ending>>

\* The thread of the current FLACPlayer reaches the end of the file, or fails.
\* A pause within its last read() comes too late.
FlacEnds ==
  /\ player.kind = "flac" /\ player.alive
  /\ player' = [player EXCEPT !.alive = FALSE, !.started = FALSE]
  /\ \/ player.played /\ Begins("finished", "flac", player.id)
     \/ Begins("error", "flac", player.id)
  /\ UNCHANGED ending

\* A FLAC thread that was told to stop ends like one that reached the end.
RetiredEnds(id) ==
  /\ id \in ending
  /\ ending' = ending \ {id}
  /\ \E e \in {"finished", "error"} : Begins(e, "flac", id)
  /\ UNCHANGED player

\* Its player was replaced, or is about to be.
Stale(c) == c.id # player.id \/ reset

\* An onPrepared of another player than the one that prepares.
Mistaken(c) == c.event = "prepared" /\ state = "PREPARING" /\ c.id # player.id

\* Mutated form: any progress of MediaPlayer counts as being prepared.
DeliverAsPrepared(c) ==
  /\ callbacks' = callbacks \ {c}
  /\ crossed' = (crossed \/ Mistaken(c))
  /\ target' = IF c.event = "finished" THEN "FINISHED" ELSE target
  /\ meant' = IF Stale(c) THEN meant ELSE target'
  /\ state' = IF state = "PREPARING" THEN "PAUSED" ELSE state
  /\ UNCHANGED <<reset, boo, seek, destroyed, crashed, calls, jumped>>
  /\ UNCHANGED threadVars /\ UNCHANGED mediaVars /\ UNCHANGED noticeVars

\* A callback gets the lock.  It does not ask whose callback it is.
Deliver(c) ==
  /\ callbacks' = callbacks \ {c}
  /\ crossed' = (crossed \/ Mistaken(c))
  /\ target' = CASE c.event = "finished" -> "FINISHED"
                 [] c.event = "error"    -> "ERROR"
                 [] OTHER                -> target
  /\ meant' = IF Stale(c) THEN meant ELSE target'
  /\ state' = CASE c.event = "prepared" /\ state = "PREPARING"   -> "PAUSED"
                [] c.event = "playing" /\ state \in Active        -> "PLAYING"
                [] c.event = "buffering" /\ state \in Active      -> "BUFFERING"
                [] OTHER                                          -> state
  /\ UNCHANGED <<reset, boo, seek, destroyed, crashed, calls, jumped>>
  /\ UNCHANGED threadVars /\ UNCHANGED mediaVars /\ UNCHANGED noticeVars

-------------------------------------------------------------------------------
(* The timer.  Timer.cancel() does not stop a task that is running.        *)

TickBegins ==
  /\ timer /\ ~tick
  /\ tick' = TRUE
  /\ UNCHANGED <<callbacks, timer, notification, late, destroyed, crashed, calls,
                 jumped, crossed>>
  /\ UNCHANGED threadVars /\ UNCHANGED machineVars /\ UNCHANGED mediaVars

\* updateActivity(true) shows the notification; it uses the service's mPlayer.
TickEnds ==
  /\ tick
  /\ tick' = FALSE
  /\ late' = (late \/ ~timer)
  /\ IF destroyed THEN crashed' = TRUE /\ UNCHANGED notification
                  ELSE notification' = TRUE /\ UNCHANGED crashed
  /\ UNCHANGED <<callbacks, timer, destroyed, calls, jumped, crossed>>
  /\ UNCHANGED threadVars /\ UNCHANGED machineVars /\ UNCHANGED mediaVars

-------------------------------------------------------------------------------
UserStep == \/ \E b \in Boos \cup {NoBoo}, now \in BOOLEAN : Play(b, now)
            \/ Stop \/ Pause \/ Resume
            \/ \E p \in Positions : SeekTo(p)
            \/ Destroy

ThreadStep == Begin \/ IterateReset \/ Iterate \/ Exit

Prepares == ApiPrepared \/ ApiErrors

Retires == \E id \in ending : RetiredEnds(id)

DeliverApi  == \E c \in callbacks : c.kind = "api" /\ Deliver(c)
DeliverFlac == \E c \in callbacks : c.kind = "flac" /\ Deliver(c)

MediaStep == Prepares \/ ApiCompletes \/ ApiBuffers \/ FlacEnds \/ Retires

Next ==
  /\ ~crashed
  /\ \/ UserStep \/ ThreadStep \/ MediaStep
     \/ DeliverApi \/ DeliverFlac
     \/ TickBegins \/ TickEnds

Spec == Init /\ [][Next]_vars

\* The threads run, callbacks get the lock, and MediaPlayer answers
\* prepareAsync(): its answer waits for the main thread with other messages,
\* hence strong fairness.  The user owes nothing.
FairSpec ==
  /\ Spec
  /\ WF_vars(~crashed /\ ThreadStep)
  /\ WF_vars(~crashed /\ DeliverApi) /\ WF_vars(~crashed /\ DeliverFlac)
  /\ WF_vars(~crashed /\ Retires)
  /\ SF_vars(~crashed /\ Prepares)
-------------------------------------------------------------------------------
(* Properties.                                                             *)

TypeOK ==
  /\ tpc \in {"started", "loop", "exited"}
  /\ shouldRun \in BOOLEAN
  /\ state \in States /\ target \in States \ {"PREPARING", "BUFFERING"}
  /\ meant \in States \ {"PREPARING", "BUFFERING"}
  /\ reset \in BOOLEAN
  /\ boo \in Boos \cup {NoBoo}
  /\ seek \in Seeks /\ jumped \in Seeks
  /\ player \in Players
  /\ made \in Nat /\ ending \in SUBSET Nat
  /\ callbacks \in SUBSET Callbacks
  /\ timer \in BOOLEAN /\ tick \in BOOLEAN /\ notification \in BOOLEAN
  /\ destroyed \in BOOLEAN /\ crashed \in BOOLEAN
  /\ calls \in Nat
  /\ crossed \in BOOLEAN /\ late \in BOOLEAN

\* mPlayer is there whenever the state lets the thread use it, is gone in the
\* states without one, and belongs to the boo that was asked for last, though
\* play() replaces mBoo long before the thread replaces the player.
PlayerFitsState ==
  /\ state \in {"PREPARING", "PAUSED"} \cup Active => player.kind # "none"
  /\ state \in {"NONE", "FINISHED"} => player.kind = "none"
  /\ (player.kind # "none" /\ ~reset) => player.boo = boo

\* There is sound only in a state that says so, and the progress timer runs in
\* exactly these states, whatever callbacks flip them in between.
SoundOnlyWhileActive ==
  /\ player.started => state \in Active
  /\ timer <=> state \in Active

\* A paused player is one that resume() will accept, through all callbacks but
\* one: an onPrepared of an earlier player, taken for that of the player at work.
PausedIsPrepared == (state = "PAUSED" /\ ~crossed) => player.prepared

\* "we can only exit the error state through a reset from the outside, i.e. a
\* call to play()" (BooPlayer.java:373): no callback and no other call does.
ErrorLeftOnlyByPlay == [][(state = "ERROR" /\ state' # "ERROR") => reset]_vars

\* The notification is up only while the timer runs, unless a timer task
\* outlived its timer: every way out of playback takes it down.
NotificationCleared == (notification /\ ~timer) => late

\* What is asked to play plays, fails or ends, until another call asks for
\* something else; a preparation that failed needs another play().  Excepted is
\* that a callback of a replaced player sets the target in between.
Misled == target # meant

Asked ==
  /\ tpc = "loop" /\ shouldRun /\ meant = "PLAYING"
  /\ state = "PREPARING" => (player.alive \/ reset)

Answered == state \in Active \cup {"ERROR"} \/ meant # "PLAYING" \/ ~shouldRun \/ crashed

PlayStarts == Asked ~> (Answered \/ Misled)

\* play() "Starts playback immediately": whatever callbacks are still to come of
\* players that were replaced.
PlayIsNotForgotten == Asked ~> Answered

\* "Seek to the given position. Does nothing if no Boo is playing."
\* (IBooPlaybackService.aidl): a seek that is carried out was asked for while a
\* boo played.
SeekOnlyWhilePlaying == jumped.pos > 0 => jumped.live
===============================================================================
