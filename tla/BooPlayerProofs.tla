--------------------------- MODULE BooPlayerProofs ---------------------------
(***************************************************************************)
(* Proofs about BooPlayer: its type, and that state, player, timer and     *)
(* notification agree, for every set of boos and positions and without a   *)
(* use of the bound on calls.                                              *)
(***************************************************************************)
EXTENDS BooPlayer, TLAPS

\* A reset is only ever pending on behalf of a call to play().
ResetHasTarget == reset => target # "NONE"

\* Until run() begins nothing has been played; run() forgets a reset, and this
\* is why it may.
NothingBeforeRun == tpc = "started" => (player = NoPlayer /\ state = "NONE" /\ ~timer)

\* What the properties need of each other: the inductive invariant.
PlaybackInv ==
  /\ TypeOK
  /\ PlayerFitsState /\ SoundOnlyWhileActive
  /\ ResetHasTarget /\ NothingBeforeRun

USE BoosAssumption DEF BoosAssumption

-------------------------------------------------------------------------------
(* Lemmas about the operators.                                             *)

\* An action is decided on only in the states it is meant for, and a stop only
\* for targets without a player.
LEMMA ActionFits ==
  ASSUME state \in States, target \in States \ {"PREPARING", "BUFFERING"}
  PROVE  /\ Action = "PREPARE" => state = "NONE"
         /\ Action = "RESUME" => state = "PAUSED"
         /\ Action = "PAUSE" => state \in Active
         /\ Action = "STOP" => target \in {"NONE", "FINISHED", "ERROR"}
         /\ state = "ERROR" => Action = "NONE"
  BY DEF Action, Decision, NormalizeState, States, Active

\* After play() the machine starts over towards what was asked for.
LEMMA StartOver ==
  ASSUME target \in States \ {"PREPARING", "BUFFERING"},
         target # "NONE", target # "ERROR"
  PROVE  LET d == Decision("NONE", NormalizeState(target))
         IN  d = "PREPARE" \/ (d = "STOP" /\ target = "FINISHED")
  BY DEF Decision, NormalizeState, States

\* A player that has been made belongs to the current boo and is silent.
LEMMA NewPlayerFits ==
  ASSUME made \in Nat, NEW kind \in {"api", "flac"}, boo \in Boos, NEW ok \in BOOLEAN
  PROVE  LET p == NewPlayer(kind, boo, ok)
         IN  /\ p \in Players
             /\ p.kind = kind /\ p.boo = boo /\ p.started = FALSE
  BY DEF NewPlayer, Players

LEMMA NoPlayerFits ==
  /\ NoPlayer \in Players
  /\ NoPlayer.kind = "none" /\ NoPlayer.started = FALSE
  BY DEF NoPlayer, Players

\* Preparing ends in one of three states, with a player unless it failed.
LEMMA PrepareFits ==
  ASSUME TypeOK, NEW old \in Players, PrepareInternal(old)
  PROVE  /\ state' \in {"PREPARING", "PAUSED", "ERROR"}
         /\ made' \in Nat
         /\ player' \in Players
         /\ \/ state' = "ERROR" /\ player' = old
            \/ player'.kind # "none" /\ player'.boo = boo /\ player'.started = FALSE
<1>1. CASE /\ state' = "ERROR"
           /\ player' = old /\ UNCHANGED made
  BY <1>1 DEF TypeOK
<1>2. CASE /\ boo \in RemoteBoos \cup LocalBoos
           /\ made' = made + 1
           /\ \E ok \in BOOLEAN :
                IF boo \in RemoteBoos
                  THEN /\ player' = NewPlayer("api", boo, ok)
                       /\ state' = IF ok THEN "PREPARING" ELSE "ERROR"
                  ELSE /\ player' = NewPlayer("flac", boo, ok)
                       /\ state' = IF ok THEN "PAUSED" ELSE "ERROR"
  <2>1. PICK ok \in BOOLEAN, kind \in {"api", "flac"} :
             /\ player' = NewPlayer(kind, boo, ok)
             /\ state' \in {"PREPARING", "PAUSED", "ERROR"}
    BY <1>2
  <2>2. made \in Nat /\ boo \in Boos
    BY <1>2 DEF TypeOK, Boos
  <2>3. /\ player' \in Players /\ player'.kind = kind
        /\ player'.boo = boo /\ player'.started = FALSE
    BY <2>1, <2>2, NewPlayerFits
  <2> QED BY <1>2, <2>1, <2>2, <2>3
<1> QED BY <1>1, <1>2 DEF PrepareInternal

\* Stopping always leaves the timer cancelled.
LEMMA StopFits ==
  ASSUME TypeOK, StopUnlocked
  PROVE  /\ timer' = FALSE
         /\ notification' \in BOOLEAN
         /\ ending' \in SUBSET Nat
<1>1. player.id \in Nat
  BY DEF TypeOK, Players
<1>2. ending' \in SUBSET Nat
  BY <1>1 DEF TypeOK, StopUnlocked
<1>3. timer' = FALSE /\ notification' \in BOOLEAN
  BY DEF TypeOK, StopUnlocked, CancelTimer
<1> QED BY <1>2, <1>3
-------------------------------------------------------------------------------
(* The thread keeps the invariant.                                         *)

\* The player is gone: nothing depends on the boo.
LEMMA PlayerGone ==
  ASSUME state' \in {"NONE", "FINISHED", "ERROR"}, player' = NoPlayer, timer' = FALSE
  PROVE  PlayerFitsState' /\ SoundOnlyWhileActive'
  BY NoPlayerFits DEF PlayerFitsState, SoundOnlyWhileActive, Active

\* The player has just been prepared, in the place of none.
LEMMA PlayerPrepared ==
  ASSUME TypeOK, NEW old \in Players, PrepareInternal(old),
         old.started = FALSE, old.kind # "none" => old.boo = boo,
         UNCHANGED boo, timer' = FALSE
  PROVE  PlayerFitsState' /\ SoundOnlyWhileActive'
  BY PrepareFits DEF PlayerFitsState, SoundOnlyWhileActive, Active

LEMMA IterateResetKeeps ==
  ASSUME PlaybackInv, IterateReset
  PROVE  PlaybackInv'
<1> USE DEF PlaybackInv
<1>1. tpc = "loop" /\ reset /\ reset' = FALSE /\ target # "NONE"
  BY DEF IterateReset, ResetHasTarget, TypeOK
<1>2. /\ timer' = FALSE /\ notification' \in BOOLEAN
      /\ ending' \in SUBSET Nat
  BY StopFits DEF IterateReset
<1>3. UNCHANGED <<tpc, shouldRun, target, meant, boo, seek, callbacks, tick,
                  destroyed, crashed, calls, crossed, late, jumped>>
  BY DEF IterateReset, LoopFrame
<1>4. /\ state' \in States /\ player' \in Players /\ made' \in Nat
      /\ PlayerFitsState' /\ SoundOnlyWhileActive'
  <2>1. CASE target = "ERROR" \/ Decision("NONE", NormalizeState(target)) # "PREPARE"
    <3>1. state' \in {"FINISHED", "ERROR"} /\ player' = NoPlayer /\ made' = made
      BY <1>1, <2>1, StartOver DEF IterateReset, TypeOK
    <3> QED BY <3>1, <1>2, NoPlayerFits, PlayerGone DEF TypeOK, States
  <2>2. CASE target # "ERROR" /\ Decision("NONE", NormalizeState(target)) = "PREPARE"
    <3>1. PrepareInternal(NoPlayer)
      BY <2>2 DEF IterateReset
    <3>2. PlayerFitsState' /\ SoundOnlyWhileActive'
      BY <1>2, <1>3, <3>1, NoPlayerFits, PlayerPrepared
    <3>3. state' \in States /\ player' \in Players /\ made' \in Nat
      BY <3>1, NoPlayerFits, PrepareFits DEF States
    <3> QED BY <3>2, <3>3
  <2> QED BY <2>1, <2>2
<1>5. TypeOK'
  BY <1>1, <1>2, <1>3, <1>4 DEF TypeOK
<1>6. ResetHasTarget' /\ NothingBeforeRun'
  BY <1>1, <1>3 DEF ResetHasTarget, NothingBeforeRun
<1> QED BY <1>4, <1>5, <1>6

LEMMA IterateKeeps ==
  ASSUME PlaybackInv, Iterate
  PROVE  PlaybackInv'
<1> USE DEF PlaybackInv
<1>1. tpc = "loop" /\ ~reset /\ UNCHANGED reset
  BY DEF Iterate
<1>2. UNCHANGED <<tpc, shouldRun, target, meant, boo, seek, callbacks, tick,
                  destroyed, crashed, calls, crossed, late>>
  BY DEF Iterate, LoopFrame
<1>3. state \in States /\ target \in States \ {"PREPARING", "BUFFERING"} /\ player \in Players
  BY DEF TypeOK
<1>4. /\ player.kind # "none" => player.boo = boo
      /\ player.kind = "none" \/ state \notin {"NONE", "FINISHED"}
      /\ state \in {"PAUSED"} \cup Active => player.kind # "none"
      /\ state \notin Active => player.started = FALSE /\ timer = FALSE
  BY <1>1 DEF PlayerFitsState, SoundOnlyWhileActive, TypeOK, Players
<1> DEFINE Good == /\ state' \in States /\ player' \in Players /\ made' \in Nat
                   /\ ending' \in SUBSET Nat
                   /\ timer' \in BOOLEAN /\ notification' \in BOOLEAN
                   /\ jumped' \in Seeks
                   /\ PlayerFitsState' /\ SoundOnlyWhileActive'
<1>5. Good
  <2>1. CASE Action = "NONE" /\ UNCHANGED <<state, timer, notification>> /\ UNCHANGED mediaVars
                             /\ jumped' \in {seek, jumped}
    BY <1>1, <1>2, <2>1 DEF TypeOK, PlayerFitsState, SoundOnlyWhileActive, mediaVars
  <2>2. CASE Action = "PREPARE" /\ PrepareInternal(player)
                                /\ UNCHANGED <<ending, timer, notification, jumped>>
    <3>1. state = "NONE"
      BY <1>3, <2>2, ActionFits
    <3>2. player.started = FALSE /\ timer' = FALSE
      BY <1>4, <2>2, <3>1 DEF Active
    <3>3. PlayerFitsState' /\ SoundOnlyWhileActive'
      BY <1>2, <1>3, <1>4, <2>2, <3>2, PlayerPrepared
    <3>4. state' \in States /\ player' \in Players /\ made' \in Nat
      BY <1>3, <2>2, PrepareFits DEF States
    <3> QED BY <2>2, <3>3, <3>4 DEF TypeOK
  <2>3. CASE Action = "RESUME" /\ ResumeInternal /\ UNCHANGED jumped
    <3>1. state = "PAUSED"
      BY <1>3, <2>3, ActionFits
    <3>2. player.kind # "none" /\ player.started = FALSE /\ timer = FALSE
      BY <1>4, <3>1 DEF Active
    <3>3. CASE player.prepared
      <4>1. /\ player' = [player EXCEPT !.started = player.alive, !.played = TRUE]
            /\ state' = "PLAYING" /\ timer' = TRUE
            /\ UNCHANGED <<made, ending, notification>>
        BY <2>3, <3>3 DEF ResumeInternal
      <4>2. player' \in Players /\ player'.kind = player.kind /\ player'.boo = player.boo
        BY <1>3, <4>1 DEF Players
      <4> QED BY <1>1, <1>2, <1>4, <2>3, <3>2, <4>1, <4>2
              DEF TypeOK, PlayerFitsState, SoundOnlyWhileActive, Active, States
    <3>4. CASE ~player.prepared
      <4>1. state' = "ERROR" /\ UNCHANGED <<player, timer, made, ending, notification>>
        BY <2>3, <3>4 DEF ResumeInternal
      <4> QED BY <1>1, <1>2, <1>4, <2>3, <3>2, <4>1
              DEF TypeOK, PlayerFitsState, SoundOnlyWhileActive, Active, States
    <3> QED BY <3>3, <3>4
  <2>4. CASE Action = "STOP" /\ StopUnlocked
             /\ state' = target /\ player' = NoPlayer /\ UNCHANGED <<made, jumped>>
    <3>1. state' \in {"NONE", "FINISHED", "ERROR"}
      BY <1>3, <2>4, ActionFits
    <3>2. timer' = FALSE /\ notification' \in BOOLEAN /\ ending' \in SUBSET Nat
      BY <2>4, StopFits
    <3>3. PlayerFitsState' /\ SoundOnlyWhileActive'
      BY <2>4, <3>1, <3>2, PlayerGone
    <3> QED BY <2>4, <3>1, <3>2, <3>3, NoPlayerFits DEF TypeOK, States
  <2>5. CASE Action = "PAUSE" /\ PauseInternal /\ UNCHANGED jumped
    <3>1. state \in Active
      BY <1>3, <2>5, ActionFits
    <3>2. /\ player' = [player EXCEPT !.started = FALSE]
          /\ state' = "PAUSED" /\ timer' = FALSE /\ notification' \in BOOLEAN
          /\ UNCHANGED <<made, ending>>
      BY <2>5 DEF PauseInternal, CancelTimer, TypeOK
    <3>3. /\ player' \in Players /\ player'.started = FALSE
          /\ player'.kind = player.kind /\ player'.boo = player.boo
      BY <1>3, <3>2 DEF Players
    <3> QED BY <1>1, <1>2, <1>4, <2>5, <3>1, <3>2, <3>3
            DEF TypeOK, PlayerFitsState, SoundOnlyWhileActive, Active, States
  <2>6. CASE Action = "RESET" /\ StopUnlocked /\ PrepareInternal(NoPlayer) /\ UNCHANGED jumped
    <3>1. timer' = FALSE /\ notification' \in BOOLEAN /\ ending' \in SUBSET Nat
      BY <2>6, StopFits
    <3>2. PlayerFitsState' /\ SoundOnlyWhileActive'
      BY <1>2, <2>6, <3>1, NoPlayerFits, PlayerPrepared
    <3>3. state' \in States /\ player' \in Players /\ made' \in Nat
      BY <2>6, NoPlayerFits, PrepareFits DEF States
    <3> QED BY <2>6, <3>1, <3>2, <3>3 DEF TypeOK
  <2> QED BY <2>1, <2>2, <2>3, <2>4, <2>5, <2>6 DEF Iterate
<1>6. TypeOK'
  BY <1>1, <1>2, <1>5 DEF TypeOK
<1>7. ResetHasTarget' /\ NothingBeforeRun'
  BY <1>1, <1>2 DEF ResetHasTarget, NothingBeforeRun
<1> QED BY <1>5, <1>6, <1>7

LEMMA BeginKeeps ==
  ASSUME PlaybackInv, Begin
  PROVE  PlaybackInv'
<1> USE DEF PlaybackInv
<1>1. player = NoPlayer /\ state = "NONE"
  BY DEF Begin, NothingBeforeRun
<1>2. /\ tpc' = "loop" /\ shouldRun' = TRUE /\ reset' = FALSE
      /\ UNCHANGED <<state, target, meant, boo, seek, callbacks, destroyed, crashed, calls,
                     jumped, crossed, player, made, ending, timer, tick, notification, late>>
  BY DEF Begin, mediaVars, noticeVars
<1>3. TypeOK'
  BY <1>2 DEF TypeOK
<1> QED BY <1>1, <1>2, <1>3, NoPlayerFits
        DEF PlayerFitsState, SoundOnlyWhileActive, ResetHasTarget, NothingBeforeRun

LEMMA ExitKeeps ==
  ASSUME PlaybackInv, Exit
  PROVE  PlaybackInv'
<1> USE DEF PlaybackInv
<1>1. /\ tpc' = "exited"
      /\ UNCHANGED <<shouldRun, target, meant, reset, boo, seek, callbacks, tick, destroyed,
                     crashed, calls, jumped, crossed, late>>
  BY DEF Exit
<1>2. CASE StopUnlocked /\ state' = "NONE" /\ player' = NoPlayer /\ UNCHANGED made
  <2>1. timer' = FALSE /\ notification' \in BOOLEAN /\ ending' \in SUBSET Nat
    BY <1>2, StopFits
  <2>2. PlayerFitsState' /\ SoundOnlyWhileActive'
    BY <1>2, <2>1, PlayerGone
  <2>3. state' \in States /\ player' \in Players /\ made' \in Nat
    BY <1>2, NoPlayerFits DEF TypeOK, States
  <2>4. TypeOK'
    BY <1>1, <2>1, <2>3 DEF TypeOK
  <2> QED BY <1>1, <2>2, <2>4 DEF ResetHasTarget, NothingBeforeRun
<1>3. CASE UNCHANGED <<state, timer, notification>> /\ UNCHANGED mediaVars
  <2>1. TypeOK'
    BY <1>1, <1>3 DEF TypeOK, mediaVars
  <2> QED BY <1>1, <1>3, <2>1
          DEF mediaVars, PlayerFitsState, SoundOnlyWhileActive, ResetHasTarget,
              NothingBeforeRun
<1> QED BY <1>2, <1>3 DEF Exit
-------------------------------------------------------------------------------
(* The callers, the players and the timer keep it.                         *)

\* A step that leaves the machine, the player and the timer alone.
LEMMA FrameKeeps ==
  ASSUME PlaybackInv, UNCHANGED <<state, reset, target, boo, player, timer>>,
         tpc' = tpc
  PROVE  /\ PlayerFitsState' /\ SoundOnlyWhileActive'
         /\ ResetHasTarget' /\ NothingBeforeRun'
  BY DEF PlaybackInv, PlayerFitsState, SoundOnlyWhileActive, ResetHasTarget, NothingBeforeRun

LEMMA PlayKeeps ==
  ASSUME PlaybackInv, NEW b \in Boos \cup {NoBoo}, NEW now \in BOOLEAN, Play(b, now)
  PROVE  PlaybackInv'
<1> USE DEF PlaybackInv
<1>1. /\ boo' = b /\ target' \in {"ERROR", "PLAYING", "PAUSED"} /\ meant' = target' /\ reset' = TRUE
      /\ calls' = calls + 1
      /\ UNCHANGED <<tpc, shouldRun, state, seek, player, made, ending, callbacks, timer,
                     tick, notification, destroyed, crashed, jumped, crossed, late>>
  BY DEF Play, Called, threadVars, mediaVars, noticeVars
<1>2. TypeOK'
  BY <1>1 DEF TypeOK, States
<1> QED BY <1>1, <1>2
        DEF PlayerFitsState, SoundOnlyWhileActive, ResetHasTarget, NothingBeforeRun

\* stop(), pause() and resume() differ in the target and the notification.
LEMMA SetTargetKeeps ==
  ASSUME PlaybackInv, NEW t \in {"FINISHED", "PAUSED", "PLAYING"}, SetTarget(t),
         calls' = calls + 1, notification' \in BOOLEAN, UNCHANGED <<timer, tick, late>>
  PROVE  PlaybackInv'
<1> USE DEF PlaybackInv
<1>1. /\ target' = t /\ meant' = t
      /\ UNCHANGED <<tpc, shouldRun, state, reset, boo, seek, player, made, ending, callbacks,
                     destroyed, crashed, jumped, crossed>>
  BY DEF SetTarget, threadVars, mediaVars
<1>2. TypeOK'
  BY <1>1 DEF TypeOK, States
<1> QED BY <1>1, <1>2
        DEF PlayerFitsState, SoundOnlyWhileActive, ResetHasTarget, NothingBeforeRun

LEMMA UserKeeps ==
  ASSUME PlaybackInv, UserStep
  PROVE  PlaybackInv'
<1>1. ASSUME NEW b \in Boos \cup {NoBoo}, NEW now \in BOOLEAN, Play(b, now)
      PROVE  PlaybackInv'
  BY <1>1, PlayKeeps
<1>2. CASE Stop
  <2>1. SetTarget("FINISHED") /\ calls' = calls + 1 /\ notification' \in BOOLEAN
        /\ UNCHANGED <<timer, tick, late>>
    BY <1>2 DEF Stop, Called
  <2> QED BY <2>1, SetTargetKeeps
<1>3. CASE Pause
  <2>1. SetTarget("PAUSED") /\ calls' = calls + 1 /\ notification' \in BOOLEAN
        /\ UNCHANGED <<timer, tick, late>>
    BY <1>3 DEF Pause, Called
  <2> QED BY <2>1, SetTargetKeeps
<1>4. CASE Resume
  <2>1. SetTarget("PLAYING") /\ calls' = calls + 1 /\ notification' \in BOOLEAN
        /\ UNCHANGED <<timer, tick, late>>
    BY <1>4 DEF Resume, Called, noticeVars, PlaybackInv, TypeOK
  <2> QED BY <2>1, SetTargetKeeps
<1>5. ASSUME NEW p \in Positions, SeekTo(p)
      PROVE  PlaybackInv'
  <2>1. /\ seek' = [pos |-> p, live |-> state \in Active] /\ calls' = calls + 1
        /\ UNCHANGED <<tpc, shouldRun, state, target, meant, reset, boo, player, made, ending,
                       callbacks, timer, tick, notification, destroyed, crashed, jumped,
                       crossed, late>>
    BY <1>5 DEF SeekTo, Called, threadVars, mediaVars, noticeVars
  <2>2. seek' \in Seeks
    BY <2>1 DEF Seeks
  <2>3. TypeOK'
    BY <2>1, <2>2 DEF PlaybackInv, TypeOK
  <2> QED BY <2>1, <2>3, FrameKeeps DEF PlaybackInv
<1>6. CASE Destroy
  <2>1. /\ destroyed' = TRUE /\ notification' = FALSE /\ shouldRun' = FALSE
        /\ UNCHANGED <<tpc, state, target, meant, reset, boo, seek, player, made, ending, callbacks,
                       timer, tick, crashed, calls, jumped, crossed, late>>
    BY <1>6 DEF Destroy, machineVars, mediaVars
  <2>2. TypeOK'
    BY <2>1 DEF PlaybackInv, TypeOK
  <2> QED BY <2>1, <2>2, FrameKeeps DEF PlaybackInv
<1> QED BY <1>1, <1>2, <1>3, <1>4, <1>5, <1>6 DEF UserStep

\* What a player does by itself: its flags change, and a callback begins.
LEMMA BeginsKeeps ==
  ASSUME PlaybackInv, NEW event \in {"prepared", "finished", "error", "playing", "buffering"},
         NEW kind \in {"api", "flac"}, NEW id \in Nat, Begins(event, kind, id),
         ending' \in SUBSET Nat, player' \in Players,
         player'.kind = player.kind, player'.boo = player.boo,
         player'.started \in {FALSE, player.started},
         player = NoPlayer => player' = player
  PROVE  PlaybackInv'
<1> USE DEF PlaybackInv
<1>1. /\ callbacks' = callbacks \cup {[event |-> event, kind |-> kind, id |-> id]}
      /\ UNCHANGED <<tpc, shouldRun, state, target, meant, reset, boo, seek, made, timer, tick,
                     notification, destroyed, crashed, calls, jumped, crossed, late>>
  BY DEF Begins, threadVars, machineVars, noticeVars
<1>2. [event |-> event, kind |-> kind, id |-> id] \in Callbacks
  BY DEF Callbacks
<1>3. TypeOK'
  BY <1>1, <1>2 DEF TypeOK
<1>4. PlayerFitsState' /\ SoundOnlyWhileActive'
  BY <1>1 DEF PlayerFitsState, SoundOnlyWhileActive
<1>5. ResetHasTarget' /\ NothingBeforeRun'
  BY <1>1 DEF ResetHasTarget, NothingBeforeRun
<1> QED BY <1>3, <1>4, <1>5

LEMMA MediaKeeps ==
  ASSUME PlaybackInv, MediaStep
  PROVE  PlaybackInv'
<1>1. player \in Players /\ player.id \in Nat /\ ending \in SUBSET Nat
  BY DEF PlaybackInv, TypeOK, Players
<1> DEFINE Event == {"prepared", "finished", "error", "playing", "buffering"}
<1> DEFINE Silenced == /\ player' \in Players
                       /\ player'.kind = player.kind /\ player'.boo = player.boo
                       /\ player'.started \in {FALSE, player.started}
<1>2. CASE ApiPrepared
  <2>1. /\ Begins("prepared", "api", player.id) /\ UNCHANGED ending
        /\ player' = [player EXCEPT !.prepared = TRUE] /\ player.kind = "api"
    BY <1>2 DEF ApiPrepared, LiveApi
  <2>2. Silenced
    BY <1>1, <2>1 DEF Players
  <2> QED BY <1>1, <2>1, <2>2, NoPlayerFits, BeginsKeeps
<1>3. CASE ApiErrors
  <2>1. /\ Begins("error", "api", player.id) /\ UNCHANGED ending
        /\ player' = [player EXCEPT !.alive = FALSE, !.started = FALSE] /\ player.kind = "api"
    BY <1>3 DEF ApiErrors, LiveApi
  <2>2. Silenced
    BY <1>1, <2>1 DEF Players
  <2> QED BY <1>1, <2>1, <2>2, NoPlayerFits, BeginsKeeps
<1>4. CASE ApiCompletes
  <2>1. /\ Begins("finished", "api", player.id) /\ UNCHANGED ending
        /\ player' = [player EXCEPT !.started = FALSE] /\ player.kind = "api"
    BY <1>4 DEF ApiCompletes, LiveApi
  <2>2. Silenced
    BY <1>1, <2>1 DEF Players
  <2> QED BY <1>1, <2>1, <2>2, NoPlayerFits, BeginsKeeps
<1>5. CASE ApiBuffers
  <2>1. PICK e \in {"playing", "buffering"} : Begins(e, "api", player.id)
    BY <1>5 DEF ApiBuffers
  <2>2. UNCHANGED <<player, ending>>
    BY <1>5 DEF ApiBuffers
  <2> QED BY <1>1, <2>1, <2>2, BeginsKeeps
<1>6. CASE FlacEnds
  <2>1. PICK e \in {"finished", "error"} : Begins(e, "flac", player.id)
    BY <1>6 DEF FlacEnds
  <2>2. /\ player' = [player EXCEPT !.alive = FALSE, !.started = FALSE]
        /\ player.kind = "flac" /\ UNCHANGED ending
    BY <1>6 DEF FlacEnds
  <2>3. Silenced
    BY <1>1, <2>2 DEF Players
  <2> QED BY <1>1, <2>1, <2>2, <2>3, NoPlayerFits, BeginsKeeps
<1>7. CASE Retires
  <2>1. PICK id \in ending : RetiredEnds(id)
    BY <1>7 DEF Retires
  <2>2. PICK e \in {"finished", "error"} : Begins(e, "flac", id)
    BY <2>1 DEF RetiredEnds
  <2>3. player' = player /\ ending' \in SUBSET Nat /\ id \in Nat
    BY <1>1, <2>1 DEF RetiredEnds
  <2> QED BY <1>1, <2>2, <2>3, BeginsKeeps
<1> QED BY <1>2, <1>3, <1>4, <1>5, <1>6, <1>7 DEF MediaStep, Prepares

LEMMA DeliverKeeps ==
  ASSUME PlaybackInv, NEW c \in callbacks, Deliver(c)
  PROVE  PlaybackInv'
<1> USE DEF PlaybackInv
<1>1. /\ target' \in {target, "FINISHED", "ERROR"} /\ meant' \in {meant, target'}
      /\ \/ state' = state
         \/ state = "PREPARING" /\ state' = "PAUSED"
         \/ state \in Active /\ state' \in Active
      /\ callbacks' = callbacks \ {c} /\ crossed' \in BOOLEAN
      /\ UNCHANGED <<tpc, shouldRun, reset, boo, seek, player, made, ending, timer, tick,
                     notification, destroyed, crashed, calls, jumped, late>>
  BY DEF Deliver, Active, TypeOK, threadVars, mediaVars, noticeVars
<1>2. TypeOK'
  BY <1>1 DEF TypeOK, States, Active
<1>3. PlayerFitsState'
  BY <1>1 DEF PlayerFitsState, Active
<1>4. SoundOnlyWhileActive'
  <2>1. state' \in Active <=> state \in Active
    BY <1>1 DEF Active
  <2> QED BY <1>1, <2>1 DEF SoundOnlyWhileActive
<1>5. ResetHasTarget' /\ NothingBeforeRun'
  BY <1>1 DEF ResetHasTarget, NothingBeforeRun, Active
<1> QED BY <1>2, <1>3, <1>4, <1>5

LEMMA TickKeeps ==
  ASSUME PlaybackInv, TickBegins \/ TickEnds
  PROVE  PlaybackInv'
<1>1. /\ tick' \in BOOLEAN /\ late' \in BOOLEAN /\ notification' \in BOOLEAN
      /\ crashed' \in BOOLEAN
      /\ UNCHANGED <<tpc, shouldRun, state, target, meant, reset, boo, seek, player, made, ending,
                     callbacks, timer, destroyed, calls, jumped, crossed>>
  BY DEF TickBegins, TickEnds, threadVars, machineVars, mediaVars, PlaybackInv, TypeOK
<1>2. TypeOK'
  BY <1>1 DEF PlaybackInv, TypeOK
<1> QED BY <1>1, <1>2, FrameKeeps DEF PlaybackInv

-------------------------------------------------------------------------------
(* The theorems.                                                           *)

LEMMA PlaybackInit == Init => PlaybackInv
<1> SUFFICES ASSUME Init PROVE PlaybackInv
  OBVIOUS
<1>1. NoSeek \in Seeks
  BY DEF NoSeek, Seeks
<1>2. TypeOK
  BY <1>1, NoPlayerFits DEF Init, TypeOK, States
<1> QED BY <1>2, NoPlayerFits
        DEF Init, PlaybackInv, PlayerFitsState, SoundOnlyWhileActive, ResetHasTarget,
            NothingBeforeRun, Active

LEMMA PlaybackStep == PlaybackInv /\ [Next]_vars => PlaybackInv'
<1> SUFFICES ASSUME PlaybackInv, [Next]_vars PROVE PlaybackInv'
  OBVIOUS
<1>1. CASE UserStep
  BY <1>1, UserKeeps
<1>2. CASE ThreadStep
  BY <1>2, BeginKeeps, IterateResetKeeps, IterateKeeps, ExitKeeps DEF ThreadStep
<1>3. CASE MediaStep
  BY <1>3, MediaKeeps
<1>4. CASE DeliverApi \/ DeliverFlac
  BY <1>4, DeliverKeeps DEF DeliverApi, DeliverFlac
<1>5. CASE TickBegins \/ TickEnds
  BY <1>5, TickKeeps
<1>6. CASE UNCHANGED vars
  <2>1. TypeOK'
    BY <1>6 DEF vars, PlaybackInv, TypeOK
  <2> QED BY <1>6, <2>1, FrameKeeps DEF vars, PlaybackInv
<1> QED BY <1>1, <1>2, <1>3, <1>4, <1>5, <1>6 DEF Next

\* The strengthening is an invariant of every behaviour.
THEOREM PlaybackAgrees == Spec => []PlaybackInv
  BY PlaybackInit, PlaybackStep, PTL DEF Spec

\* Every variable keeps its type: no decision of the loop leaves the states of
\* the machine, and no callback leaves the player malformed.
THEOREM PlayerTypeCorrect == Spec => []TypeOK
  BY PlaybackAgrees, PTL DEF PlaybackInv

\* The thread never calls a null player, and never plays one boo for another:
\* state, player and boo agree after every callback and call.
THEOREM PlayerAlwaysFits == Spec => []PlayerFitsState
  BY PlaybackAgrees, PTL DEF PlaybackInv

\* Sound and progress timer go with the playing states, whatever callbacks,
\* calls and iterations interleave.
THEOREM SoundAndTimer == Spec => []SoundOnlyWhileActive
  BY PlaybackAgrees, PTL DEF PlaybackInv

\* The error state is left only while a reset asked for by play() is pending:
\* no other iteration and no callback gets out of it.
THEOREM ErrorNeedsPlay == Spec => ErrorLeftOnlyByPlay
<1>1. ASSUME PlaybackInv, [Next]_vars, state = "ERROR", state' # "ERROR"
      PROVE  reset
  <2>1. CASE UserStep
    BY <1>1, <2>1 DEF UserStep, Play, Stop, Pause, Resume, SetTarget, SeekTo, Destroy, machineVars
  <2>2. CASE Iterate
    <3>1. Action = "NONE"
      BY <1>1, ActionFits DEF PlaybackInv, TypeOK
    <3> QED BY <1>1, <2>2, <3>1 DEF Iterate
  <2>3. CASE Exit
    BY <1>1, <2>3 DEF Exit, Decision, NormalizeState
  <2>4. CASE Begin
    BY <1>1, <2>4 DEF Begin
  <2>5. CASE IterateReset
    BY <2>5 DEF IterateReset
  <2>6. CASE MediaStep
    BY <1>1, <2>6 DEF MediaStep, Prepares, ApiPrepared, ApiErrors, ApiCompletes, ApiBuffers,
                      FlacEnds, Retires, RetiredEnds, Begins, machineVars
  <2>7. CASE DeliverApi \/ DeliverFlac
    BY <1>1, <2>7 DEF DeliverApi, DeliverFlac, Deliver, Active
  <2>8. CASE TickBegins \/ TickEnds
    BY <1>1, <2>8 DEF TickBegins, TickEnds, machineVars
  <2>9. CASE UNCHANGED vars
    BY <1>1, <2>9 DEF vars
  <2> QED BY <1>1, <2>1, <2>2, <2>3, <2>4, <2>5, <2>6, <2>7, <2>8, <2>9 DEF Next, ThreadStep
<1>2. PlaybackInv /\ [Next]_vars => [(state = "ERROR" /\ state' # "ERROR") => reset]_vars
  BY <1>1
<1> QED BY <1>2, PlaybackAgrees, PTL DEF Spec, ErrorLeftOnlyByPlay

\* Whatever ends playback takes the notification down, but for a timer task
\* that was already running and shows it once more.
THEOREM NoticeGoesWithTimer == Spec => []NotificationCleared
<1>1. Init => NotificationCleared
  BY DEF Init, NotificationCleared
<1>2. ASSUME TypeOK, NotificationCleared, [Next]_vars
      PROVE  NotificationCleared'
  <2>1. ASSUME StopUnlocked, late' = late
        PROVE  NotificationCleared'
    BY <1>2, <2>1 DEF StopUnlocked, CancelTimer, NotificationCleared
  <2>2. ASSUME UNCHANGED <<timer, notification, late>>
        PROVE  NotificationCleared'
    BY <1>2, <2>2 DEF NotificationCleared
  <2>3. CASE UserStep
    BY <1>2, <2>2, <2>3 DEF UserStep, Play, Stop, Pause, Resume, SeekTo, Destroy, noticeVars,
                            NotificationCleared
  <2>4. CASE Iterate
    <3>1. late' = late
      BY <2>4 DEF Iterate, LoopFrame
    <3>2. \/ StopUnlocked
          \/ UNCHANGED <<timer, notification>>
          \/ ResumeInternal
          \/ CancelTimer
      BY <2>4 DEF Iterate, PauseInternal
    <3>3. CASE ResumeInternal
      BY <1>2, <3>1, <3>3 DEF ResumeInternal, NotificationCleared
    <3>4. CASE CancelTimer
      BY <1>2, <3>1, <3>4 DEF CancelTimer, NotificationCleared
    <3> QED BY <2>1, <2>2, <3>1, <3>2, <3>3, <3>4
  <2>5. CASE IterateReset
    BY <2>1, <2>5 DEF IterateReset, LoopFrame
  <2>6. CASE Exit
    BY <2>1, <2>2, <2>6 DEF Exit
  <2>7. CASE Begin
    BY <2>2, <2>7 DEF Begin, noticeVars
  <2>8. CASE MediaStep
    BY <2>2, <2>8 DEF MediaStep, Prepares, ApiPrepared, ApiErrors, ApiCompletes, ApiBuffers,
                      FlacEnds, Retires, RetiredEnds, Begins, noticeVars
  <2>9. CASE DeliverApi \/ DeliverFlac
    BY <2>2, <2>9 DEF DeliverApi, DeliverFlac, Deliver, noticeVars
  <2>10. CASE TickBegins
    BY <2>2, <2>10 DEF TickBegins
  <2>11. CASE TickEnds
    BY <1>2, <2>11 DEF TickEnds, NotificationCleared
  <2>12. CASE UNCHANGED vars
    BY <2>2, <2>12 DEF vars
  <2> QED BY <1>2, <2>3, <2>4, <2>5, <2>6, <2>7, <2>8, <2>9, <2>10, <2>11, <2>12
          DEF Next, ThreadStep
<1> QED BY <1>1, <1>2, PlayerTypeCorrect, PTL DEF Spec
-------------------------------------------------------------------------------
(* A paused player can be resumed.                                         *)

\* Players are numbered, and onPrepared() sets the flag before its callback gets
\* the lock: a callback with the number of the player belongs to it.
Ready ==
  /\ player.kind # "none" => player.id \in 1 .. made
  /\ \A c \in callbacks : c.event = "prepared" =>
       c.id \in 1 .. made /\ (c.id = player.id => player.prepared)
  /\ state \in Active => player.prepared
  /\ PausedIsPrepared

\* The player is as prepared as before, and no callback says it is.
LEMMA ReadyQuiet ==
  ASSUME Ready, made' = made, crossed' = crossed,
         player'.kind = player.kind, player'.id = player.id,
         player.prepared => player'.prepared,
         state' = state \/ state' \notin Active \cup {"PAUSED"} \/ player'.prepared,
         \A c \in callbacks' : c \in callbacks \/ c.event # "prepared"
  PROVE  Ready'
  BY DEF Ready, PausedIsPrepared

LEMMA ReadyGone ==
  ASSUME Ready, UNCHANGED <<made, callbacks>>, player' = NoPlayer,
         state' \notin Active \cup {"PAUSED"}
  PROVE  Ready'
<1>1. NoPlayer.kind = "none" /\ NoPlayer.id = 0
  BY DEF NoPlayer
<1> QED  BY <1>1 DEF Ready, PausedIsPrepared

\* A new player has a number no callback has.
LEMMA ReadyPrepared ==
  ASSUME TypeOK, Ready, NEW old \in {NoPlayer, player}, PrepareInternal(old),
         UNCHANGED <<callbacks, crossed>>
  PROVE  Ready'
<1>1. CASE state' = "ERROR" /\ player' = old /\ made' = made
  BY <1>1, ReadyGone, ReadyQuiet DEF Active
<1>2. ASSUME NEW kind \in {"api", "flac"}, NEW ok \in BOOLEAN,
             made' = made + 1, player' = NewPlayer(kind, boo, ok),
             state' = IF ~ok THEN "ERROR"
                      ELSE IF kind = "api" THEN "PREPARING" ELSE "PAUSED"
      PROVE  Ready'
  <2>1. made \in Nat
    BY DEF TypeOK
  <2>2. /\ player'.id = made + 1
        /\ state' = "PAUSED" => player'.prepared
    BY <1>2 DEF NewPlayer
  <2>3. player'.id \in 1 .. made'
    BY <1>2, <2>1, <2>2
  <2>4. \A c \in callbacks' : c.event = "prepared" =>
          c.id \in 1 .. made' /\ c.id # player'.id
    <3> SUFFICES ASSUME NEW c \in callbacks, c.event = "prepared"
                 PROVE  c.id \in 1 .. made' /\ c.id # player'.id
      OBVIOUS
    <3>1. c.id \in 1 .. made
      BY DEF Ready
    <3> QED  BY <1>2, <2>1, <2>2, <3>1
  <2>5. state' \notin Active
    BY <1>2 DEF Active
  <2> QED  BY <2>2, <2>3, <2>4, <2>5 DEF Ready, PausedIsPrepared
<1>3. CASE boo \in RemoteBoos
  BY <1>1, <1>2, <1>3 DEF PrepareInternal
<1>4. CASE boo \notin RemoteBoos
  BY <1>1, <1>2, <1>4 DEF PrepareInternal
<1> QED  BY <1>3, <1>4

LEMMA ReadyThread ==
  ASSUME PlaybackInv, Ready, ThreadStep
  PROVE  Ready'
<1>1. TypeOK /\ player \in Players
  BY DEF PlaybackInv, TypeOK
<1>2. CASE Begin
  BY <1>2, ReadyQuiet DEF Begin, mediaVars
<1>3. CASE IterateReset
  <2>1. UNCHANGED <<callbacks, crossed>> /\ target # "NONE"
    BY <1>3 DEF IterateReset, LoopFrame, PlaybackInv, ResetHasTarget
  <2>2. CASE target = "ERROR" \/ Decision("NONE", NormalizeState(target)) # "PREPARE"
    <3>1. state' \in {"FINISHED", "ERROR"} /\ player' = NoPlayer /\ made' = made
      BY <1>1, <1>3, <2>1, <2>2, StartOver DEF IterateReset, TypeOK
    <3> QED  BY <2>1, <3>1, ReadyGone DEF Active
  <2>3. CASE target # "ERROR" /\ Decision("NONE", NormalizeState(target)) = "PREPARE"
    <3>1. PrepareInternal(NoPlayer)
      BY <1>3, <2>3 DEF IterateReset
    <3> QED  BY <1>1, <2>1, <3>1, ReadyPrepared
  <2> QED  BY <2>2, <2>3
<1>4. CASE Iterate
  <2>1. UNCHANGED <<callbacks, crossed>>
    BY <1>4 DEF Iterate, LoopFrame
  <2>2. CASE Action = "NONE" /\ state' = state /\ UNCHANGED mediaVars
    BY <2>1, <2>2, ReadyQuiet DEF mediaVars
  <2>3. CASE Action = "PREPARE" /\ PrepareInternal(player)
    BY <1>1, <2>1, <2>3, ReadyPrepared
  <2>4. CASE Action = "RESUME" /\ ResumeInternal
    <3>1. CASE player.prepared
      <4>1. player' = [player EXCEPT !.started = player.alive, !.played = TRUE] /\ made' = made
        BY <2>4, <3>1 DEF ResumeInternal
      <4>2. player'.kind = player.kind /\ player'.id = player.id /\ player'.prepared
        BY <1>1, <3>1, <4>1 DEF Players
      <4> QED  BY <2>1, <4>1, <4>2, ReadyQuiet
    <3>2. CASE ~player.prepared
      BY <2>1, <2>4, <3>2, ReadyQuiet DEF ResumeInternal, Active
    <3> QED  BY <3>1, <3>2
  <2>5. CASE Action = "STOP" /\ state' = target /\ player' = NoPlayer /\ made' = made
    <3>1. state' \in {"NONE", "FINISHED", "ERROR"}
      BY <1>1, <2>5, ActionFits DEF TypeOK
    <3> QED  BY <2>1, <2>5, <3>1, ReadyGone DEF Active
  <2>6. CASE Action = "PAUSE" /\ PauseInternal
    <3>1. state \in Active
      BY <1>1, <2>6, ActionFits DEF TypeOK
    <3>2. player' = [player EXCEPT !.started = FALSE] /\ made' = made
      BY <2>6 DEF PauseInternal
    <3>3. /\ player'.kind = player.kind /\ player'.id = player.id
          /\ player'.prepared = player.prepared
      BY <1>1, <3>2 DEF Players
    <3>4. player'.prepared
      BY <3>1, <3>3 DEF Ready
    <3> QED  BY <2>1, <3>2, <3>3, <3>4, ReadyQuiet
  <2>7. CASE Action = "RESET" /\ PrepareInternal(NoPlayer)
    BY <1>1, <2>1, <2>7, ReadyPrepared
  <2> QED  BY <1>4, <2>2, <2>3, <2>4, <2>5, <2>6, <2>7 DEF Iterate
<1>5. CASE Exit
  <2>1. UNCHANGED <<callbacks, crossed>>
    BY <1>5 DEF Exit
  <2>2. CASE state' = "NONE" /\ player' = NoPlayer /\ made' = made
    BY <2>1, <2>2, ReadyGone DEF Active
  <2>3. CASE state' = state /\ UNCHANGED mediaVars
    BY <2>1, <2>3, ReadyQuiet DEF mediaVars
  <2> QED  BY <1>5, <2>2, <2>3 DEF Exit
<1> QED  BY <1>2, <1>3, <1>4, <1>5 DEF ThreadStep

LEMMA ReadyMedia ==
  ASSUME PlaybackInv, Ready, MediaStep
  PROVE  Ready'
<1>1. player \in Players
  BY DEF PlaybackInv, TypeOK
<1>2. ASSUME NEW event, NEW kind, NEW id, Begins(event, kind, id)
      PROVE  /\ UNCHANGED <<made, crossed, state>>
             /\ \A c \in callbacks' :
                  c \in callbacks \/ c = [event |-> event, kind |-> kind, id |-> id]
  BY <1>2 DEF Begins, machineVars
<1>3. CASE ApiPrepared
  <2> DEFINE b == [event |-> "prepared", kind |-> "api", id |-> player.id]
  <2>1. /\ player' = [player EXCEPT !.prepared = TRUE] /\ player.kind = "api"
        /\ Begins("prepared", "api", player.id)
    BY <1>3 DEF ApiPrepared, LiveApi
  <2>2. /\ player'.kind = player.kind /\ player'.id = player.id /\ player'.prepared
    BY <1>1, <2>1 DEF Players
  <2>3. UNCHANGED <<made, crossed, state>> /\ \A c \in callbacks' : c \in callbacks \/ c = b
    BY <1>2, <2>1
  <2>4. b.id \in 1 .. made
    BY <2>1 DEF Ready
  <2> HIDE DEF b
  <2> QED  BY <2>2, <2>3, <2>4 DEF Ready, PausedIsPrepared
<1>4. CASE ApiErrors \/ ApiCompletes \/ FlacEnds
  <2>1. /\ \/ player' = [player EXCEPT !.alive = FALSE, !.started = FALSE]
           \/ player' = [player EXCEPT !.started = FALSE]
        /\ \E event \in {"error", "finished"}, kind \in {"api", "flac"} :
             Begins(event, kind, player.id)
    BY <1>4 DEF ApiErrors, ApiCompletes, FlacEnds
  <2>2. /\ player'.kind = player.kind /\ player'.id = player.id
        /\ player'.prepared = player.prepared
    BY <1>1, <2>1 DEF Players
  <2>3. PICK event \in {"error", "finished"}, kind \in {"api", "flac"} :
             Begins(event, kind, player.id)
    BY <2>1
  <2>4. /\ UNCHANGED <<made, crossed, state>>
        /\ \A c \in callbacks' : c \in callbacks \/ c.event = event
    BY <1>2, <2>3
  <2> QED  BY <2>2, <2>4, ReadyQuiet
<1>5. CASE ApiBuffers \/ Retires
  <2>1. /\ player' = player
        /\ \E event \in {"playing", "buffering", "error", "finished"},
              kind \in {"api", "flac"} : \E id : Begins(event, kind, id)
    BY <1>5 DEF ApiBuffers, Retires, RetiredEnds
  <2>2. PICK event \in {"playing", "buffering", "error", "finished"},
              kind \in {"api", "flac"} : \E id : Begins(event, kind, id)
    BY <2>1
  <2>3. /\ UNCHANGED <<made, crossed, state>>
        /\ \A c \in callbacks' : c \in callbacks \/ c.event = event
    BY <1>2, <2>2
  <2> QED  BY <2>1, <2>3, ReadyQuiet
<1> QED  BY <1>3, <1>4, <1>5 DEF MediaStep, Prepares

\* The one step that looks at a number: the callback is the player's own, or it
\* has been taken for it.
LEMMA ReadyDeliver ==
  ASSUME PlaybackInv, Ready, NEW c \in callbacks, Deliver(c)
  PROVE  Ready'
<1>1. /\ callbacks' = callbacks \ {c} /\ UNCHANGED <<player, made>>
      /\ crossed' = (crossed \/ Mistaken(c))
      /\ \/ state' = state
         \/ state' \in Active /\ state \in Active
         \/ c.event = "prepared" /\ state = "PREPARING" /\ state' = "PAUSED"
  BY DEF Deliver, mediaVars, Active
<1>2. state' \in Active => player.prepared
  BY <1>1 DEF Ready, Active
<1>3. state' = "PAUSED" /\ ~crossed' => player.prepared
  <2>1. CASE c.event = "prepared" /\ state = "PREPARING" /\ state' = "PAUSED"
    BY <1>1, <2>1 DEF Ready, Mistaken
  <2>2. CASE state' = state \/ state' \in Active
    BY <1>1, <2>2 DEF Ready, PausedIsPrepared, Active
  <2> QED  BY <1>1, <2>1, <2>2
<1> QED  BY <1>1, <1>2, <1>3 DEF Ready, PausedIsPrepared

LEMMA ReadyStep == PlaybackInv /\ Ready /\ [Next]_vars => Ready'
<1> SUFFICES ASSUME PlaybackInv, Ready, [Next]_vars PROVE Ready'
  OBVIOUS
<1>1. CASE UserStep \/ TickBegins \/ TickEnds \/ UNCHANGED vars
  <2>1. UNCHANGED <<state, player, made, callbacks, crossed>>
    BY <1>1 DEF UserStep, Play, Stop, Pause, Resume, SetTarget, SeekTo, Destroy,
                TickBegins, TickEnds, vars, machineVars, mediaVars
  <2> QED  BY <2>1, ReadyQuiet
<1> QED  BY <1>1, ReadyThread, ReadyMedia, ReadyDeliver DEF Next, DeliverApi, DeliverFlac

\* A paused player is prepared, through all calls, iterations and callbacks but
\* one: until an onPrepared of an earlier player is taken for that of the player
\* that prepares, resume() is refused to no player.
THEOREM PausedPlayerResumes == Spec => []PausedIsPrepared
<1>1. Init => Ready
  <2> SUFFICES ASSUME Init PROVE Ready
    OBVIOUS
  <2> QED  BY DEF Init, Ready, PausedIsPrepared, Active, NoPlayer
<1>2. Ready => PausedIsPrepared
  BY DEF Ready
<1> QED  BY <1>1, <1>2, ReadyStep, PlaybackAgrees, PTL DEF Spec
===============================================================================
