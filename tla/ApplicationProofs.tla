------------------------- MODULE ApplicationProofs -------------------------
(***************************************************************************)
(* Proofs about the application, for any torrents, configurations, channel *)
(* capacity and number of commands, boots and crashes.                     *)
(*                                                                         *)
(* No property is inductive by itself.  That flags on disk are never stale *)
(* needs the same of the map in memory, from which they are rewritten, and *)
(* what the handler holds while it persists; that one engine runs on the   *)
(* saved configuration needs to know that no engine is left when the       *)
(* handler is about to boot one; that the window shows what runs needs the *)
(* order of the answers on their way to it.                                *)
(***************************************************************************)
EXTENDS Application, SequenceTheorems, TLAPS

\* A command that names a torrent is a well-formed change.
Sound(cmd) ==
    cmd.kind \in {"mark", "delete"} =>
        cmd.torrent \in Torrent /\ cmd.completed \in BOOLEAN

\* Commands in their channel and in hand; the handler rests while the process
\* is off.
HandlerInv ==
    /\ commands \in Seq(Command)
    /\ handler = [at |-> handler.at, cmd |-> handler.cmd, say |-> handler.say]
    /\ Sound(handler.cmd)
    /\ handler.at = "save" => handler.cmd.kind = "apply"
    /\ handler.at = "persist" => handler.cmd.kind \in {"mark", "delete"}
    /\ phase = "off" => handler = Idle

\* One engine at most, and none while one is about to be booted.
EngineInv ==
    /\ boots \in Nat
    /\ manager = NoEngine \/ manager.gen \in 1..boots
    /\ phase = "off" => manager = NoEngine /\ seeding = {}
    /\ phase \in {"window", "closing"} => seeding = {manager.gen} \ {0}
    /\ handler.at = "boot" => manager = NoEngine

\* No file, no map in memory holds a value older than the last acknowledged.
FlagInv ==
    /\ since \in [Torrent -> SUBSET BOOLEAN]
    /\ FlagSurvives
    /\ manager # NoEngine \/ handler.at = "persist" =>
          UpToDate(memory)
    /\ handler.at = "persist" =>
          (handler.cmd.torrent \in memory <=> handler.cmd.completed)

-----------------------------------------------------------------------------
(* What the commands and the steps of the handler look like. *)

LEMMA CommandSound == ASSUME NEW cmd \in Command PROVE Sound(cmd)
<1>1. CASE cmd \in Change
  BY <1>1 DEF Change, Sound
<1>2. CASE cmd \in Apply
  BY <1>2 DEF Apply, Sound
<1>3. CASE \E k \in {"list", "add", "stop", "start", "announce"} : cmd = Kind(k)
  BY <1>3 DEF Kind, Sound
<1> QED
  BY <1>1, <1>2, <1>3 DEF Command

LEMMA IdleIs ==
    /\ Idle.at = "idle" /\ Idle.say = <<>> /\ Sound(Idle.cmd)
    /\ Idle = [at |-> Idle.at, cmd |-> Idle.cmd, say |-> Idle.say]
BY DEF Idle, Sound, Kind

LEMMA OfferedSeq ==
    ASSUME NEW queue \in Seq(Command), NEW cmd \in Command
    PROVE  Offered(queue, cmd) \in Seq(Command)
BY DEF Offered

\* Go and Done keep the handler a record, with the command it had or none.
LEMMA GoIs ==
    ASSUME HandlerInv, NEW step, NEW say, Go(step, say)
    PROVE  handler' = [at |-> step, cmd |-> handler.cmd, say |-> say]
BY DEF HandlerInv, Go

LEMMA DoneIs ==
    ASSUME NEW say, Done(say)
    PROVE  handler' = [at |-> "idle", cmd |-> Kind("none"), say |-> say]
BY DEF Done, Idle

LEMMA NoneSound == Sound(Kind("none"))
BY DEF Sound, Kind

LEMMA DoneKeeps ==
    ASSUME HandlerInv, commands' = commands, phase' = phase, phase # "off",
           NEW say, Done(say)
    PROVE  HandlerInv' /\ handler'.at = "idle"
<1>1. handler' = [at |-> "idle", cmd |-> Kind("none"), say |-> say]
  BY DoneIs
<1> QED
  BY <1>1, NoneSound DEF HandlerInv

\* A handler at any of the steps but save and persist, with its command or none.
LEMMA HandlerMoves ==
    ASSUME HandlerInv, commands' = commands, phase' = phase, phase # "off",
           NEW step, NEW say, step \notin {"save", "persist"},
           Go(step, say) \/ Done(say)
    PROVE  HandlerInv' /\ handler'.at \in {step, "idle"}
<1>1. CASE Go(step, say)
  <2>1. handler' = [at |-> step, cmd |-> handler.cmd, say |-> say]
    BY <1>1, GoIs
  <2> QED
    BY <2>1 DEF HandlerInv
<1>2. CASE Done(say)
  BY <1>2, DoneKeeps
<1> QED
  BY <1>1, <1>2

-----------------------------------------------------------------------------
(* The steps of the UI leave the engine, the disk and the handler alone. *)

UiStep ==
    \/ DrainEvents \/ DrainResponse \/ DrainDone \/ EndFrame
    \/ \E cmd \in Clicks : Click(cmd)
    \/ \E cmd \in Apply : ClickApply(cmd)

LEMMA UiStepIs ==
    ASSUME HandlerInv, UiStep
    PROVE  UNCHANGED <<process, disk, memory, since>> /\ commands' \in Seq(Command)
<1>1. CASE DrainEvents \/ DrainResponse \/ EndFrame
  BY <1>1 DEF DrainEvents, DrainResponse, EndFrame, HandlerInv, history
<1>2. CASE DrainDone
  <2>1. Kind("list") \in Command
    BY DEF Command
  <2> QED
    BY <1>2, <2>1, OfferedSeq DEF DrainDone, HandlerInv, history
<1>3. ASSUME NEW cmd \in Clicks, Click(cmd)
      PROVE  UNCHANGED <<process, disk, memory, since>> /\ commands' \in Seq(Command)
  BY <1>3, OfferedSeq, ClicksAssumption DEF Click, HandlerInv
<1>4. ASSUME NEW cmd \in Apply, ClickApply(cmd)
      PROVE  UNCHANGED <<process, disk, memory, since>> /\ commands' \in Seq(Command)
  BY <1>4, OfferedSeq DEF ClickApply, HandlerInv, Command
<1> QED
  BY <1>1, <1>2, <1>3, <1>4 DEF UiStep

\* The other steps, with stuttering.
OtherStep ==
    \/ Launch \/ CloseWindow \/ MainStops \/ Exit \/ Crash
    \/ Take \/ Say \/ ListOrAdd \/ Save \/ Lock \/ Release
    \/ StopOrRestart \/ BootEngine \/ AnnounceAllNow \/ ChangeFlag \/ Persist
    \/ UNCHANGED vars

LEMMA StepIs == [Next]_vars => UiStep \/ OtherStep
BY DEF Next, UiStep, OtherStep

\* Booting, or failing to, leaves the handler with some answer.
LEMMA BootEngineIs ==
    ASSUME BootEngine
    PROVE  /\ Boot \/ UNCHANGED <<manager, seeding, memory, boots>>
           /\ \E say : Go("release", say) \/ Done(say)
<1> DEFINE applying == handler.cmd.kind = "apply"
           Answer(say) == IF applying THEN Done(say) /\ locked' = FALSE
                                      ELSE Go("release", say) /\ UNCHANGED locked
<1>1. ASSUME NEW say, Answer(say)
      PROVE  Go("release", say) \/ Done(say)
  BY <1>1
<1>2. \/ Boot /\ \E say : Answer(say)
      \/ UNCHANGED <<manager, seeding, memory, boots>> /\ \E say : Answer(say)
  <2> HIDE DEF Answer
  <2> QED
    BY DEF BootEngine, Answer
<1> QED
  BY <1>1, <1>2

-----------------------------------------------------------------------------
LEMMA HandlerKept ==
    ASSUME HandlerInv, [Next]_vars
    PROVE  HandlerInv'
<1>1. CASE UiStep
  BY <1>1, UiStepIs DEF HandlerInv, process
<1>2. CASE Launch
  BY <1>2 DEF Launch, HandlerInv
<1>3. CASE CloseWindow
  BY <1>3 DEF CloseWindow, HandlerInv
<1>4. CASE MainStops
  BY <1>4 DEF MainStops, HandlerInv
<1>5. CASE Exit \/ Crash
  <2>1. Vanish
    BY <1>5 DEF Exit, Crash
  <2> QED
    BY <2>1, IdleIs DEF Vanish, HandlerInv
<1>6. CASE Take
  <2>1. Head(commands) \in Command /\ Tail(commands) \in Seq(Command)
    BY <1>6 DEF Take, HandlerInv
  <2>2. Sound(Head(commands))
    BY <2>1, CommandSound
  <2>3. CASE Head(commands).kind = "apply"
    BY <1>6, <2>1, <2>2, <2>3 DEF Take, HandlerInv, At
  <2>4. CASE Head(commands).kind \in {"list", "add"}
    BY <1>6, <2>1, <2>2, <2>4 DEF Take, HandlerInv, At
  <2>5. CASE Head(commands).kind \notin {"apply", "list", "add"}
    BY <1>6, <2>1, <2>2, <2>5 DEF Take, HandlerInv, At
  <2> QED
    BY <2>3, <2>4, <2>5
<1>7. CASE Say
  BY <1>7 DEF Say, HandlerInv
<1>8. CASE ListOrAdd
  BY <1>8, HandlerMoves DEF ListOrAdd, At
<1>9. CASE Save
  <2>1. CASE Go("lock", <<>>)
    BY <1>9, <2>1, HandlerMoves DEF Save, At
  <2>2. CASE Done(ErrorReply)
    BY <1>9, <2>2, DoneKeeps DEF Save, At
  <2> QED
    BY <1>9, <2>1, <2>2 DEF Save
<1>10. CASE Lock
  BY <1>10, HandlerMoves DEF Lock, At
<1>11. CASE Release
  BY <1>11, HandlerMoves DEF Release, At
<1>12. CASE StopOrRestart
  BY <1>12, HandlerMoves DEF StopOrRestart, MakeWay, At
<1>13. CASE BootEngine
  <2>1. PICK say : Go("release", say) \/ Done(say)
    BY <1>13, BootEngineIs
  <2> QED
    BY <1>13, <2>1, HandlerMoves DEF BootEngine, At
<1>14. CASE AnnounceAllNow
  BY <1>14, HandlerMoves DEF AnnounceAllNow, At
<1>15. CASE ChangeFlag
  <2>1. CASE Go("release", ErrorReply)
    BY <1>15, <2>1, HandlerMoves DEF ChangeFlag, At
  <2>2. CASE Go("persist", <<>>)
    <3>1. handler' = [at |-> "persist", cmd |-> handler.cmd, say |-> <<>>]
      BY <2>2, GoIs
    <3> QED
      BY <1>15, <3>1 DEF ChangeFlag, HandlerInv, At
  <2> QED
    BY <1>15, <2>1, <2>2 DEF ChangeFlag
<1>16. CASE Persist
  BY <1>16, HandlerMoves DEF Persist, At
<1>17. CASE UNCHANGED vars
  BY <1>17 DEF vars, process, HandlerInv
<1> QED
  BY StepIs, <1>1, <1>2, <1>3, <1>4, <1>5, <1>6, <1>7, <1>8, <1>9, <1>10, <1>11,
     <1>12, <1>13, <1>14, <1>15, <1>16, <1>17 DEF OtherStep

-----------------------------------------------------------------------------
(* One engine. *)

LEMMA BootIs ==
    ASSUME EngineInv, manager = NoEngine, Boot
    PROVE  /\ boots' \in Nat /\ manager'.gen \in 1..boots' /\ manager'.config = config
           /\ seeding' = seeding \cup {manager'.gen}
BY DEF Boot, EngineInv

LEMMA ShutIs ==
    ASSUME EngineInv, Shut
    PROVE  /\ manager' = NoEngine
           /\ phase \in {"window", "closing"} => seeding' = {}
BY DEF Shut, EngineInv, NoEngine

LEMMA EngineKept ==
    ASSUME HandlerInv, EngineInv, [Next]_vars
    PROVE  EngineInv'
<1>1. CASE UiStep
  BY <1>1, UiStepIs DEF EngineInv, process
<1>2. CASE Launch
  <2>1. manager = NoEngine /\ seeding = {} /\ handler = Idle
    BY <1>2 DEF Launch, EngineInv, HandlerInv
  <2>2. Boot /\ phase' = "window" /\ handler' = handler
    BY <1>2 DEF Launch
  <2> QED
    BY <2>1, <2>2, BootIs, IdleIs DEF EngineInv
<1>3. CASE CloseWindow
  BY <1>3 DEF CloseWindow, EngineInv
<1>4. CASE MainStops
  BY <1>4 DEF MainStops, EngineInv
<1>5. CASE Exit \/ Crash
  <2>1. Vanish
    BY <1>5 DEF Exit, Crash
  <2> QED
    BY <2>1, IdleIs DEF Vanish, EngineInv
<1>6. CASE Take
  <2>1. handler'.at # "boot" /\ UNCHANGED <<phase, manager, seeding, boots>>
    BY <1>6 DEF Take
  <2> QED
    BY <2>1 DEF EngineInv
<1>7. CASE Say
  <2>1. handler'.at = handler.at
    BY <1>7 DEF Say, HandlerInv
  <2> QED
    BY <1>7, <2>1 DEF Say, EngineInv
<1>8. CASE ListOrAdd \/ Save \/ Lock \/ Release \/ AnnounceAllNow
  <2>1. ASSUME ListOrAdd \/ Release PROVE handler'.at # "boot"
    BY <2>1, DoneIs DEF ListOrAdd, Release
  <2>2. handler'.at # "boot"
    BY <1>8, <2>1, GoIs, DoneIs DEF Save, Lock, AnnounceAllNow
  <2>3. UNCHANGED <<phase, manager, seeding, boots>>
    BY <1>8 DEF ListOrAdd, Save, Lock, Release, AnnounceAllNow
  <2> QED
    BY <2>2, <2>3 DEF EngineInv
<1>9. CASE StopOrRestart
  <2>1. phase # "off" /\ UNCHANGED <<phase, boots>>
    BY <1>9 DEF StopOrRestart, At
  <2>2. CASE Shut
    BY <2>1, <2>2, ShutIs DEF EngineInv, NoEngine
  <2>3. CASE /\ UNCHANGED <<manager, seeding, ended, memory>>
             /\ manager = NoEngine \/ \E say : Go("release", say)
    <3>1. CASE manager = NoEngine
      BY <2>1, <2>3, <3>1 DEF EngineInv
    <3>2. ASSUME NEW say, Go("release", say) PROVE EngineInv'
      BY <2>1, <2>3, <3>2, GoIs DEF EngineInv
    <3> QED
      BY <2>3, <3>1, <3>2
  <2> QED
    BY <1>9, <2>2, <2>3 DEF StopOrRestart, MakeWay
<1>10. CASE BootEngine
  <2>1. /\ phase # "off" /\ phase' = phase
        /\ manager = NoEngine
    BY <1>10 DEF BootEngine, At, EngineInv
  <2>2. handler'.at # "boot"
    <3>1. PICK say : Go("release", say) \/ Done(say)
      BY <1>10, BootEngineIs
    <3> QED
      BY <3>1, GoIs, DoneIs
  <2>3. CASE Boot
    BY <2>1, <2>2, <2>3, BootIs DEF EngineInv, NoEngine
  <2>4. CASE UNCHANGED <<manager, seeding, memory, boots>>
    BY <2>1, <2>2, <2>4 DEF EngineInv
  <2> QED
    BY <1>10, <2>3, <2>4, BootEngineIs
<1>11. CASE ChangeFlag \/ Persist
  <2>1. \E step, say : step # "boot" /\ Go(step, say)
    BY <1>11 DEF ChangeFlag, Persist
  <2>2. handler'.at # "boot"
    BY <2>1, GoIs
  <2>3. UNCHANGED <<phase, manager, seeding, boots>>
    BY <1>11 DEF ChangeFlag, Persist
  <2> QED
    BY <2>2, <2>3 DEF EngineInv
<1>12. CASE UNCHANGED vars
  BY <1>12 DEF vars, process, EngineInv
<1> QED
  BY StepIs, <1>1, <1>2, <1>3, <1>4, <1>5, <1>6, <1>7, <1>8, <1>9, <1>10, <1>11,
     <1>12 DEF OtherStep

\* An engine runs the saved configuration, unless an apply in hand has saved
\* another one and has yet to stop it.
SavedInv ==
    manager # NoEngine /\ ~(handler.cmd.kind = "apply" /\ handler.at \in {"lock", "work"})
        => manager.config = config

LEMMA SavedKept ==
    ASSUME HandlerInv, EngineInv, SavedInv, [Next]_vars
    PROVE  SavedInv'
<1>1. CASE UiStep
  BY <1>1, UiStepIs DEF SavedInv, process, disk
<1>2. CASE Launch
  <2>1. manager = NoEngine /\ Boot /\ UNCHANGED config
    BY <1>2 DEF Launch, EngineInv, disk
  <2> QED
    BY <2>1, BootIs DEF SavedInv
<1>3. CASE CloseWindow \/ MainStops
  BY <1>3 DEF CloseWindow, MainStops, SavedInv, disk
<1>4. CASE Exit \/ Crash
  BY <1>4 DEF Exit, Crash, Vanish, SavedInv
<1>5. CASE Take
  <2>1. handler.at = "idle" /\ UNCHANGED <<manager, config>>
    BY <1>5 DEF Take, At, disk
  <2>2. handler'.cmd.kind = "apply" => handler'.at = "save"
    BY <1>5 DEF Take
  <2> QED
    BY <2>1, <2>2 DEF SavedInv
<1>6. CASE Say
  BY <1>6 DEF Say, SavedInv, HandlerInv, disk
<1>7. CASE ListOrAdd
  BY <1>7, DoneIs DEF ListOrAdd, SavedInv, At, disk
<1>8. CASE Save
  <2>1. CASE Go("lock", <<>>)
    <3>1. handler'.at = "lock" /\ handler'.cmd.kind = "apply"
      BY <1>8, <2>1, GoIs DEF Save, At, HandlerInv
    <3> QED
      BY <3>1 DEF SavedInv
  <2>2. CASE UNCHANGED config
    BY <1>8, <2>2 DEF Save, SavedInv, At
  <2> QED
    BY <1>8, <2>1, <2>2 DEF Save
<1>9. CASE Lock
  BY <1>9, GoIs DEF Lock, SavedInv, At, disk
<1>10. CASE Release
  BY <1>10 DEF Release, SavedInv, At, disk
<1>11. CASE StopOrRestart
  <2>1. CASE Shut
    BY <2>1 DEF Shut, SavedInv
  <2>2. CASE handler.cmd.kind = "apply" /\ manager = NoEngine /\ manager' = manager
    BY <2>2 DEF SavedInv
  <2>3. CASE handler.cmd.kind # "apply" /\ UNCHANGED manager
    BY <1>11, <2>3 DEF StopOrRestart, SavedInv, disk
  <2> QED
    BY <1>11, <2>1, <2>2, <2>3 DEF StopOrRestart, MakeWay
<1>12. CASE BootEngine
  <2>1. manager = NoEngine /\ UNCHANGED config
    BY <1>12 DEF BootEngine, At, EngineInv, disk
  <2>2. CASE Boot
    BY <2>1, <2>2, BootIs DEF SavedInv
  <2>3. CASE UNCHANGED manager
    BY <2>1, <2>3 DEF SavedInv
  <2> QED
    BY <1>12, <2>2, <2>3, BootEngineIs
<1>13. CASE AnnounceAllNow \/ ChangeFlag \/ Persist
  <2>1. ~(handler.cmd.kind = "apply" /\ handler.at \in {"lock", "work"})
    BY <1>13 DEF AnnounceAllNow, ChangeFlag, Persist, At
  <2>2. UNCHANGED <<manager, config>>
    BY <1>13 DEF AnnounceAllNow, ChangeFlag, Persist, disk
  <2> QED
    BY <2>1, <2>2 DEF SavedInv
<1>14. CASE UNCHANGED vars
  BY <1>14 DEF vars, process, disk, SavedInv
<1> QED
  BY StepIs, <1>1, <1>2, <1>3, <1>4, <1>5, <1>6, <1>7, <1>8, <1>9, <1>10, <1>11,
     <1>12, <1>13, <1>14 DEF OtherStep

-----------------------------------------------------------------------------
(* The flags. *)

\* Nothing of FlagInv changes but, perhaps, the handler's place.
LEMMA FlagsAlone ==
    ASSUME FlagInv, UNCHANGED <<flags, memory, since>>,
           manager' # NoEngine => manager # NoEngine \/ handler.at = "persist",
           handler'.at = "persist" => handler' = handler
    PROVE  FlagInv'
BY DEF FlagInv, FlagSurvives, UpToDate

\* The map in memory is the file, or is no longer there.
LEMMA FlagsLoaded ==
    ASSUME FlagInv, UNCHANGED <<flags, since>>, memory' = flags \/ manager' = NoEngine,
           handler'.at # "persist"
    PROVE  FlagInv'
BY DEF FlagInv, FlagSurvives, UpToDate

LEMMA ChangeFlagKept ==
    ASSUME HandlerInv, FlagInv, ChangeFlag
    PROVE  FlagInv'
<1> DEFINE t == handler.cmd.torrent
           c == handler.cmd.completed
<1>1. CASE handler.cmd.kind = "delete" /\ manager = NoEngine
  <2>1. Go("release", ErrorReply) /\ UNCHANGED <<flags, memory, since, manager>>
    BY <1>1 DEF ChangeFlag, disk
  <2>2. handler'.at = "release"
    BY <2>1, GoIs
  <2> QED
    BY <2>1, <2>2, FlagsAlone
<1>2. CASE ~(handler.cmd.kind = "delete" /\ manager = NoEngine)
  <2>1. /\ memory' = IF c THEN Store \cup {t} ELSE Store \ {t}
        /\ since' = [since EXCEPT ![t] = @ \cup {c}]
        /\ flags' = flags
        /\ Go("persist", <<>>)
    BY <1>2 DEF ChangeFlag, disk
  <2>2. t \in Torrent /\ c \in BOOLEAN
    BY DEF ChangeFlag, HandlerInv, Sound
  <2>3. handler'.cmd = handler.cmd
    BY <2>1, GoIs
  <2>4. UpToDate(Store)
    BY DEF Store, FlagInv, FlagSurvives
  <2>5. t \in memory' <=> c
    BY <2>1
  <2>6. /\ since' \in [Torrent -> SUBSET BOOLEAN]
        /\ c \in since'[t]
        /\ \A u \in Torrent : since[u] \subseteq since'[u]
    BY <2>1, <2>2 DEF FlagInv
  <2>7. \A u \in Torrent \ {t} : u \in memory' <=> u \in Store
    BY <2>1
  <2>8. UpToDate(memory)'
    BY <2>2, <2>4, <2>5, <2>6, <2>7 DEF UpToDate
  <2>9. FlagSurvives'
    BY <2>1, <2>6 DEF FlagInv, FlagSurvives, UpToDate
  <2> QED
    BY <2>3, <2>5, <2>6, <2>8, <2>9 DEF FlagInv
<1> QED
  BY <1>1, <1>2

LEMMA PersistKept ==
    ASSUME HandlerInv, FlagInv, Persist
    PROVE  FlagInv'
<1> DEFINE t == handler.cmd.torrent
           c == handler.cmd.completed
<1>1. handler'.at = "release" /\ UNCHANGED manager
  BY GoIs DEF Persist
<1>2. manager # NoEngine => memory' = memory
  BY DEF Persist
<1>3. /\ UpToDate(memory)
      /\ t \in memory <=> c
      /\ t \in Torrent /\ c \in BOOLEAN
  BY DEF Persist, At, FlagInv, HandlerInv, Sound
<1>4. CASE UNCHANGED <<flags, since>>
  BY <1>1, <1>2, <1>3, <1>4 DEF FlagInv, FlagSurvives, UpToDate
<1>5. CASE flags' = memory /\ since' = [since EXCEPT ![t] = {c}]
  <2>1. /\ since' \in [Torrent -> SUBSET BOOLEAN]
        /\ c \in since'[t]
        /\ \A u \in Torrent \ {t} : since'[u] = since[u]
    BY <1>3, <1>5 DEF FlagInv
  <2>2. \A u \in Torrent : IF u \in memory THEN TRUE \in since'[u] ELSE FALSE \in since'[u]
    BY <1>3, <2>1 DEF UpToDate
  <2> QED
    BY <1>1, <1>2, <1>5, <2>1, <2>2 DEF FlagInv, FlagSurvives, UpToDate
<1> QED
  BY <1>4, <1>5 DEF Persist

LEMMA FlagKept ==
    ASSUME HandlerInv, EngineInv, FlagInv, [Next]_vars
    PROVE  FlagInv'
<1>1. CASE UiStep
  BY <1>1, UiStepIs, FlagsAlone DEF process, disk
<1>2. CASE Launch
  BY <1>2, IdleIs, FlagsLoaded DEF Launch, Boot, HandlerInv, disk, history
<1>3. CASE CloseWindow \/ MainStops
  BY <1>3, FlagsAlone DEF CloseWindow, MainStops, disk, history
<1>4. CASE Exit \/ Crash
  <2>1. Vanish
    BY <1>4 DEF Exit, Crash
  <2>2. manager' = NoEngine /\ handler'.at = "idle" /\ flags' = flags
    BY <2>1, IdleIs DEF Vanish, disk
  <2>3. since' = OnDisk
    BY <2>1 DEF Vanish
  <2>4. since' \in [Torrent -> SUBSET BOOLEAN] /\ FlagSurvives'
    BY <2>2, <2>3 DEF OnDisk, FlagSurvives, UpToDate
  <2> QED
    BY <2>2, <2>4 DEF FlagInv
<1>5. CASE Take
  BY <1>5, FlagsAlone DEF Take, At, disk, history
<1>6. CASE Say
  <2>1. handler'.at = handler.at /\ handler'.cmd = handler.cmd
    BY <1>6 DEF Say, HandlerInv
  <2>2. UNCHANGED <<flags, memory, since, manager>>
    BY <1>6 DEF Say, disk, history
  <2> QED
    BY <2>1, <2>2 DEF FlagInv, FlagSurvives, UpToDate
<1>7. CASE ListOrAdd \/ Release
  <2>1. handler'.at = "idle"
    BY <1>7, DoneIs DEF ListOrAdd, Release
  <2> QED
    BY <1>7, <2>1, FlagsAlone DEF ListOrAdd, Release, disk, history
<1>8. CASE Save \/ Lock \/ AnnounceAllNow
  <2>1. handler'.at # "persist"
    BY <1>8, GoIs, DoneIs DEF Save, Lock, AnnounceAllNow
  <2> QED
    BY <1>8, <2>1, FlagsAlone DEF Save, Lock, AnnounceAllNow, disk, history
<1>9. CASE StopOrRestart
  <2>1. handler'.at # "persist"
    BY <1>9, GoIs DEF StopOrRestart, MakeWay
  <2>2. UNCHANGED <<flags, since>>
    BY <1>9 DEF StopOrRestart, disk, history
  <2>3. CASE Shut
    BY <2>1, <2>2, <2>3, FlagsLoaded DEF Shut
  <2>4. CASE UNCHANGED <<manager, memory>>
    BY <2>1, <2>2, <2>4, FlagsAlone
  <2> QED
    BY <1>9, <2>3, <2>4 DEF StopOrRestart, MakeWay
<1>10. CASE BootEngine
  <2>1. PICK say : Go("release", say) \/ Done(say)
    BY <1>10, BootEngineIs
  <2>2. handler'.at # "persist"
    BY <2>1, GoIs, DoneIs
  <2>3. UNCHANGED <<flags, since>>
    BY <1>10 DEF BootEngine, disk, history
  <2>4. CASE Boot
    BY <2>2, <2>3, <2>4, FlagsLoaded DEF Boot
  <2>5. CASE UNCHANGED <<manager, memory>>
    BY <2>2, <2>3, <2>5, FlagsAlone
  <2> QED
    BY <1>10, <2>4, <2>5, BootEngineIs
<1>11. CASE ChangeFlag
  BY <1>11, ChangeFlagKept
<1>12. CASE Persist
  BY <1>12, PersistKept
<1>13. CASE UNCHANGED vars
  BY <1>13, FlagsAlone DEF vars, process, disk, history
<1> QED
  BY StepIs, <1>1, <1>2, <1>3, <1>4, <1>5, <1>6, <1>7, <1>8, <1>9, <1>10, <1>11,
     <1>12, <1>13 DEF OtherStep

-----------------------------------------------------------------------------
IInv == HandlerInv /\ EngineInv /\ SavedInv /\ FlagInv

LEMMA Initially == Init => IInv
<1> SUFFICES ASSUME Init PROVE IInv
  OBVIOUS
<1>1. HandlerInv
  BY IdleIs DEF Init, HandlerInv
<1>2. EngineInv /\ SavedInv
  BY IdleIs DEF Init, EngineInv, SavedInv
<1>3. since \in [Torrent -> SUBSET BOOLEAN] /\ FlagSurvives
  BY DEF Init, OnDisk, FlagSurvives, UpToDate
<1>4. manager = NoEngine /\ handler.at = "idle"
  BY IdleIs DEF Init
<1> QED
  BY <1>1, <1>2, <1>3, <1>4 DEF IInv, FlagInv

LEMMA Inductive == Spec => []IInv
<1>1. IInv /\ [Next]_vars => IInv'
  BY HandlerKept, EngineKept, SavedKept, FlagKept DEF IInv
<1> QED
  BY Initially, <1>1, PTL DEF Spec

\* torrent_state.json never holds a value older than the last acknowledged one,
\* for any number of changes, failed writes, restarts and crashes.
THEOREM FlagsSurvive == Spec => []FlagSurvives
<1>1. IInv => FlagSurvives
  BY DEF IInv, FlagInv
<1> QED
  BY Inductive, <1>1, PTL

\* No more than one engine seeds while there is a window, and it runs what
\* config.json says, for any sequence of commands.
THEOREM OneEngine == Spec => []OneEngineOnSavedConfig
<1>1. IInv => OneEngineOnSavedConfig
  BY DEF IInv, EngineInv, SavedInv, OneEngineOnSavedConfig
<1> QED
  BY Inductive, <1>1, PTL

-----------------------------------------------------------------------------
(* The end of the process.  Main stops an engine under the mutex, so what   *)
(* could boot another one afterwards has not yet asked for the mutex: it    *)
(* was waiting when the window closed.                                      *)

Boots(cmd) == cmd.kind \in {"start", "apply"}

\* The handler boots an engine under the mutex only.
LockInv ==
    handler.at = "boot" \/ (handler.at = "work" /\ Boots(handler.cmd))
        => locked /\ Boots(handler.cmd)

\* Nothing is left that could boot an engine once main has stopped the last.
EndInv ==
    phase \in {"closing", "stopped"} /\ ~restart =>
        /\ \A i \in DOMAIN commands : ~Boots(commands[i])
        /\ handler.at \in {"save", "lock"} => ~Boots(handler.cmd)
        /\ phase = "stopped" =>
              /\ seeding = {}
              /\ handler.at # "boot"
              /\ handler.at = "work" => ~Boots(handler.cmd)

CleanInv == HandlerInv /\ EngineInv /\ LockInv /\ EndInv

LEMMA UiStepIsOpen ==
    ASSUME UiStep
    PROVE  phase = "window" /\ UNCHANGED process
BY DEF UiStep, DrainEvents, DrainResponse, DrainDone, EndFrame, Click, ClickApply

LEMMA LockKept ==
    ASSUME HandlerInv, LockInv, [Next]_vars
    PROVE  LockInv'
<1>1. CASE UiStep
  BY <1>1, UiStepIsOpen DEF LockInv, process
<1>2. CASE Launch \/ CloseWindow \/ MainStops
  BY <1>2 DEF Launch, CloseWindow, MainStops, LockInv
<1>3. CASE Exit \/ Crash
  BY <1>3, IdleIs DEF Exit, Crash, Vanish, LockInv
<1>4. CASE Take
  <2>1. Head(commands).kind \in {"list", "add"} => ~Boots(Head(commands))
    BY DEF Boots
  <2>2. handler'.at = "work" => handler'.cmd.kind \in {"list", "add"}
    BY <1>4 DEF Take
  <2>3. handler'.at # "boot"
    BY <1>4 DEF Take
  <2> QED
    BY <2>2, <2>3 DEF LockInv, Boots
<1>5. CASE Say
  BY <1>5 DEF Say, LockInv, HandlerInv
<1>6. CASE ListOrAdd \/ Release
  <2>1. handler'.at = "idle"
    BY <1>6, DoneIs DEF ListOrAdd, Release
  <2> QED
    BY <2>1 DEF LockInv
<1>7. CASE Save \/ AnnounceAllNow \/ ChangeFlag \/ Persist
  <2>1. handler'.at \in {"lock", "idle", "release", "persist"}
    BY <1>7, GoIs, DoneIs DEF Save, AnnounceAllNow, ChangeFlag, Persist
  <2> QED
    BY <2>1 DEF LockInv
<1>8. CASE Lock
  <2>1. handler'.at = "work" /\ locked' = TRUE
    BY <1>8, GoIs DEF Lock
  <2> QED
    BY <2>1 DEF LockInv
<1>9. CASE StopOrRestart
  <2>1. CASE \E say : Go("boot", say) /\ Boots(handler.cmd)
    <3>1. handler'.at = "boot" /\ handler'.cmd = handler.cmd /\ Boots(handler.cmd)
      BY <2>1, GoIs
    <3>2. locked /\ locked' = locked
      BY <1>9, <2>1 DEF StopOrRestart, At, LockInv
    <3> QED
      BY <3>1, <3>2 DEF LockInv
  <2>2. CASE \E say : Go("release", say)
    <3>1. handler'.at = "release"
      BY <2>2, GoIs
    <3> QED
      BY <3>1 DEF LockInv
  <2> QED
    BY <1>9, <2>1, <2>2 DEF StopOrRestart, MakeWay, Boots
<1>10. CASE BootEngine
  <2>1. PICK say : Go("release", say) \/ Done(say)
    BY <1>10, BootEngineIs
  <2>2. handler'.at \in {"release", "idle"}
    BY <2>1, GoIs, DoneIs
  <2> QED
    BY <2>2 DEF LockInv
<1>11. CASE UNCHANGED vars
  BY <1>11 DEF vars, process, LockInv
<1> QED
  BY StepIs, <1>1, <1>2, <1>3, <1>4, <1>5, <1>6, <1>7, <1>8, <1>9, <1>10, <1>11
     DEF OtherStep

LEMMA EndKept ==
    ASSUME CleanInv, [Next]_vars
    PROVE  EndInv'
<1> USE DEF CleanInv
<1>1. CASE UiStep
  BY <1>1, UiStepIsOpen DEF EndInv, process
<1>2. CASE Launch
  BY <1>2 DEF Launch, EndInv
<1>3. CASE CloseWindow
  BY <1>3 DEF CloseWindow, EndInv, Boots
<1>4. CASE MainStops
  <2>1. seeding' = {}
    BY <1>4 DEF MainStops, EngineInv
  <2>2. handler.at # "boot" /\ (handler.at = "work" => ~Boots(handler.cmd))
    BY <1>4 DEF MainStops, LockInv
  <2> QED
    BY <1>4, <2>1, <2>2 DEF MainStops, EndInv, history
<1>5. CASE Exit \/ Crash
  BY <1>5 DEF Exit, Crash, Vanish, EndInv
<1>6. ASSUME UNCHANGED <<phase, commands, seeding, restart>>,
             \/ handler'.at \notin {"save", "lock", "work", "boot"}
             \/ handler'.at = handler.at /\ handler'.cmd = handler.cmd
             \/ /\ handler.at = "save" /\ handler'.at = "lock" /\ handler'.cmd = handler.cmd
             \/ /\ handler.at = "lock" /\ handler'.at = "work" /\ handler'.cmd = handler.cmd
      PROVE  EndInv'
  BY <1>6 DEF EndInv
<1>7. CASE Take
  <2>1. /\ commands # <<>> /\ commands \in Seq(Command) /\ commands' = Tail(commands)
        /\ handler'.cmd = Head(commands) /\ handler'.at \in {"save", "work", "lock"}
        /\ UNCHANGED <<phase, seeding, restart>>
    BY <1>7 DEF Take, HandlerInv, history
  <2>2. ASSUME \A i \in DOMAIN commands : ~Boots(commands[i])
        PROVE  ~Boots(Head(commands)) /\ \A i \in DOMAIN Tail(commands) : ~Boots(Tail(commands)[i])
    BY <2>1, <2>2
  <2> QED
    BY <2>1, <2>2 DEF EndInv
<1>8. CASE Say
  BY <1>6, <1>8 DEF Say, HandlerInv, history
<1>9. CASE ListOrAdd \/ Release
  <2>1. handler'.at = "idle"
    BY <1>9, DoneIs DEF ListOrAdd, Release
  <2> QED
    BY <1>6, <1>9, <2>1 DEF ListOrAdd, Release, history
<1>10. CASE Save
  <2>1. handler'.at = "idle" \/ (handler'.at = "lock" /\ handler'.cmd = handler.cmd)
    BY <1>10, GoIs, DoneIs DEF Save
  <2> QED
    BY <1>6, <1>10, <2>1 DEF Save, At, history
<1>11. CASE Lock
  <2>1. handler'.at = "work" /\ handler'.cmd = handler.cmd
    BY <1>11, GoIs DEF Lock
  <2> QED
    BY <1>6, <1>11, <2>1 DEF Lock, At, history
<1>12. CASE AnnounceAllNow \/ ChangeFlag \/ Persist
  <2>1. handler'.at \in {"release", "persist"}
    BY <1>12, GoIs DEF AnnounceAllNow, ChangeFlag, Persist
  <2> QED
    BY <1>6, <1>12, <2>1 DEF AnnounceAllNow, ChangeFlag, Persist, history
<1>13. CASE StopOrRestart
  <2>1. UNCHANGED <<phase, commands, restart>> /\ handler.at = "work"
    BY <1>13 DEF StopOrRestart, At, history
  <2>2. seeding' \subseteq seeding
    BY <1>13 DEF StopOrRestart, MakeWay, Shut
  <2>3. handler'.at = "release" \/ (handler'.at = "boot" /\ Boots(handler.cmd))
    BY <1>13, GoIs DEF StopOrRestart, MakeWay, Boots
  <2> QED
    BY <2>1, <2>2, <2>3 DEF EndInv
<1>14. CASE BootEngine
  <2>1. PICK say : Go("release", say) \/ Done(say)
    BY <1>14, BootEngineIs
  <2>2. handler'.at \in {"release", "idle"} /\ handler.at = "boot"
    BY <1>14, <2>1, GoIs, DoneIs DEF BootEngine, At
  <2> QED
    BY <1>14, <2>2 DEF BootEngine, EndInv, history
<1>15. CASE UNCHANGED vars
  BY <1>6, <1>15 DEF vars, process, history
<1> QED
  BY StepIs, <1>1, <1>2, <1>3, <1>4, <1>5, <1>7, <1>8, <1>9, <1>10, <1>11, <1>12,
     <1>13, <1>14, <1>15 DEF OtherStep

\* The process leaves no engine running unless a command that boots one was
\* waiting when the window closed, for any commands, channels and failures
\* (main.rs: stop() on whatever the shared slot holds).
THEOREM ExitIsClean == Spec => CleanExit
<1>1. Init => CleanInv
  BY Initially, IdleIs DEF Init, IInv, CleanInv, LockInv, EndInv
<1>2. CleanInv /\ [Next]_vars => CleanInv'
  BY HandlerKept, EngineKept, LockKept, EndKept DEF CleanInv
<1>3. CleanInv /\ [Next]_vars => [Exit => seeding = {} \/ restart]_vars
  BY DEF CleanInv, EndInv, Exit
<1> QED
  BY <1>1, <1>2, <1>3, PTL DEF Spec, CleanExit
-----------------------------------------------------------------------------
(* What the window shows.  Answers reach it in order, so what matters is     *)
(* the last Started on its way, or the engine it hears if there is none: no  *)
(* stop may come after it while that engine lives.                           *)

Letter == {Kind(k) : k \in {"Stopped", "ConfigApplied", "Error", "ClientList"}}
          \cup [kind : {"Started"}, gen : Nat]
Panel == [at : {"events", "responses", "input"}, running : BOOLEAN, applying : BOOLEAN,
          bus : Nat, heard : BOOLEAN, listed : BOOLEAN, asked : BOOLEAN]

\* The channel and the answers still in hand are read by the window only.
MailInv ==
    /\ responses \in Seq(Letter) /\ handler.say \in Seq(Letter)
    /\ IF phase = "window" THEN ui \in Panel ELSE responses = <<>>

\* The engine behind the mutex is the last one booted, and it has not ended.
NumberInv ==
    /\ ended \subseteq 1..boots
    /\ manager # NoEngine => manager.gen = boots
    /\ phase = "window" => (manager = NoEngine <=> boots \in ended)

\* The panel u, once it has read the answers m, hears engine b, and no older
\* stop hides that it runs: k is the place of the last Started, 0 for none.
Told(m, b, over, u) ==
    \E k \in 0..Len(m) :
        /\ k = 0 => u.bus = b /\ (b \notin over => u.running)
        /\ k # 0 => m[k] = [kind |-> "Started", gen |-> b]
        /\ \A j \in (k + 1)..Len(m) :
              m[j].kind # "Started" /\ (b \notin over => m[j].kind # "Stopped")

ShownInv ==
    phase = "window" =>
        /\ ui.heard => ui.bus \in ended /\ ~ui.running
        /\ Told(responses \o handler.say, boots, ended, ui)

LEMMA LetterIs ==
    ASSUME NEW r \in Letter
    PROVE  /\ r.kind \in {"Stopped", "ConfigApplied", "Error", "ClientList", "Started"}
           /\ r.kind = "Started" => r = [kind |-> "Started", gen |-> r.gen] /\ r.gen \in Nat
BY DEF Letter, Kind

LEMMA ShortAnswers ==
    /\ <<>> \in Seq(Letter) /\ ErrorReply \in Seq(Letter)
    /\ <<Kind("Stopped")>> \in Seq(Letter) /\ <<Kind("ClientList")>> \in Seq(Letter)
    /\ <<Kind("ConfigApplied")>> \in Seq(Letter)
    /\ \A g \in Nat : <<[kind |-> "Started", gen |-> g]>> \in Seq(Letter)
<1>1. \A k \in {"Stopped", "ConfigApplied", "Error", "ClientList"} : Kind(k) \in Letter
  BY DEF Letter
<1>2. \A g \in Nat : [kind |-> "Started", gen |-> g] \in Letter
  BY DEF Letter
<1>3. \A r \in Letter : <<r>> \in Seq(Letter)
  OBVIOUS
<1> QED
  BY <1>1, <1>2, <1>3 DEF ErrorReply

\* Answers that say nothing of a stop, unless the engine has ended, and nothing
\* of a start leave what the panel will show.
LEMMA ToldMore ==
    ASSUME NEW m \in Seq(Letter), NEW s \in Seq(Letter), NEW b, NEW over, NEW past, NEW u,
           Told(m, b, over, u), over \subseteq past,
           \A i \in 1..Len(s) :
              s[i].kind # "Started" /\ (b \notin past => s[i].kind # "Stopped")
    PROVE  Told(m \o s, b, past, u)
<1>1. PICK k \in 0..Len(m) :
        /\ k = 0 => u.bus = b /\ (b \notin over => u.running)
        /\ k # 0 => m[k] = [kind |-> "Started", gen |-> b]
        /\ \A j \in (k + 1)..Len(m) :
              m[j].kind # "Started" /\ (b \notin over => m[j].kind # "Stopped")
  BY DEF Told
<1>2. /\ Len(m \o s) = Len(m) + Len(s) /\ Len(m) \in Nat /\ Len(s) \in Nat
      /\ \A i \in 1..Len(m \o s) :
            (m \o s)[i] = IF i <= Len(m) THEN m[i] ELSE s[i - Len(m)]
  BY ConcatProperties
<1>3. k # 0 => (m \o s)[k] = [kind |-> "Started", gen |-> b]
  BY <1>1, <1>2
<1>4. ASSUME NEW j \in (k + 1)..Len(m \o s)
      PROVE  /\ (m \o s)[j].kind # "Started"
             /\ b \notin past => (m \o s)[j].kind # "Stopped"
  <2>1. CASE j <= Len(m)
    BY <1>1, <1>2, <2>1
  <2>2. CASE j > Len(m)
    BY <1>2, <2>2
  <2> QED
    BY <1>2, <2>1, <2>2
<1>5. k \in 0..Len(m \o s) /\ (k = 0 => u.bus = b /\ (b \notin past => u.running))
  BY <1>1, <1>2
<1> QED
  BY <1>3, <1>4, <1>5 DEF Told

\* A Started decides, with nothing of the kind behind it.
LEMMA ToldStarted ==
    ASSUME NEW m \in Seq(Letter), NEW s \in Seq(Letter), NEW b, NEW over, NEW u,
           s # <<>>, s[1] = [kind |-> "Started", gen |-> b],
           \A i \in 2..Len(s) : s[i].kind \notin {"Started", "Stopped"}
    PROVE  Told(m \o s, b, over, u)
<1>1. /\ Len(m \o s) = Len(m) + Len(s) /\ Len(m) \in Nat /\ Len(s) \in Nat /\ Len(s) # 0
      /\ \A i \in 1..Len(m \o s) :
            (m \o s)[i] = IF i <= Len(m) THEN m[i] ELSE s[i - Len(m)]
  BY ConcatProperties, EmptySeq
<1> DEFINE k == Len(m) + 1
<1>2. k \in 0..Len(m \o s) /\ k # 0 /\ (m \o s)[k] = [kind |-> "Started", gen |-> b]
  BY <1>1
<1>3. \A j \in (k + 1)..Len(m \o s) : (m \o s)[j].kind \notin {"Started", "Stopped"}
  <2> SUFFICES ASSUME NEW j \in (k + 1)..Len(m \o s)
               PROVE  (m \o s)[j].kind \notin {"Started", "Stopped"}
    OBVIOUS
  <2>1. (m \o s)[j] = s[j - Len(m)] /\ j - Len(m) \in 2..Len(s)
    BY <1>1
  <2> QED
    BY <2>1
<1> QED
  BY <1>2, <1>3 DEF Told

\* The next answer is read.
LEMMA ToldDrained ==
    ASSUME NEW m \in Seq(Letter), m # <<>>, NEW b, NEW over, NEW u, NEW v,
           Told(m, b, over, u),
           Head(m).kind = "Started" => v.bus = Head(m).gen /\ v.running,
           Head(m).kind # "Started" => v.bus = u.bus,
           Head(m).kind \notin {"Started", "Stopped"} /\ u.running => v.running
    PROVE  Told(Tail(m), b, over, v)
<1>1. PICK k \in 0..Len(m) :
        /\ k = 0 => u.bus = b /\ (b \notin over => u.running)
        /\ k # 0 => m[k] = [kind |-> "Started", gen |-> b]
        /\ \A j \in (k + 1)..Len(m) :
              m[j].kind # "Started" /\ (b \notin over => m[j].kind # "Stopped")
  BY DEF Told
<1>2. /\ Len(m) \in Nat /\ Len(m) # 0 /\ Len(Tail(m)) = Len(m) - 1 /\ Head(m) = m[1]
      /\ \A i \in 1..Len(Tail(m)) : Tail(m)[i] = m[i + 1]
  BY HeadTailProperties, EmptySeq
<1>3. CASE k > 1
  <2>1. k - 1 \in 0..Len(Tail(m)) /\ k - 1 # 0 /\ Tail(m)[k - 1] = m[k]
    BY <1>2, <1>3
  <2>2. \A j \in ((k - 1) + 1)..Len(Tail(m)) :
            Tail(m)[j] = m[j + 1] /\ j + 1 \in (k + 1)..Len(m)
    BY <1>2, <1>3
  <2>3. \A j \in ((k - 1) + 1)..Len(Tail(m)) :
            /\ Tail(m)[j].kind # "Started"
            /\ b \notin over => Tail(m)[j].kind # "Stopped"
    BY <1>1, <2>2
  <2> QED
    BY <1>1, <1>3, <2>1, <2>3 DEF Told
<1>4. CASE k <= 1
  <2>1. \A j \in 1..Len(Tail(m)) : Tail(m)[j] = m[j + 1] /\ j + 1 \in (k + 1)..Len(m)
    BY <1>2, <1>4
  <2>2. \A j \in (0 + 1)..Len(Tail(m)) :
            /\ Tail(m)[j].kind # "Started"
            /\ b \notin over => Tail(m)[j].kind # "Stopped"
    BY <1>1, <2>1
  <2>3. v.bus = b /\ (b \notin over => v.running)
    <3>1. CASE k = 1
      <4>1. Head(m) = [kind |-> "Started", gen |-> b]
        BY <1>1, <1>2, <3>1
      <4> QED
        BY <4>1
    <3>2. CASE k = 0
      <4>1. Head(m).kind # "Started" /\ (b \notin over => Head(m).kind # "Stopped")
        BY <1>1, <1>2, <3>2
      <4> QED
        BY <1>1, <3>2, <4>1
    <3> QED
      BY <1>4, <3>1, <3>2
  <2>4. 0 \in 0..Len(Tail(m))
    BY <1>2
  <2> QED
    BY <2>2, <2>3, <2>4 DEF Told
<1> QED
  BY <1>3, <1>4

\* An answer said moves from the hand to the channel.
LEMMA Moved ==
    ASSUME NEW r \in Seq(Letter), NEW s \in Seq(Letter), s # <<>>
    PROVE  Append(r, Head(s)) \o Tail(s) = r \o s
<1>1. Head(s) \in Letter /\ Tail(s) \in Seq(Letter) /\ s = <<Head(s)>> \o Tail(s)
  BY HeadTailProperties, HeadTailAppend
<1>2. Append(r, Head(s)) = r \o <<Head(s)>>
  BY <1>1, AppendIsConcat
<1> QED
  BY <1>1, <1>2, ConcatAssociative

LEMMA ReadFirst ==
    ASSUME NEW r \in Seq(Letter), NEW s \in Seq(Letter), r # <<>>
    PROVE  /\ Head(r \o s) = Head(r) /\ Tail(r \o s) = Tail(r) \o s
           /\ r \o s \in Seq(Letter) /\ r \o s # <<>>
<1>1. Head(r) \in Letter /\ Tail(r) \in Seq(Letter) /\ r = <<Head(r)>> \o Tail(r)
  BY HeadTailProperties, HeadTailAppend
<1>2. r \o s = <<Head(r)>> \o (Tail(r) \o s)
  BY <1>1, ConcatAssociative
<1>3. Tail(r) \o s \in Seq(Letter)
  BY <1>1
<1> QED
  BY <1>1, <1>2, <1>3
-----------------------------------------------------------------------------
(* The steps of the handler, by what they answer. *)

\* The handler, with nothing left to say, says s.
Answers(s) ==
    /\ handler.say = <<>> /\ handler'.say = s /\ s \in Seq(Letter)
    /\ UNCHANGED <<phase, ui, responses>>

Harmless(s) == \A i \in 1..Len(s) : s[i].kind \notin {"Started", "Stopped"}

LEMMA HarmlessAnswers ==
    Harmless(<<>>) /\ Harmless(ErrorReply) /\ Harmless(<<Kind("ClientList")>>)
BY DEF Harmless, ErrorReply, Kind

\* A step that neither boots an engine nor ends one.
QuietStep ==
    /\ UNCHANGED <<manager, ended, boots>>
    /\ \E s : Answers(s) /\ Harmless(s)

EndStep == Shut /\ UNCHANGED boots /\ Answers(<<Kind("Stopped")>>)

BootStep ==
    /\ Boot /\ UNCHANGED ended
    /\ \E s : /\ Answers(s) /\ s # <<>> /\ s[1] = [kind |-> "Started", gen |-> boots']
              /\ \A i \in 2..Len(s) : s[i].kind \notin {"Started", "Stopped"}

\* stop without an engine is answered all the same.
VainStop ==
    /\ UNCHANGED <<manager, ended, boots>> /\ manager = NoEngine
    /\ Answers(<<Kind("Stopped")>>)

LEMMA GoSays ==
    ASSUME HandlerInv, NEW step, NEW say, Go(step, say) \/ Done(say)
    PROVE  handler'.say = say
BY GoIs, DoneIs

LEMMA QuietSteps ==
    ASSUME HandlerInv,
           \/ Take \/ ListOrAdd \/ Save \/ Lock \/ Release
           \/ AnnounceAllNow \/ ChangeFlag \/ Persist
    PROVE  QuietStep
<1>1. /\ handler.say = <<>>
      /\ UNCHANGED <<phase, ui, responses, manager, ended, boots>>
  BY DEF Take, ListOrAdd, Save, Lock, Release, AnnounceAllNow, ChangeFlag, Persist, At
<1>2. \/ handler'.say = <<>> \/ handler'.say = ErrorReply
      \/ handler'.say = <<Kind("ClientList")>>
  <2>1. CASE Take
    BY <2>1 DEF Take
  <2>2. CASE ListOrAdd \/ Save
    BY <2>2, GoSays DEF ListOrAdd, Save
  <2>3. CASE Lock \/ Release \/ AnnounceAllNow
    BY <2>3, GoSays DEF Lock, Release, AnnounceAllNow
  <2>4. CASE ChangeFlag
    <3>1. Go("release", ErrorReply) \/ Go("persist", <<>>)
      BY <2>4 DEF ChangeFlag
    <3> QED
      BY <3>1, GoSays
  <2>5. CASE Persist
    <3>1. Go("release", ErrorReply) \/ Go("release", <<>>)
      BY <2>5 DEF Persist
    <3> QED
      BY <3>1, GoSays
  <2> QED
    BY <2>1, <2>2, <2>3, <2>4, <2>5
<1>3. Answers(handler'.say) /\ Harmless(handler'.say)
  BY <1>1, <1>2, ShortAnswers, HarmlessAnswers DEF Answers
<1> QED
  BY <1>1, <1>3 DEF QuietStep

LEMMA StopOrRestartIs ==
    ASSUME HandlerInv, StopOrRestart
    PROVE  QuietStep \/ EndStep \/ VainStop
<1>1. handler.say = <<>> /\ UNCHANGED <<phase, ui, responses, boots>>
  BY DEF StopOrRestart, At
<1>2. \/ /\ UNCHANGED <<manager, ended>>
         /\ handler'.say = <<>> \/ handler'.say = ErrorReply
      \/ Shut /\ handler'.say = <<Kind("Stopped")>>
      \/ /\ manager = NoEngine /\ UNCHANGED <<manager, ended>>
         /\ handler'.say = <<Kind("Stopped")>>
  BY GoSays DEF StopOrRestart, MakeWay
<1>3. Harmless(<<>>) /\ Harmless(ErrorReply)
  BY HarmlessAnswers
<1>4. handler'.say \in Seq(Letter) => Answers(handler'.say)
  BY <1>1 DEF Answers
<1> QED
  BY <1>1, <1>2, <1>3, <1>4, ShortAnswers DEF QuietStep, EndStep, VainStop

LEMMA StartedAnswer ==
    ASSUME NEW g \in Nat, NEW more \in Seq(Letter), Len(more) <= 1,
           \A i \in 1..Len(more) : more[i].kind \notin {"Started", "Stopped"}
    PROVE  LET s == <<[kind |-> "Started", gen |-> g]>> \o more
           IN  /\ s \in Seq(Letter) /\ s # <<>>
               /\ s[1] = [kind |-> "Started", gen |-> g]
               /\ \A i \in 2..Len(s) : s[i].kind \notin {"Started", "Stopped"}
<1> DEFINE started == <<[kind |-> "Started", gen |-> g]>>
           s == started \o more
<1>1. /\ started \in Seq(Letter) /\ Len(started) = 1
      /\ started[1] = [kind |-> "Started", gen |-> g]
  BY ShortAnswers
<1> HIDE DEF started
<1>2. /\ s \in Seq(Letter) /\ Len(s) = 1 + Len(more) /\ Len(more) \in Nat
      /\ \A i \in 1..Len(s) : s[i] = IF i <= 1 THEN started[i] ELSE more[i - 1]
  <2>1. /\ s \in Seq(Letter) /\ Len(s) = Len(started) + Len(more)
        /\ \A i \in 1..(Len(started) + Len(more)) :
              s[i] = IF i <= Len(started) THEN started[i] ELSE more[i - Len(started)]
    BY <1>1, ConcatProperties
  <2>2. Len(more) \in Nat
    OBVIOUS
  <2> HIDE DEF s
  <2> QED
    BY <1>1, <2>1, <2>2
<1> HIDE DEF s
<1>3. s # <<>> /\ s[1] = [kind |-> "Started", gen |-> g]
  BY <1>1, <1>2
<1>4. \A i \in 2..Len(s) : s[i] = more[i - 1] /\ i - 1 \in 1..Len(more)
  BY <1>2
<1>5. \A i \in 2..Len(s) : s[i].kind \notin {"Started", "Stopped"}
  BY <1>4
<1> QED
  BY <1>2, <1>3, <1>5 DEF s, started

LEMMA BootEngineAnswers ==
    ASSUME HandlerInv, EngineInv, BootEngine
    PROVE  QuietStep \/ BootStep
<1> DEFINE applying == handler.cmd.kind = "apply"
           Answer(say) == IF applying THEN Done(say) /\ locked' = FALSE
                                      ELSE Go("release", say) /\ UNCHANGED locked
           started == <<[kind |-> "Started", gen |-> boots']>>
           more == IF applying THEN <<Kind("ConfigApplied")>> ELSE <<>>
<1>1. handler.say = <<>> /\ UNCHANGED <<phase, ui, responses, ended>>
  BY DEF BootEngine, At
<1>2. ASSUME NEW say, Answer(say) PROVE handler'.say = say
  BY <1>2, GoSays
<1>3. \/ Boot /\ Answer(started \o more)
      \/ UNCHANGED <<manager, seeding, memory, boots>> /\ Answer(ErrorReply)
  <2> HIDE DEF Answer
  <2> QED
    BY DEF BootEngine, Answer, Failure
<1>4. CASE Boot /\ Answer(started \o more)
  <2>1. boots' \in Nat
    BY <1>4 DEF Boot, EngineInv
  <2>2. more \in Seq(Letter)
    BY ShortAnswers
  <2>3. Len(more) <= 1 /\ \A i \in 1..Len(more) : more[i].kind \notin {"Started", "Stopped"}
    BY DEF Kind
  <2> DEFINE s == started \o more
  <2>4. /\ s \in Seq(Letter) /\ s # <<>>
        /\ s[1] = [kind |-> "Started", gen |-> boots']
        /\ \A i \in 2..Len(s) : s[i].kind \notin {"Started", "Stopped"}
    <3> HIDE DEF more
    <3> QED
      BY <2>1, <2>2, <2>3, StartedAnswer
  <2>5. handler'.say = s
    BY <1>2, <1>4
  <2>6. Answers(s)
    BY <1>1, <2>4, <2>5 DEF Answers
  <2> QED
    <3> HIDE DEF s
    <3> QED
      BY <1>1, <1>4, <2>4, <2>6 DEF BootStep
<1>5. CASE UNCHANGED <<manager, seeding, memory, boots>> /\ Answer(ErrorReply)
  <2>1. handler'.say = ErrorReply
    BY <1>2, <1>5
  <2>2. Answers(ErrorReply) /\ Harmless(ErrorReply)
    BY <1>1, <2>1, ShortAnswers, HarmlessAnswers DEF Answers
  <2> QED
    BY <1>1, <1>5, <2>2 DEF QuietStep
<1> QED
  BY <1>3, <1>4, <1>5

\* Every step of the handler but Say.
LEMMA HandlerStepIs ==
    ASSUME HandlerInv, EngineInv,
           \/ Take \/ ListOrAdd \/ Save \/ Lock \/ Release \/ StopOrRestart
           \/ BootEngine \/ AnnounceAllNow \/ ChangeFlag \/ Persist
    PROVE  QuietStep \/ EndStep \/ VainStop \/ BootStep
BY QuietSteps, StopOrRestartIs, BootEngineAnswers

-----------------------------------------------------------------------------
HandlerMove == QuietStep \/ EndStep \/ VainStop \/ BootStep

LEMMA WindowStepIs ==
    ASSUME HandlerInv, EngineInv, [Next]_vars
    PROVE  \/ Launch \/ CloseWindow \/ MainStops \/ Vanish \/ UiStep \/ Say
           \/ HandlerMove
           \/ UNCHANGED <<phase, ui, responses, handler, manager, ended, boots>>
BY StepIs, HandlerStepIs DEF OtherStep, HandlerMove, Exit, Crash, vars, process

LEMMA NumberKept ==
    ASSUME HandlerInv, EngineInv, NumberInv, [Next]_vars
    PROVE  NumberInv'
<1> USE DEF NumberInv
<1>1. CASE Launch
  BY <1>1 DEF Launch, Boot, EngineInv, NoEngine
<1>2. CASE CloseWindow
  BY <1>2 DEF CloseWindow
<1>3. CASE MainStops
  <2>1. {manager.gen} \ {0} \subseteq 1..boots
    BY DEF EngineInv, NoEngine
  <2>2. ended' = ended \cup ({manager.gen} \ {0})
    BY <1>3 DEF MainStops
  <2>3. ended' \subseteq 1..boots
    BY <2>1, <2>2
  <2> QED
    BY <1>3, <2>3 DEF MainStops
<1>4. CASE Vanish
  BY <1>4 DEF Vanish
<1>5. CASE UiStep
  BY <1>5, UiStepIsOpen DEF process
<1>6. CASE Say
  BY <1>6 DEF Say
<1>7. CASE QuietStep \/ VainStop
  BY <1>7 DEF QuietStep, VainStop, Answers
<1>8. CASE EndStep
  <2>1. {manager.gen} \ {0} \subseteq 1..boots
    BY DEF EngineInv, NoEngine
  <2>2. ended' = ended \cup ({manager.gen} \ {0}) /\ manager' = NoEngine
    BY <1>8 DEF EndStep, Shut
  <2>3. ended' \subseteq 1..boots /\ boots' = boots /\ phase' = phase
    BY <1>8, <2>1, <2>2 DEF EndStep, Answers
  <2>4. phase = "window" => boots \in ended'
    BY <2>2 DEF EngineInv
  <2> QED
    BY <2>2, <2>3, <2>4
<1>9. CASE BootStep
  BY <1>9 DEF BootStep, Boot, Answers, EngineInv, NoEngine
<1>10. CASE UNCHANGED <<phase, ui, responses, handler, manager, ended, boots>>
  BY <1>10
<1> QED
  BY WindowStepIs, <1>1, <1>2, <1>3, <1>4, <1>5, <1>6, <1>7, <1>8, <1>9, <1>10
     DEF HandlerMove

\* The frame: what it does to the panel.
LEMMA HeardIs ==
    ASSUME NEW r \in Letter, ui \in Panel, ui' = Heard(r)
    PROVE  /\ ui' \in Panel
           /\ r.kind = "Started" => ui'.bus = r.gen /\ ui'.running /\ ~ui'.heard
           /\ r.kind # "Started" => ui'.bus = ui.bus /\ (ui'.heard => ui.heard)
           /\ r.kind \notin {"Started", "Stopped"} =>
                 (ui.running => ui'.running) /\ (ui'.running => ui.running)
           /\ r.kind = "Stopped" => ~ui'.running
<1>1. CASE r.kind = "ClientList"
  <2>1. ui' = [ui EXCEPT !.listed = TRUE]
    BY <1>1 DEF Heard
  <2> QED
    BY <1>1, <2>1 DEF Panel
<1>2. CASE r.kind = "Stopped"
  <2>1. ui' = [ui EXCEPT !.running = FALSE]
    BY <1>2 DEF Heard
  <2> QED
    BY <1>2, <2>1 DEF Panel
<1>3. CASE r.kind = "Started"
  <2>1. ui' = [ui EXCEPT !.running = TRUE, !.bus = r.gen, !.heard = FALSE]
    BY <1>3 DEF Heard, Attached
  <2>2. r.gen \in Nat
    BY <1>3, LetterIs
  <2> QED
    BY <1>3, <2>1, <2>2 DEF Panel
<1>4. CASE r.kind \in {"ConfigApplied", "Error"}
  <2>1. ui' = [ui EXCEPT !.applying = FALSE]
    BY <1>4 DEF Heard
  <2> QED
    BY <1>4, <2>1 DEF Panel
<1> QED
  BY <1>1, <1>2, <1>3, <1>4, LetterIs

LEMMA EventsAre ==
    ASSUME ui \in Panel, DrainEvents
    PROVE  /\ ui' \in Panel /\ ui'.bus = ui.bus
           /\ ui'.heard => ui.heard \/ StopUnheard
           /\ StopUnheard \/ ui.heard => ~ui'.running \/ ~StopUnheard
           /\ StopUnheard => ~ui'.running
           /\ ui'.running => ui.running
           /\ ui.running => ui'.running \/ StopUnheard
<1> DEFINE over == StopUnheard
           h == ui.heard \/ over
           n == ui.running /\ ~over
<1>1. h \in BOOLEAN /\ n \in BOOLEAN
  BY DEF Panel, StopUnheard
<1>2. ui' = [ui EXCEPT !.at = "responses", !.heard = h, !.running = n]
  BY DEF DrainEvents
<1>3. ui'.heard = h /\ ui'.running = n /\ ui'.bus = ui.bus /\ ui' \in Panel
  <2> HIDE DEF h, n
  <2> QED
    BY <1>1, <1>2 DEF Panel
<1> QED
  BY <1>3, Zenon
LEMMA MailKept ==
    ASSUME HandlerInv, EngineInv, MailInv, [Next]_vars
    PROVE  MailInv'
<1> USE DEF MailInv
<1>1. CASE Launch
  <2>1. boots' \in Nat /\ responses' = responses /\ handler' = handler
    BY <1>1 DEF Launch, Boot, EngineInv
  <2>2. ui' \in Panel /\ phase' = "window"
    BY <1>1, <2>1 DEF Launch, Panel
  <2> QED
    BY <2>1, <2>2
<1>2. CASE CloseWindow
  BY <1>2, EmptySeq DEF CloseWindow
<1>3. CASE MainStops
  BY <1>3 DEF MainStops
<1>4. CASE Vanish
  BY <1>4, IdleIs, EmptySeq DEF Vanish
<1>5. CASE UiStep
  <2>1. phase = "window" /\ phase' = "window" /\ handler' = handler /\ ui \in Panel
    BY <1>5, UiStepIsOpen DEF process
  <2>2. CASE DrainEvents
    BY <2>1, <2>2, EventsAre DEF DrainEvents
  <2>3. CASE DrainResponse
    <3>1. Head(responses) \in Letter /\ Tail(responses) \in Seq(Letter)
      BY <2>3, HeadTailProperties DEF DrainResponse
    <3>2. ui' \in Panel
      BY <2>1, <2>3, <3>1, HeardIs DEF DrainResponse
    <3> QED
      BY <2>1, <2>3, <3>1, <3>2 DEF DrainResponse
  <2>4. CASE DrainDone
    BY <2>1, <2>4 DEF DrainDone, Panel
  <2>5. CASE EndFrame
    BY <2>1, <2>5 DEF EndFrame, Panel
  <2>6. ASSUME NEW cmd, Click(cmd) PROVE MailInv'
    BY <2>1, <2>6 DEF Click
  <2>7. ASSUME NEW cmd, ClickApply(cmd) PROVE MailInv'
    BY <2>1, <2>7 DEF ClickApply, Panel
  <2> QED
    BY <1>5, <2>2, <2>3, <2>4, <2>5, <2>6, <2>7 DEF UiStep
<1>6. CASE Say
  <2>1. Head(handler.say) \in Letter /\ Tail(handler.say) \in Seq(Letter)
    BY <1>6, HeadTailProperties DEF Say
  <2>2. handler'.say = Tail(handler.say) /\ UNCHANGED <<phase, ui>>
    BY <1>6 DEF Say, HandlerInv
  <2>3. CASE phase = "window"
    BY <1>6, <2>1, <2>2, <2>3, AppendProperties DEF Say, Delivered
  <2>4. CASE phase # "window"
    BY <1>6, <2>1, <2>2, <2>4 DEF Say, Delivered
  <2> QED
    BY <2>3, <2>4
<1>7. CASE HandlerMove
  BY <1>7 DEF HandlerMove, QuietStep, EndStep, VainStop, BootStep, Answers
<1>8. CASE UNCHANGED <<phase, ui, responses, handler, manager, ended, boots>>
  BY <1>8
<1> QED
  BY WindowStepIs, <1>1, <1>2, <1>3, <1>4, <1>5, <1>6, <1>7, <1>8

\* An answer of the handler that adds to what is on its way.
LEMMA SaidMore ==
    ASSUME MailInv, ShownInv, NEW s, Answers(s), boots' = boots, ended \subseteq ended',
           \A i \in 1..Len(s) :
              s[i].kind # "Started" /\ (boots \notin ended' => s[i].kind # "Stopped")
    PROVE  ShownInv'
<1> SUFFICES ASSUME phase' = "window" PROVE ShownInv'
  BY DEF ShownInv
<1>1. phase = "window" /\ ui' = ui /\ responses' = responses
  BY DEF Answers
<1>2. handler.say = <<>> /\ handler'.say = s /\ s \in Seq(Letter) /\ responses \in Seq(Letter)
  BY DEF Answers, MailInv
<1>3. responses \o handler.say = responses
  BY <1>2, ConcatEmptySeq
<1>4. Told(responses, boots, ended, ui)
  BY <1>1, <1>3 DEF ShownInv
<1>5. Told(responses \o s, boots, ended', ui)
  BY <1>2, <1>4, ToldMore
<1>6. responses' \o handler'.say = responses \o s
  BY <1>1, <1>2
<1>7. Told(responses' \o handler'.say, boots', ended', ui')
  BY <1>1, <1>5, <1>6
<1>8. ui'.heard => ui'.bus \in ended' /\ ~ui'.running
  BY <1>1 DEF ShownInv
<1> QED
  BY <1>7, <1>8 DEF ShownInv

LEMMA ShownKept ==
    ASSUME HandlerInv, EngineInv, MailInv, NumberInv, ShownInv, [Next]_vars
    PROVE  ShownInv'
<1>1. CASE Launch
  <2>1. /\ ui'.bus = boots' /\ ui'.running /\ ~ui'.heard
        /\ responses' = <<>> /\ handler' = Idle
    BY <1>1 DEF Launch, MailInv, HandlerInv
  <2>2. responses' \o handler'.say = <<>>
    BY <2>1, IdleIs
  <2>3. Told(<<>>, boots', ended', ui')
    BY <2>1 DEF Told
  <2> QED
    BY <2>1, <2>2, <2>3 DEF ShownInv
<1>2. CASE CloseWindow \/ MainStops \/ Vanish
  BY <1>2 DEF CloseWindow, MainStops, Vanish, ShownInv
<1>3. CASE UiStep
  <2>1. /\ phase = "window" /\ phase' = "window" /\ handler' = handler /\ ui \in Panel
        /\ boots' = boots /\ ended' = ended
        /\ responses \in Seq(Letter) /\ handler.say \in Seq(Letter)
    BY <1>3, UiStepIsOpen DEF process, MailInv
  <2>2. /\ ui.heard => ui.bus \in ended /\ ~ui.running
        /\ Told(responses \o handler.say, boots, ended, ui)
    BY <2>1 DEF ShownInv
  <2>3. CASE DrainResponse
    <3> DEFINE r == Head(responses)
               m == responses \o handler.say
    <3>1. responses # <<>> /\ responses' = Tail(responses) /\ ui' = Heard(r) /\ r \in Letter
      BY <2>1, <2>3, HeadTailProperties DEF DrainResponse
    <3>2. Head(m) = r /\ Tail(m) = Tail(responses) \o handler.say /\ m \in Seq(Letter) /\ m # <<>>
      BY <2>1, <3>1, ReadFirst
    <3>3. /\ r.kind = "Started" => ui'.bus = r.gen /\ ui'.running /\ ~ui'.heard
          /\ r.kind # "Started" => ui'.bus = ui.bus /\ (ui'.heard => ui.heard)
          /\ r.kind \notin {"Started", "Stopped"} =>
                 (ui.running => ui'.running) /\ (ui'.running => ui.running)
          /\ r.kind = "Stopped" => ~ui'.running
      BY <2>1, <3>1, HeardIs
    <3>4. Told(m, boots, ended, ui)
      BY <2>2
    <3> HIDE DEF r, m
    <3>5. Told(Tail(m), boots, ended, ui')
      BY <3>2, <3>3, <3>4, ToldDrained
    <3>6. Told(responses' \o handler'.say, boots', ended', ui')
      BY <2>1, <3>1, <3>2, <3>5
    <3>7. ui'.heard => ui'.bus \in ended' /\ ~ui'.running
      BY <2>1, <2>2, <3>3, Zenon
    <3> QED
      BY <3>6, <3>7 DEF ShownInv
  <2>4. CASE DrainEvents
    <3>1. responses' = responses
      BY <2>4 DEF DrainEvents
    <3>2. /\ ui'.bus = ui.bus
          /\ ui'.heard => ui.heard \/ StopUnheard
          /\ StopUnheard => ~ui'.running
          /\ ui'.running => ui.running
          /\ ui.running => ui'.running \/ StopUnheard
      BY <2>1, <2>4, EventsAre
    <3>3. StopUnheard => ui.bus \in ended
      BY DEF StopUnheard
    <3>4. ui'.heard => ui'.bus \in ended' /\ ~ui'.running
      BY <2>1, <2>2, <3>2, <3>3, Zenon
    <3>5. ui.bus \notin ended => (ui.running => ui'.running)
      BY <3>2, <3>3, Zenon
    <3>6. Told(responses \o handler.say, boots, ended, ui')
      BY <2>2, <3>2, <3>5 DEF Told
    <3> QED
      BY <2>1, <3>1, <3>4, <3>6 DEF ShownInv
  <2>5. CASE DrainDone \/ EndFrame \/ (\E cmd : Click(cmd)) \/ \E cmd : ClickApply(cmd)
    <3>1. responses' = responses
      BY <2>5 DEF DrainDone, EndFrame, Click, ClickApply
    <3>2. ui'.bus = ui.bus /\ ui'.running = ui.running /\ ui'.heard = ui.heard
      BY <2>1, <2>5 DEF DrainDone, EndFrame, Click, ClickApply, Panel
    <3>3. Told(responses \o handler.say, boots, ended, ui')
      BY <2>2, <3>2 DEF Told
    <3> QED
      BY <2>1, <2>2, <3>1, <3>2, <3>3 DEF ShownInv
  <2> QED
    BY <1>3, <2>3, <2>4, <2>5 DEF UiStep
<1>4. CASE Say
  <2> SUFFICES ASSUME phase = "window" PROVE ShownInv'
    BY <1>4 DEF Say, ShownInv
  <2>1. /\ handler.say \in Seq(Letter) /\ handler.say # <<>> /\ responses \in Seq(Letter)
        /\ handler'.say = Tail(handler.say)
        /\ responses' = Append(responses, Head(handler.say))
        /\ UNCHANGED <<phase, ui, boots, ended>>
    BY <1>4 DEF Say, Delivered, MailInv, HandlerInv
  <2>2. responses' \o handler'.say = responses \o handler.say
    BY <2>1, Moved
  <2> QED
    BY <2>1, <2>2 DEF ShownInv
<1>5. CASE QuietStep
  BY <1>5, SaidMore DEF QuietStep, Harmless
<1>6. CASE EndStep
  <2>1. boots' = boots /\ ended \subseteq ended' /\ Answers(<<Kind("Stopped")>>)
    BY <1>6 DEF EndStep, Shut
  <2>2. phase = "window" => boots \in ended'
    BY <1>6 DEF EndStep, Shut, NumberInv, EngineInv
  <2>3. CASE phase = "window"
    <3>1. \A i \in 1..Len(<<Kind("Stopped")>>) : <<Kind("Stopped")>>[i].kind # "Started"
      BY DEF Kind
    <3> QED
      BY <2>1, <2>2, <2>3, <3>1, SaidMore
  <2>4. CASE phase # "window"
    BY <2>1, <2>4 DEF ShownInv, Answers
  <2> QED
    BY <2>3, <2>4
<1>7. CASE VainStop
  <2>1. boots' = boots /\ ended' = ended /\ Answers(<<Kind("Stopped")>>)
    BY <1>7 DEF VainStop
  <2>2. CASE phase = "window"
    <3>1. boots \in ended'
      BY <1>7, <2>1, <2>2 DEF VainStop, NumberInv
    <3>2. \A i \in 1..Len(<<Kind("Stopped")>>) : <<Kind("Stopped")>>[i].kind # "Started"
      BY DEF Kind
    <3> QED
      BY <2>1, <3>1, <3>2, SaidMore
  <2>3. CASE phase # "window"
    BY <2>1, <2>3 DEF ShownInv, Answers
  <2> QED
    BY <2>2, <2>3
<1>8. CASE BootStep
  <2>1. PICK s : /\ Answers(s) /\ s # <<>> /\ s[1] = [kind |-> "Started", gen |-> boots']
                 /\ \A i \in 2..Len(s) : s[i].kind \notin {"Started", "Stopped"}
    BY <1>8 DEF BootStep
  <2>2. /\ s \in Seq(Letter) /\ responses \in Seq(Letter)
        /\ responses' = responses /\ handler'.say = s /\ ui' = ui /\ phase' = phase
        /\ ended' = ended
    BY <1>8, <2>1 DEF BootStep, Answers, MailInv
  <2>3. Told(responses \o s, boots', ended', ui')
    BY <2>1, <2>2, ToldStarted
  <2>4. Told(responses' \o handler'.say, boots', ended', ui')
    BY <2>2, <2>3
  <2> QED
    BY <2>2, <2>4 DEF ShownInv
<1>9. CASE UNCHANGED <<phase, ui, responses, handler, manager, ended, boots>>
  BY <1>9 DEF ShownInv
<1> QED
  BY WindowStepIs, <1>1, <1>2, <1>3, <1>4, <1>5, <1>6, <1>7, <1>8, <1>9 DEF HandlerMove

WindowInv == HandlerInv /\ EngineInv /\ MailInv /\ NumberInv /\ ShownInv

\* Once the handler is idle and the window has read its answers, the window
\* shows an engine as running exactly if there is one, for any number of
\* engines, commands, lost commands and capacity of the channels: a stop of an
\* older engine that is read late never hides the new one (ui/mod.rs,
\* drain_events and drain_responses).
THEOREM WindowIsTruthful == Spec => []RunningFlagTruthful
<1>1. Init => WindowInv
  <2> SUFFICES ASSUME Init PROVE WindowInv
    OBVIOUS
  <2>1. HandlerInv /\ EngineInv
    BY Initially DEF IInv
  <2>2. phase = "off" /\ responses = <<>> /\ handler = Idle /\ boots = 0
        /\ manager = NoEngine /\ ended = {}
    BY DEF Init
  <2>3. MailInv
    BY <2>2, IdleIs, EmptySeq DEF MailInv
  <2> QED
    BY <2>1, <2>2, <2>3 DEF WindowInv, NumberInv, ShownInv
<1>2. WindowInv /\ [Next]_vars => WindowInv'
  BY HandlerKept, EngineKept, MailKept, NumberKept, ShownKept DEF WindowInv
<1>3. WindowInv => RunningFlagTruthful
  <2> SUFFICES ASSUME WindowInv, phase = "window", handler = Idle, responses = <<>>,
                      ~StopUnheard
               PROVE  ui.running = (manager # NoEngine)
    BY DEF RunningFlagTruthful
  <2>1. responses \o handler.say = <<>>
    BY IdleIs
  <2>2. ui.bus = boots /\ (boots \notin ended => ui.running)
    BY <2>1 DEF WindowInv, ShownInv, Told
  <2>3. boots \in ended => ~ui.running
    BY <2>2 DEF WindowInv, ShownInv, StopUnheard
  <2>4. ui.running \in BOOLEAN
    BY DEF WindowInv, MailInv, Panel
  <2>5. manager # NoEngine <=> boots \notin ended
    BY DEF WindowInv, NumberInv
  <2>6. ui.running <=> manager # NoEngine
    BY <2>2, <2>3, <2>5, Zenon
  <2> QED
    BY <2>4, <2>6, Zenon
<1> QED
  BY <1>1, <1>2, <1>3, PTL DEF Spec
=============================================================================
