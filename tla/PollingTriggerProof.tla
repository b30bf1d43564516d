-------------------------- MODULE PollingTriggerProof --------------------------
(***************************************************************************)
(* The safety properties of PollingTrigger, for every number of messages,  *)
(* commands and ticks, every page size and every fault: the types, that    *)
(* cycles do not overlap, that the saved window claims no message nobody   *)
(* has seen, that nothing is emitted twice, and that the interval follows  *)
(* the activation.                                                         *)
(***************************************************************************)
EXTENDS PollingTrigger, FiniteSetTheorems, TLAPS

-----------------------------------------------------------------------------
(* The inductive invariants. *)

\* The first cycle of a command runs exactly while the command waits for it.
FirstCycles == \A s \in Commands : cycle[s].pc # "idle" <=> command[s].pc = "first"

\* The guard is taken while a cycle runs, and by one cycle only, until a stop frees it.
Guarded ==
  ~orphaned => /\ Running # {} => busy
               /\ \A c, d \in Running : c = d

\* A message some cycle was responsible for has been dealt with, or a cycle is about to emit it.
Accounted(m) ==
  \/ emitted[m] > 0 \/ m \in baselined \cup dropped
  \/ \E c \in Cycles : cycle[c].pc = "emit" /\ m \in cycle[c].items

\* Every copy of the window - the saved one, the ones that commands, the interval's closure and
\* the cycles hold - has only messages that are accounted for.  One that is about to be saved
\* has the messages of its own poll as well.
WindowInv ==
  /\ \A m \in repo.seen : Accounted(m)
  /\ \A m \in loop.seed.seen : Accounted(m)
  /\ \A s \in Commands : /\ \A m \in command[s].seed.seen : Accounted(m)
                         /\ \A m \in command[s].result.seen : Accounted(m)
  /\ \A c \in Cycles : \A m \in cycle[c].state.seen :
       \/ Accounted(m)
       \/ cycle[c].pc = "save" /\ (cycle[c].baseline \/ m \in cycle[c].items)

\* While no stop and no setup interferes, the saved window only grows.  What was emitted is in it;
SavedOnce ==
  /\ repo.known \/ (repo = NoState /\ baselines = 0)
  /\ baselines <= 1
  /\ \A m \in Messages : emitted[m] <= 1 /\ (emitted[m] > 0 => m \in repo.seen)

\* no other copy is newer than it;
SeedsOnce ==
  /\ repo.known \/ ~loop.seed.known
  /\ \A s \in Commands : repo.known \/ ~command[s].seed.known

\* a cycle that polls does so against it, finds what is not in it, and emits what is new to it.
CycleOnce(c) ==
  /\ cycle[c].pc = "load" => repo.known \/ ~cycle[c].state.known
  /\ cycle[c].pc = "poll" => IF repo.known THEN cycle[c].state = repo
                             ELSE ~cycle[c].state.known
  /\ cycle[c].pc = "save" =>
       /\ cycle[c].state.known
       /\ repo.seen \subseteq cycle[c].state.seen
       /\ cycle[c].items \cap repo.seen = {}
       /\ cycle[c].items \subseteq cycle[c].state.seen
       /\ cycle[c].baseline => ~repo.known
       /\ ~cycle[c].baseline => repo.known
  /\ cycle[c].pc = "emit" =>
       /\ cycle[c].state = repo
       /\ cycle[c].items \subseteq repo.seen
       /\ \A m \in cycle[c].items : emitted[m] = 0

OnceInv ==
  ~orphaned /\ ~clobbered => SavedOnce /\ SeedsOnce /\ \A c \in Cycles : CycleOnce(c)

\* While no command came into another one's setup: there is at most one, its workflow is
\* active, and the handle that stops the interval exists as long as the interval does.
LoopInv ==
  ~raced =>
    /\ \A s, t \in Commands : command[s].pc # "idle" /\ command[t].pc # "idle" => s = t
    /\ \A s \in Commands : /\ command[s].pc # "idle" => wanted
                           /\ command[s].pc \in {"first", "store"} => cleanup
                           /\ command[s].pc = "store" => loop.on
    /\ loop.on => wanted /\ cleanup
    /\ wanted /\ faults = 0 => loop.on \/ \E s \in Commands : command[s].pc # "idle"

-----------------------------------------------------------------------------
(* The types. *)

LEMMA Basics ==
  /\ NoState \in State
  /\ IdleCommand \in [pc : CommandPc, seed : State, result : State]
  /\ IdleCycle \in [pc : CyclePc, state : State, items : SUBSET Messages, baseline : BOOLEAN]
  /\ NoLoop \in [on : BOOLEAN, seed : State]
  /\ IdleCommand.pc = "idle" /\ IdleCycle.pc = "idle" /\ ~NoLoop.on
  /\ Listed \subseteq Messages
  BY DEF NoState, State, IdleCommand, CommandPc, IdleCycle, CyclePc, NoLoop, Listed

\* Stopping the trigger keeps the types of what it clears.
LEMMA StopType ==
  ASSUME TypeOK, StopTrigger
  PROVE  /\ cleanup' \in BOOLEAN /\ busy' \in BOOLEAN /\ orphaned' \in BOOLEAN
         /\ loop' \in [on : BOOLEAN, seed : State]
  BY Basics DEF TypeOK, StopTrigger, StopRuntime, Running

\* So does the finally of a cycle, whatever state it hands over.
LEMMA EndCycleType ==
  ASSUME TypeOK, NEW c \in Cycles, NEW result \in State, EndCycle(c, result)
  PROVE  /\ busy' \in BOOLEAN /\ loop' \in [on : BOOLEAN, seed : State]
         /\ command' \in [Commands -> [pc : CommandPc, seed : State, result : State]]
         /\ cycle' \in [Cycles -> [pc : CyclePc, state : State, items : SUBSET Messages,
                                   baseline : BOOLEAN]]
  <1>1. busy' \in BOOLEAN
    BY DEF EndCycle, FreesGuard
  <1>2. cycle' \in [Cycles -> [pc : CyclePc, state : State, items : SUBSET Messages,
                               baseline : BOOLEAN]]
    BY Basics DEF EndCycle, TypeOK
  <1>3. CASE c \in Commands
    <2>1. command[c] \in [pc : CommandPc, seed : State, result : State]
      BY <1>3 DEF TypeOK
    <2>2. loop' \in [on : BOOLEAN, seed : State]
      <3>1. command[c].seed \in State
        BY <2>1
      <3>2. [on |-> TRUE, seed |-> command[c].seed] \in [on : BOOLEAN, seed : State]
        BY <3>1
      <3> QED
        BY <1>3, <3>2 DEF EndCycle, EnsureLoop, TypeOK
    <2>3. [command[c] EXCEPT !.pc = "store", !.result = result]
            \in [pc : CommandPc, seed : State, result : State]
      BY <2>1 DEF CommandPc
    <2>4. command' = [command EXCEPT ![c] = [@ EXCEPT !.pc = "store", !.result = result]]
      BY <1>3 DEF EndCycle
    <2> QED
      BY <1>1, <1>2, <2>2, <2>3, <2>4 DEF TypeOK
  <1>4. CASE c \notin Commands
    BY <1>1, <1>2, <1>4 DEF EndCycle, TypeOK
  <1> QED
    BY <1>3, <1>4

\* What the record sets of TypeOK are called in the proofs.
CommandRecord == [pc : CommandPc, seed : State, result : State]
CycleRecord   == [pc : CyclePc, state : State, items : SUBSET Messages, baseline : BOOLEAN]

\* A step of a command, a setup that throws or a new command keeps the types.
LEMMA CommandsType ==
  ASSUME TypeOK, NEW s \in Commands
  PROVE  /\ \A active \in BOOLEAN : Sync(s, active) => TypeOK'
         /\ CommandStep(s) \/ SetupThrows(s) => TypeOK'
  <1> USE DEF CommandRecord, CycleRecord
  <1>0. /\ command[s] \in CommandRecord
        /\ command[s].seed \in State /\ command[s].result \in State
    BY DEF TypeOK
  <1>2. ASSUME NEW active \in BOOLEAN, Sync(s, active)
        PROVE  TypeOK'
    <2>1. (IF active THEN "load" ELSE "idle") \in CommandPc
      BY DEF CommandPc
    <2>2. command' \in [Commands -> CommandRecord]
      BY <1>0, <1>2, <2>1 DEF Sync, TypeOK
    <2>3. commands' \in 0..MaxCommands
      BY <1>2, PollingAssumption DEF Sync, TypeOK
    <2>4. raced' \in BOOLEAN /\ wanted' \in BOOLEAN
      BY <1>2 DEF Sync, TypeOK
    <2>5. StopTrigger
      BY <1>2 DEF Sync
    <2> QED
      BY <1>2, <2>2, <2>3, <2>4, <2>5, StopType DEF Sync, TypeOK
  <1>3. CASE LoadPrevious(s)
    <2>1. command' \in [Commands -> CommandRecord]
      BY <1>0, <1>3 DEF LoadPrevious, TypeOK, CommandPc
    <2> QED
      BY <1>3, <2>1, StopType DEF LoadPrevious, TypeOK
  <1>4. CASE Setup(s)
    <2>1. CASE Busy
      <3>1. [command[s] EXCEPT !.pc = "store", !.result = NoState] \in CommandRecord
        BY <1>0, Basics DEF CommandPc
      <3>2. command' = [command EXCEPT ![s] = [@ EXCEPT !.pc = "store", !.result = NoState]]
        BY <1>4, <2>1 DEF Setup
      <3>3. command' \in [Commands -> CommandRecord]
        BY <3>1, <3>2 DEF TypeOK
      <3>4. [on |-> TRUE, seed |-> command[s].seed] \in [on : BOOLEAN, seed : State]
        BY <1>0
      <3>5. loop' \in [on : BOOLEAN, seed : State]
        BY <1>4, <2>1, <3>4 DEF Setup, EnsureLoop, TypeOK
      <3> QED
        BY <1>4, <2>1, <3>3, <3>5 DEF Setup, TypeOK, histories
    <2>2. CASE ~Busy
      <3>1. command' \in [Commands -> CommandRecord]
        BY <1>0, <1>4, <2>2 DEF Setup, TypeOK, CommandPc
      <3>2. [IdleCycle EXCEPT !.pc = "load", !.state = command[s].seed] \in CycleRecord
        BY <1>0, Basics DEF IdleCycle, CyclePc
      <3>3. cycle' \in [Cycles -> CycleRecord]
        BY <1>4, <2>2, <3>2 DEF Setup, TypeOK
      <3> QED
        BY <1>4, <2>2, <3>1, <3>3 DEF Setup, TypeOK, histories
    <2> QED
      BY <2>1, <2>2
  <1>5. CASE StoreResult(s)
    <2>1. repo' \in State /\ clobbered' \in BOOLEAN
      BY <1>0, <1>5 DEF StoreResult, TypeOK
    <2>2. command' \in [Commands -> CommandRecord]
      BY <1>5, Basics DEF StoreResult, TypeOK
    <2> QED
      BY <1>5, <2>1, <2>2 DEF StoreResult, TypeOK
  <1>6. CASE SetupThrows(s)
    <2>1. command' \in [Commands -> CommandRecord]
      BY <1>6, Basics DEF SetupThrows, TypeOK
    <2>2. faults' \in 0..MaxFaults
      BY <1>6, PollingAssumption DEF SetupThrows, Fault, TypeOK
    <2> QED
      BY <1>6, <2>1, <2>2, StopType DEF SetupThrows, TypeOK
  <1> QED
    BY <1>2, <1>3, <1>4, <1>5, <1>6 DEF CommandStep

\* A step of a cycle keeps the types, whether it gets through or throws.
LEMMA CyclesType ==
  ASSUME TypeOK, NEW c \in Cycles, CycleStep(c) \/ CycleThrows(c) \/ EmitThrows(c)
  PROVE  TypeOK'
  <1> USE DEF CommandRecord, CycleRecord
  <1>0. /\ cycle[c] \in CycleRecord
        /\ cycle[c].state \in State /\ cycle[c].items \subseteq Messages
    BY DEF TypeOK
  <1>1. CASE CycleLoad(c)
    <2>1. LoadedOr(cycle[c].state) \in State
      BY <1>0 DEF LoadedOr, TypeOK
    <2>2. cycle' \in [Cycles -> CycleRecord]
      BY <1>0, <1>1, <2>1 DEF CycleLoad, TypeOK, CyclePc
    <2> QED
      BY <1>1, <2>2 DEF CycleLoad, TypeOK, histories
  <1>2. CASE CyclePoll(c)
    <2>1. Seen(Merge(cycle[c].state.seen)) \in State /\ New(cycle[c].state) \subseteq Messages
      BY <1>0, Basics DEF Seen, Merge, New, State
    <2>2. cycle[c].state.known \in BOOLEAN
      BY <1>0 DEF State
    <2>3. [pc |-> "save", state |-> Seen(Merge(cycle[c].state.seen)),
           items |-> New(cycle[c].state), baseline |-> ~cycle[c].state.known] \in CycleRecord
      BY <2>1, <2>2 DEF CyclePc
    <2>4. cycle' \in [Cycles -> CycleRecord]
      BY <1>2, <2>3 DEF CyclePoll, TypeOK
    <2> QED
      BY <1>2, <2>4 DEF CyclePoll, TypeOK, histories
  <1>3. CASE CycleSave(c)
    <2>1. repo' \in State /\ repo'.seen \subseteq Messages
      BY <1>0, <1>3 DEF CycleSave, State
    <2>2. baselined' \subseteq Messages /\ baselines' \in 0..2
      BY <1>3, <2>1 DEF CycleSave, TypeOK
    <2>3. /\ busy' \in BOOLEAN /\ loop' \in [on : BOOLEAN, seed : State]
          /\ command' \in [Commands -> CommandRecord] /\ cycle' \in [Cycles -> CycleRecord]
      <3>1. CASE cycle[c].items = {}
        BY <1>0, <1>3, <3>1, EndCycleType DEF CycleSave
      <3>2. CASE cycle[c].items # {}
        BY <1>0, <1>3, <3>2 DEF CycleSave, TypeOK, CyclePc
      <3> QED
        BY <3>1, <3>2
    <2> QED
      BY <1>3, <2>1, <2>2, <2>3 DEF CycleSave, TypeOK
  <1>4. CASE CycleEmit(c)
    <2>1. emitted' \in [Messages -> 0..2]
      BY <1>4 DEF CycleEmit, TypeOK
    <2> QED
      BY <1>0, <1>4, <2>1, EndCycleType DEF CycleEmit, TypeOK
  <1>5. CASE CycleThrows(c)
    <2>1. faults' \in 0..MaxFaults
      BY <1>5, PollingAssumption DEF CycleThrows, Fault, TypeOK
    <2> QED
      BY <1>5, <2>1, Basics, EndCycleType DEF CycleThrows, TypeOK, histories
  <1>6. CASE EmitThrows(c)
    <2>1. faults' \in 0..MaxFaults
      BY <1>6, PollingAssumption DEF EmitThrows, Fault, TypeOK
    <2>2. dropped' \subseteq Messages
      BY <1>0, <1>6 DEF EmitThrows, TypeOK
    <2> QED
      BY <1>6, <2>1, <2>2, Basics, EndCycleType DEF EmitThrows, TypeOK
  <1> QED
    BY <1>1, <1>2, <1>3, <1>4, <1>5, <1>6 DEF CycleStep

\* The types, for every instance.
THEOREM PollingTypes == Spec => []TypeOK
  <1> USE DEF CommandRecord, CycleRecord
  <1>1. Init => TypeOK
    <2> SUFFICES ASSUME Init PROVE TypeOK
      OBVIOUS
    <2>1. arrived \in 0..MaxMessages /\ faults \in 0..MaxFaults /\ commands \in 0..MaxCommands
      BY PollingAssumption DEF Init
    <2>2. command \in [Commands -> CommandRecord] /\ cycle \in [Cycles -> CycleRecord]
      BY Basics DEF Init
    <2>3. emitted \in [Messages -> 0..2] /\ baselines \in 0..2
      BY DEF Init
    <2> QED
      BY <2>1, <2>2, <2>3, Basics DEF Init, TypeOK
  <1>2. TypeOK /\ [Next]_vars => TypeOK'
    <2> SUFFICES ASSUME TypeOK, [Next]_vars PROVE TypeOK'
      OBVIOUS
    <2>1. CASE Arrive
      BY <2>1, PollingAssumption DEF Arrive, TypeOK, histories
    <2>2. ASSUME NEW t \in Ticks, Tick(t) PROVE TypeOK'
      <3>1. Fallback \in State
        BY Basics DEF Fallback, TypeOK
      <3>2. [IdleCycle EXCEPT !.pc = "load", !.state = Fallback] \in CycleRecord
        BY <3>1, Basics DEF IdleCycle, CyclePc
      <3>3. cycle' \in [Cycles -> CycleRecord]
        BY <2>2, <3>2 DEF Tick, TypeOK
      <3> QED
        BY <2>2, <3>3 DEF Tick, TypeOK, histories
    <2>3. CASE Restart
      <3>1. faults' \in 0..MaxFaults
        BY <2>3, PollingAssumption DEF Restart, Fault, TypeOK
      <3>2. \A c \in Cycles : cycle[c].items \subseteq Messages
        BY DEF TypeOK
      <3>3. UNION {cycle[c].items : c \in {c \in Cycles : cycle[c].pc = "emit"}} \subseteq Messages
        BY <3>2
      <3>4. dropped' \subseteq Messages
        BY <2>3, <3>3 DEF Restart, TypeOK
      <3>5. [IdleCommand EXCEPT !.pc = "load"] \in CommandRecord
        BY Basics DEF IdleCommand, CommandPc
      <3>6. command' \in [Commands -> CommandRecord]
        BY <2>3, <3>5, Basics DEF Restart
      <3>7. cycle' \in [Cycles -> CycleRecord]
        BY <2>3, Basics DEF Restart
      <3> QED
        BY <2>3, <3>1, <3>4, <3>6, <3>7, Basics DEF Restart, TypeOK
    <2>4. CASE UNCHANGED vars
      BY <2>4 DEF vars, TypeOK
    <2> QED
      BY <2>1, <2>2, <2>3, <2>4, CommandsType, CyclesType DEF Next, SomeTick
  <1> QED
    BY <1>1, <1>2, PTL DEF Spec

-----------------------------------------------------------------------------
(* The overlap guard.  *)

LEMMA FirstCyclesStep ==
  ASSUME TypeOK, FirstCycles, [Next]_vars
  PROVE  FirstCycles'
  <1> USE DEF FirstCycles
  <1>0. \A s \in Commands : s \in Cycles
    BY DEF Cycles
  <1>1. CASE Arrive
    BY <1>1 DEF Arrive
  <1>2. ASSUME NEW t \in Ticks, Tick(t) PROVE FirstCycles'
    <2>1. t \notin Commands
      BY PollingAssumption
    <2> QED
      BY <1>2, <2>1 DEF Tick
  <1>3. CASE Restart
    BY <1>3, Basics DEF Restart, IdleCommand, Cycles
  <1>4. ASSUME NEW s \in Commands, NEW active \in BOOLEAN, Sync(s, active) PROVE FirstCycles'
    BY <1>4 DEF Sync, TypeOK
  <1>5. ASSUME NEW s \in Commands, LoadPrevious(s) PROVE FirstCycles'
    BY <1>5 DEF LoadPrevious, TypeOK
  <1>6. ASSUME NEW s \in Commands, Setup(s) PROVE FirstCycles'
    <2>1. CASE Busy
      BY <1>6, <2>1 DEF Setup, TypeOK
    <2>2. CASE ~Busy
      <3>1. /\ command'[s].pc = "first" /\ cycle'[s].pc = "load"
            /\ \A other \in Commands : other # s => /\ command'[other] = command[other]
                                                   /\ cycle'[other] = cycle[other]
        <4>1. [IdleCycle EXCEPT !.pc = "load", !.state = command[s].seed].pc = "load"
          BY DEF IdleCycle
        <4>2. cycle' = [cycle EXCEPT ![s] = [IdleCycle EXCEPT !.pc = "load",
                                                              !.state = command[s].seed]]
          BY <1>6, <2>2 DEF Setup
        <4>3. command' = [command EXCEPT ![s].pc = "first"]
          BY <1>6, <2>2 DEF Setup
        <4> QED
          BY <1>0, <1>6, <4>1, <4>2, <4>3 DEF TypeOK
      <3> QED
        BY <1>6, <3>1
    <2> QED
      BY <2>1, <2>2
  <1>7. ASSUME NEW s \in Commands, StoreResult(s) \/ SetupThrows(s) PROVE FirstCycles'
    BY <1>7, Basics DEF StoreResult, SetupThrows, TypeOK
  <1>8. ASSUME NEW c \in Cycles, cycle[c].pc # "idle", NEW result, EndCycle(c, result)
        PROVE  FirstCycles'
    BY <1>0, <1>8, Basics DEF EndCycle, TypeOK
  <1>9. ASSUME NEW c \in Cycles, CycleLoad(c) \/ CyclePoll(c) PROVE FirstCycles'
    <2>1. /\ cycle[c].pc # "idle" /\ cycle'[c].pc # "idle" /\ command' = command
          /\ \A d \in Cycles : d # c => cycle'[d] = cycle[d]
      BY <1>9 DEF CycleLoad, CyclePoll, TypeOK
    <2> QED
      BY <1>0, <1>9, <2>1
  <1>10. ASSUME NEW c \in Cycles, CycleSave(c) PROVE FirstCycles'
    <2>1. CASE cycle[c].items = {}
      BY <1>8, <1>10, <2>1 DEF CycleSave
    <2>2. CASE cycle[c].items # {}
      BY <1>0, <1>10, <2>2 DEF CycleSave, TypeOK
    <2> QED
      BY <2>1, <2>2
  <1>11. ASSUME NEW c \in Cycles, CycleEmit(c) \/ CycleThrows(c) \/ EmitThrows(c)
         PROVE  FirstCycles'
    BY <1>8, <1>11 DEF CycleEmit, CycleThrows, EmitThrows
  <1>12. CASE UNCHANGED vars
    BY <1>12 DEF vars
  <1> QED
    BY <1>1, <1>2, <1>3, <1>4, <1>5, <1>6, <1>7, <1>9, <1>10, <1>11, <1>12
       DEF Next, SomeTick, CommandStep, CycleStep

\* A stop either leaves the guard alone or owns up to the cycle it freed it under.
LEMMA StopGuarded ==
  ASSUME Guarded, StopTrigger, UNCHANGED cycle
  PROVE  Guarded'
  BY DEF Guarded, StopTrigger, StopRuntime, Running

LEMMA GuardedStep ==
  ASSUME TypeOK, Guarded, [Next]_vars
  PROVE  Guarded'
  <1> USE DEF Guarded, Running
  <1>1. CASE Arrive
    BY <1>1 DEF Arrive, histories
  <1>2. ASSUME NEW t \in Ticks, Tick(t) PROVE Guarded'
    BY <1>2 DEF Tick, Busy, histories, TypeOK, Cycles
  <1>3. CASE Restart
    BY <1>3, Basics DEF Restart
  <1>4. ASSUME NEW s \in Commands, NEW active \in BOOLEAN, Sync(s, active) PROVE Guarded'
    BY <1>4, StopGuarded DEF Sync
  <1>5. ASSUME NEW s \in Commands, LoadPrevious(s) \/ SetupThrows(s) PROVE Guarded'
    BY <1>5, StopGuarded DEF LoadPrevious, SetupThrows
  <1>6. ASSUME NEW s \in Commands, Setup(s) PROVE Guarded'
    BY <1>6 DEF Setup, Busy, histories, TypeOK, Cycles
  <1>7. ASSUME NEW s \in Commands, StoreResult(s) PROVE Guarded'
    BY <1>7 DEF StoreResult
  <1>8. ASSUME NEW c \in Cycles, cycle[c].pc # "idle", NEW result, EndCycle(c, result),
               orphaned' = orphaned
        PROVE  Guarded'
    BY <1>8, Basics DEF EndCycle, TypeOK
  <1>9. ASSUME NEW c \in Cycles, CycleLoad(c) \/ CyclePoll(c) PROVE Guarded'
    BY <1>9 DEF CycleLoad, CyclePoll, TypeOK, histories
  <1>10. ASSUME NEW c \in Cycles, CycleSave(c) PROVE Guarded'
    <2>1. CASE cycle[c].items = {}
      BY <1>8, <1>10, <2>1 DEF CycleSave
    <2>2. CASE cycle[c].items # {}
      BY <1>10, <2>2 DEF CycleSave, TypeOK
    <2> QED
      BY <2>1, <2>2
  <1>11. ASSUME NEW c \in Cycles, CycleEmit(c) \/ CycleThrows(c) \/ EmitThrows(c)
         PROVE  Guarded'
    BY <1>8, <1>11 DEF CycleEmit, CycleThrows, EmitThrows, histories
  <1>12. CASE UNCHANGED vars
    BY <1>12 DEF vars
  <1> QED
    BY <1>1, <1>2, <1>3, <1>4, <1>5, <1>6, <1>7, <1>9, <1>10, <1>11, <1>12
       DEF Next, SomeTick, CommandStep, CycleStep

\* Two cycles of the trigger never run together - whatever commands, failures, crashes and
\* restarts do - unless a stop freed the guard under one.
THEOREM OverlapCorrect == Spec => []CyclesDoNotOverlap
  <1>1. Init => Guarded
    BY Basics DEF Init, Guarded, Running
  <1>2. TypeOK /\ Guarded => CyclesDoNotOverlap
    <2> SUFFICES ASSUME Guarded, ~orphaned PROVE Cardinality(Running) <= 1
      BY DEF CyclesDoNotOverlap
    <2>1. CASE Running = {}
      BY <2>1, FS_EmptySet
    <2>2. ASSUME NEW c \in Running PROVE Cardinality(Running) <= 1
      <3>1. Running = {c}
        BY DEF Guarded
      <3> QED
        BY <3>1, FS_Singleton
    <2> QED
      BY <2>1, <2>2
  <1> QED
    BY <1>1, <1>2, GuardedStep, PollingTypes, PTL DEF Spec

-----------------------------------------------------------------------------
(* The window.  A step keeps it accounted for if no message it was responsible for is lost and *)
(* every copy it makes is of one that is accounted for.                                        *)

\* No message that is accounted for is lost.
NothingLost == \A m \in Messages : Accounted(m) => Accounted(m)'

\* The messages of the cycles' copies and of every other state are messages.
LEMMA Copies ==
  ASSUME TypeOK
  PROVE  /\ repo.seen \subseteq Messages /\ loop.seed.seen \subseteq Messages
         /\ \A s \in Commands : /\ command[s].seed.seen \subseteq Messages
                                /\ command[s].result.seen \subseteq Messages
         /\ \A c \in Cycles : cycle[c].state.seen \subseteq Messages
         /\ NoState.seen = {}
  BY DEF TypeOK, State, NoState

\* A cycle ends whose messages are dealt with: it hands over a window that is covered.
LEMMA EndCycleCovers ==
  ASSUME TypeOK, WindowInv, NEW c \in Cycles, NEW result \in State, EndCycle(c, result),
         NothingLost, (\A m \in result.seen : Accounted(m)'), (\A m \in repo'.seen : Accounted(m)')
  PROVE  WindowInv'
  <1> USE DEF WindowInv, NothingLost
  <1>1. \A m \in loop'.seed.seen : Accounted(m)'
    <2>1. CASE c \in Commands
      BY <2>1, Copies DEF EndCycle, EnsureLoop
    <2>2. CASE c \notin Commands
      BY <2>2, Copies DEF EndCycle
    <2> QED
      BY <2>1, <2>2
  <1>2. ASSUME NEW s \in Commands
        PROVE  /\ command'[s].seed.seen = command[s].seed.seen
               /\ command'[s].result = command[s].result \/ command'[s].result = result
    <2>1. CASE c \in Commands
      BY <2>1 DEF EndCycle, TypeOK
    <2>2. CASE c \notin Commands
      BY <2>2 DEF EndCycle
    <2> QED
      BY <2>1, <2>2
  <1>3. ASSUME NEW s \in Commands
        PROVE  /\ \A m \in command'[s].seed.seen : Accounted(m)'
               /\ \A m \in command'[s].result.seen : Accounted(m)'
    BY <1>2, <1>3, Copies
  <1>4. ASSUME NEW d \in Cycles
        PROVE  cycle'[d] = IF d = c THEN IdleCycle ELSE cycle[d]
    BY <1>4 DEF EndCycle, TypeOK
  <1>5. ASSUME NEW d \in Cycles, NEW m \in cycle'[d].state.seen
        PROVE  \/ Accounted(m)'
               \/ cycle'[d].pc = "save" /\ (cycle'[d].baseline \/ m \in cycle'[d].items)
    <2>1. d # c
      BY <1>4, <1>5, Copies DEF IdleCycle
    <2>2. cycle'[d] = cycle[d]
      BY <1>4, <1>5, <2>1
    <2> QED
      BY <1>5, <2>2, Copies
  <1> QED
    BY <1>1, <1>3, <1>5

\* The commands' steps copy what is covered.
LEMMA CommandsCover ==
  ASSUME TypeOK, FirstCycles, WindowInv, NEW s \in Commands,
         CommandStep(s) \/ SetupThrows(s) \/ \E active \in BOOLEAN : Sync(s, active)
  PROVE  WindowInv'
  <1> USE DEF WindowInv
  <1>1. ASSUME StopTrigger, UNCHANGED <<repo, cycle, emitted, baselined, dropped>>,
               \A other \in Commands : /\ command'[other].seed = command[other].seed \/
                                          command'[other].seed = repo \/
                                          command'[other].seed = NoState
                                       /\ command'[other].result = command[other].result \/
                                          command'[other].result = NoState
        PROVE  WindowInv'
    <2>1. loop' = loop \/ loop' = NoLoop
      BY <1>1 DEF StopTrigger, StopRuntime
    <2>2. \A m : Accounted(m)' <=> Accounted(m)
      BY <1>1 DEF Accounted
    <2> QED
      BY <1>1, <2>1, <2>2, Copies DEF NoLoop
  <1>2. CASE \E active \in BOOLEAN : Sync(s, active)
    BY <1>1, <1>2 DEF Sync, TypeOK
  <1>3. CASE LoadPrevious(s)
    BY <1>1, <1>3 DEF LoadPrevious, TypeOK
  <1>4. CASE SetupThrows(s)
    BY <1>1, <1>4 DEF SetupThrows, TypeOK, IdleCommand
  <1>5. CASE StoreResult(s)
    <2>1. \A m : Accounted(m)' <=> Accounted(m)
      BY <1>5 DEF StoreResult, Accounted
    <2> QED
      BY <1>5, <2>1, Copies DEF StoreResult, TypeOK, IdleCommand
  <1>6. CASE Setup(s) /\ Busy
    <2>1. \A m : Accounted(m)' <=> Accounted(m)
      BY <1>6 DEF Setup, Accounted, histories
    <2> QED
      BY <1>6, <2>1, Copies DEF Setup, EnsureLoop, TypeOK, histories
  <1>7. CASE Setup(s) /\ ~Busy
    <2> DEFINE begun == [IdleCycle EXCEPT !.pc = "load", !.state = command[s].seed]
    <2>1. begun.pc = "load" /\ begun.state = command[s].seed
      BY DEF IdleCycle
    <2>2. cycle' = [cycle EXCEPT ![s] = begun]
      BY <1>7 DEF Setup
    <2> HIDE DEF begun
    <2>3. s \in Cycles /\ cycle[s].pc = "idle"
      BY <1>7 DEF Setup, FirstCycles, Cycles
    <2>4. \A d \in Cycles : cycle'[d] = IF d = s THEN begun ELSE cycle[d]
      BY <2>2 DEF TypeOK
    <2>5. UNCHANGED <<repo, loop, emitted, baselined, dropped>>
      BY <1>7 DEF Setup, histories
    <2>6. \A m : Accounted(m) => Accounted(m)'
      BY <2>1, <2>3, <2>4, <2>5 DEF Accounted
    <2>7. \A other \in Commands : /\ command'[other].seed = command[other].seed
                                  /\ command'[other].result = command[other].result
      BY <1>7 DEF Setup, TypeOK
    <2>8. ASSUME NEW d \in Cycles, NEW m \in cycle'[d].state.seen
          PROVE  \/ Accounted(m)'
                 \/ cycle'[d].pc = "save" /\ (cycle'[d].baseline \/ m \in cycle'[d].items)
      BY <2>1, <2>4, <2>6, <2>8
    <2> QED
      BY <2>5, <2>6, <2>7, <2>8
  <1> QED
    BY <1>2, <1>3, <1>4, <1>5, <1>6, <1>7 DEF CommandStep

\* A cycle claims only what it lists as new, takes for old, or found in the window.
LEMMA CyclesCover ==
  ASSUME TypeOK, TypeOK', WindowInv, NEW c \in Cycles,
         CycleStep(c) \/ CycleThrows(c) \/ EmitThrows(c)
  PROVE  WindowInv'
  <1> USE DEF WindowInv
  <1>1. ASSUME cycle[c].pc # "emit", UNCHANGED <<emitted, dropped>>,
               baselined \subseteq baselined', NEW entry, cycle' = [cycle EXCEPT ![c] = entry]
        PROVE  NothingLost
    BY <1>1 DEF NothingLost, Accounted, TypeOK
  <1>2. CASE CycleLoad(c)
    <2> DEFINE entry == [cycle[c] EXCEPT !.pc = "poll", !.state = LoadedOr(cycle[c].state)]
    <2>1. cycle' = [cycle EXCEPT ![c] = entry]
      BY <1>2 DEF CycleLoad
    <2>2. UNCHANGED <<repo, loop, command, emitted, baselined, dropped>>
      BY <1>2 DEF CycleLoad, histories
    <2>3. NothingLost
      BY <1>1, <1>2, <2>1, <2>2 DEF CycleLoad
    <2>4. /\ cycle'[c].state = repo \/ cycle'[c].state = cycle[c].state
          /\ \A d \in Cycles : d # c => cycle'[d] = cycle[d]
      <3>1. entry.state = repo \/ entry.state = cycle[c].state
        BY DEF LoadedOr, TypeOK
      <3> HIDE DEF entry
      <3> QED
        BY <2>1, <3>1 DEF TypeOK
    <2>5. \A m \in cycle[c].state.seen : Accounted(m)
      BY <1>2 DEF CycleLoad
    <2>6. \A m \in cycle'[c].state.seen : Accounted(m)'
      BY <2>3, <2>4, <2>5, Copies DEF NothingLost
    <2>7. ASSUME NEW d \in Cycles, NEW m \in cycle'[d].state.seen
          PROVE  \/ Accounted(m)'
                 \/ cycle'[d].pc = "save" /\ (cycle'[d].baseline \/ m \in cycle'[d].items)
      BY <2>3, <2>4, <2>6, <2>7, Copies DEF NothingLost
    <2> QED
      BY <2>2, <2>3, <2>7, Copies DEF NothingLost
  <1>3. CASE CyclePoll(c)
    <2> DEFINE window == cycle[c].state
               entry == [pc |-> "save", state |-> Seen(Merge(window.seen)), items |-> New(window),
                         baseline |-> ~window.known]
    <2>1. cycle' = [cycle EXCEPT ![c] = entry] /\ cycle[c].pc = "poll"
      BY <1>3 DEF CyclePoll
    <2>2. UNCHANGED <<repo, loop, command, emitted, baselined, dropped>>
      BY <1>3 DEF CyclePoll, histories
    <2>3. entry.pc = "save" /\ entry.state.seen = window.seen \cup Listed
      BY DEF Seen, Merge
    <2>4. window.known \in BOOLEAN
      BY DEF TypeOK, State
    <2>5. entry.baseline \/ entry.items = Listed \ window.seen
      <3>1. entry.items = New(window) /\ entry.baseline = ~window.known
        OBVIOUS
      <3>2. CASE window.known
        BY <3>1, <3>2 DEF New
      <3>3. CASE ~window.known
        BY <3>1, <3>3
      <3> QED
        BY <3>2, <3>3
    <2>6. \A m \in window.seen : Accounted(m)
      BY <2>1
    <2> HIDE DEF entry
    <2>7. NothingLost
      BY <1>1, <2>1, <2>2
    <2>8. \A d \in Cycles : cycle'[d] = IF d = c THEN entry ELSE cycle[d]
      BY <2>1 DEF TypeOK
    <2>9. ASSUME NEW d \in Cycles, NEW m \in cycle'[d].state.seen
          PROVE  \/ Accounted(m)'
                 \/ cycle'[d].pc = "save" /\ (cycle'[d].baseline \/ m \in cycle'[d].items)
      <3>1. CASE d = c
        BY <2>3, <2>5, <2>6, <2>7, <2>8, <2>9, <3>1, Copies DEF NothingLost
      <3>2. CASE d # c
        BY <2>7, <2>8, <2>9, <3>2, Copies DEF NothingLost
      <3> QED
        BY <3>1, <3>2
    <2> QED
      BY <2>2, <2>7, <2>9, Copies DEF NothingLost
  <1>4. CASE CycleThrows(c)
    <2>1. UNCHANGED <<repo, emitted, baselined, dropped>> /\ cycle[c].pc # "emit"
      BY <1>4 DEF CycleThrows, histories
    <2>2. EndCycle(c, NoState)
      BY <1>4 DEF CycleThrows
    <2>3. NothingLost
      BY <1>1, <2>1, <2>2 DEF EndCycle
    <2> QED
      BY <2>1, <2>2, <2>3, Basics, Copies, EndCycleCovers DEF NothingLost
  <1>5. CASE CycleSave(c)
    <2>1. /\ cycle[c].pc = "save" /\ repo' = cycle[c].state
          /\ UNCHANGED <<emitted, dropped>>
          /\ baselined' = IF cycle[c].baseline THEN baselined \cup repo'.seen ELSE baselined
      BY <1>5 DEF CycleSave
    <2>2. CASE cycle[c].items = {}
      <3>1. EndCycle(c, cycle[c].state)
        BY <1>5, <2>2 DEF CycleSave
      <3>2. NothingLost
        BY <1>1, <2>1, <3>1 DEF EndCycle
      <3>3. \A m \in repo'.seen : Accounted(m)'
        <4>1. CASE cycle[c].baseline
          BY <2>1, <4>1 DEF Accounted
        <4>2. CASE ~cycle[c].baseline
          BY <2>1, <2>2, <3>2, <4>2, Copies DEF NothingLost
        <4> QED
          BY <4>1, <4>2
      <3>4. cycle[c].state \in State
        BY DEF TypeOK
      <3> QED
        BY <2>1, <3>1, <3>2, <3>3, <3>4, EndCycleCovers
    <2>3. CASE cycle[c].items # {}
      <3> DEFINE entry == [cycle[c] EXCEPT !.pc = "emit"]
      <3>1. cycle' = [cycle EXCEPT ![c] = entry] /\ UNCHANGED <<loop, command>>
        BY <1>5, <2>3 DEF CycleSave
      <3>2. /\ entry.pc = "emit" /\ entry.items = cycle[c].items
            /\ entry.state = cycle[c].state
        BY DEF TypeOK
      <3> HIDE DEF entry
      <3>3. NothingLost
        BY <1>1, <2>1, <3>1
      <3>4. \A d \in Cycles : cycle'[d] = IF d = c THEN entry ELSE cycle[d]
        BY <3>1 DEF TypeOK
      <3>5. \A m \in cycle[c].state.seen : Accounted(m)'
        <4>1. CASE cycle[c].baseline
          BY <2>1, <4>1 DEF Accounted
        <4>2. CASE ~cycle[c].baseline
          BY <2>1, <3>2, <3>3, <3>4, <4>2, Copies DEF NothingLost, Accounted
        <4> QED
          BY <4>1, <4>2
      <3>6. ASSUME NEW d \in Cycles, NEW m \in cycle'[d].state.seen
            PROVE  \/ Accounted(m)'
                   \/ cycle'[d].pc = "save" /\ (cycle'[d].baseline \/ m \in cycle'[d].items)
        <4>1. CASE d = c
          BY <3>2, <3>4, <3>5, <3>6, <4>1
        <4>2. CASE d # c
          BY <3>3, <3>4, <3>6, <4>2, Copies DEF NothingLost
        <4> QED
          BY <4>1, <4>2
      <3> QED
        BY <2>1, <3>1, <3>3, <3>5, <3>6, Copies DEF NothingLost
    <2> QED
      BY <2>2, <2>3
  <1>6. CASE CycleEmit(c) \/ EmitThrows(c)
    <2>1. /\ cycle[c].pc = "emit" /\ UNCHANGED <<repo, baselined>>
          /\ \A m \in cycle[c].items : emitted'[m] > 0 \/ m \in dropped'
          /\ \A m \in Messages : emitted[m] > 0 => emitted'[m] > 0
          /\ dropped \subseteq dropped'
          /\ cycle' = [cycle EXCEPT ![c] = IdleCycle]
      <3>1. \A m \in Messages : emitted[m] \in 0..2
        BY DEF TypeOK
      <3>2. CASE CycleEmit(c)
        <4>1. \A m \in Messages : emitted'[m] = IF m \in cycle[c].items /\ emitted[m] < 2
                                               THEN emitted[m] + 1 ELSE emitted[m]
          BY <3>2 DEF CycleEmit
        <4>2. cycle[c].items \subseteq Messages
          BY DEF TypeOK
        <4>3. \A m \in Messages : /\ m \in cycle[c].items => emitted'[m] > 0
                                  /\ emitted[m] > 0 => emitted'[m] > 0
          BY <3>1, <4>1
        <4> QED
          BY <3>2, <4>2, <4>3 DEF CycleEmit, EndCycle
      <3>3. CASE EmitThrows(c)
        BY <3>3 DEF EmitThrows, EndCycle
      <3> QED
        BY <1>6, <3>2, <3>3
    <2>2. NothingLost
      BY <2>1 DEF NothingLost, Accounted, TypeOK
    <2>3. \A m \in cycle[c].state.seen : Accounted(m)'
      BY <2>1, <2>2, Copies DEF NothingLost
    <2>4. \A m \in repo'.seen : Accounted(m)'
      BY <2>1, <2>2, Copies DEF NothingLost
    <2>5. CASE CycleEmit(c)
      BY <2>2, <2>3, <2>4, <2>5, EndCycleCovers DEF CycleEmit, TypeOK
    <2>6. CASE EmitThrows(c)
      BY <2>2, <2>4, <2>6, Basics, Copies, EndCycleCovers DEF EmitThrows
    <2> QED
      BY <1>6, <2>5, <2>6
  <1> QED
    BY <1>2, <1>3, <1>4, <1>5, <1>6 DEF CycleStep

\* The saved window claims no message that nobody has seen: each was emitted or is about to be,
\* or was in the mailbox before the trigger, or fell to an accident after the save - for every
\* interleaving of commands, cycles, failures and restarts.
THEOREM WindowCorrect == Spec => []WindowIsAccountedFor
  <1> USE DEF WindowInv
  <1>1. Init => WindowInv /\ FirstCycles
    <2> SUFFICES ASSUME Init PROVE WindowInv /\ FirstCycles
      OBVIOUS
    <2>1. /\ \A s \in Commands : s \in Cycles /\ command[s] = IdleCommand
          /\ \A c \in Cycles : cycle[c] = IdleCycle
          /\ repo = NoState /\ loop = NoLoop
      BY DEF Init, Cycles
    <2>2. NoState.seen = {} /\ NoLoop.seed.seen = {} /\ IdleCommand.seed.seen = {}
          /\ IdleCommand.result.seen = {} /\ IdleCycle.state.seen = {}
      BY DEF NoState, NoLoop, IdleCommand, IdleCycle
    <2> QED
      BY <2>1, <2>2, Basics DEF FirstCycles
  <1>2. TypeOK /\ TypeOK' /\ FirstCycles /\ WindowInv /\ [Next]_vars => WindowInv'
    <2> SUFFICES ASSUME TypeOK, TypeOK', FirstCycles, WindowInv, [Next]_vars PROVE WindowInv'
      OBVIOUS
    <2>1. CASE Arrive \/ UNCHANGED vars
      <3>1. \A m : Accounted(m)' <=> Accounted(m)
        BY <2>1 DEF Accounted, Arrive, vars, histories
      <3> QED
        BY <2>1, <3>1 DEF Arrive, vars
    <2>2. ASSUME NEW t \in Ticks, Tick(t) PROVE WindowInv'
      <3> DEFINE begun == [IdleCycle EXCEPT !.pc = "load", !.state = Fallback]
      <3>1. begun.pc = "load" /\ (begun.state = loop.seed \/ begun.state = NoState)
        BY DEF IdleCycle, Fallback
      <3>2. cycle' = [cycle EXCEPT ![t] = begun] /\ cycle[t].pc = "idle"
        BY <2>2 DEF Tick
      <3> HIDE DEF begun
      <3>3. \A d \in Cycles : cycle'[d] = IF d = t THEN begun ELSE cycle[d]
        BY <2>2, <3>2 DEF TypeOK
      <3>4. UNCHANGED <<repo, loop, command, emitted, baselined, dropped>>
        BY <2>2 DEF Tick, histories
      <3>5. \A m : Accounted(m) => Accounted(m)'
        BY <3>1, <3>2, <3>3, <3>4 DEF Accounted
      <3>6. ASSUME NEW d \in Cycles, NEW m \in cycle'[d].state.seen
            PROVE  \/ Accounted(m)'
                   \/ cycle'[d].pc = "save" /\ (cycle'[d].baseline \/ m \in cycle'[d].items)
        BY <3>1, <3>3, <3>5, <3>6, Copies
      <3> QED
        BY <3>4, <3>5, <3>6
    <2>3. CASE Restart
      <3>1. \A m : Accounted(m) => Accounted(m)'
        BY <2>3 DEF Restart, Accounted
      <3>2. /\ repo' = repo /\ loop' = NoLoop
            /\ \A c \in Cycles : cycle'[c] = IdleCycle
        BY <2>3 DEF Restart
      <3>3. \A s \in Commands : command'[s].seed = NoState /\ command'[s].result = NoState
        BY <2>3 DEF Restart, IdleCommand
      <3> QED
        BY <3>1, <3>2, <3>3, Copies DEF NoLoop, IdleCycle
    <2> QED
      BY <2>1, <2>2, <2>3, CommandsCover, CyclesCover DEF Next, SomeTick
  <1>3. WindowInv => WindowIsAccountedFor
    BY DEF WindowIsAccountedFor, Accounted
  <1> QED
    BY <1>1, <1>2, <1>3, FirstCyclesStep, PollingTypes, PTL DEF Spec

-----------------------------------------------------------------------------
(* The interval and the activation. *)

\* A stop takes the interval off if its handle is there.
LEMMA StopsLoop ==
  ASSUME StopTrigger, ~raced, LoopInv
  PROVE  ~loop'.on /\ ~cleanup'
  BY DEF StopTrigger, StopRuntime, NoLoop, LoopInv

\* The interval is on once it is ensured.
LEMMA EnsuresLoop ==
  ASSUME NEW seed, EnsureLoop(seed)
  PROVE  loop'.on
  BY DEF EnsureLoop

LEMMA LoopCommands ==
  ASSUME TypeOK, TypeOK', LoopInv, NEW s \in Commands,
         CommandStep(s) \/ SetupThrows(s) \/ \E active \in BOOLEAN : Sync(s, active)
  PROVE  LoopInv'
  <1> USE DEF LoopInv
  <1> SUFFICES ASSUME ~raced' PROVE LoopInv'
    OBVIOUS
  <1>1. ASSUME NEW active \in BOOLEAN, Sync(s, active) PROVE LoopInv'
    <2>1. ~raced /\ \A other \in Commands : command[other].pc = "idle"
      BY <1>1 DEF Sync
    <2>2. ~loop'.on /\ ~cleanup' /\ wanted' = active
      BY <1>1, <2>1, StopsLoop DEF Sync
    <2>3. \A other \in Commands :
            command'[other].pc = IF other = s /\ active THEN "load" ELSE "idle"
      BY <1>1, <2>1 DEF Sync, TypeOK
    <2> QED
      BY <2>2, <2>3
  <1>2. CASE LoadPrevious(s)
    <2>1. ~raced /\ command[s].pc = "load" /\ UNCHANGED wanted
      BY <1>2 DEF LoadPrevious
    <2>2. ~loop'.on /\ ~cleanup'
      BY <1>2, <2>1, StopsLoop DEF LoadPrevious
    <2>3. \A other \in Commands :
            command'[other].pc = IF other = s THEN "setup" ELSE command[other].pc
      BY <1>2 DEF LoadPrevious, TypeOK
    <2>4. \A other \in Commands : other # s => command[other].pc = "idle"
      BY <2>1
    <2> QED
      BY <2>1, <2>2, <2>3, <2>4
  <1>3. CASE Setup(s)
    <2>1. /\ ~raced /\ command[s].pc = "setup" /\ UNCHANGED <<wanted, faults>>
          /\ cleanup' = TRUE
      BY <1>3 DEF Setup, histories
    <2>2. CASE Busy
      <3>1. loop'.on
        BY <1>3, <2>2, EnsuresLoop DEF Setup
      <3>2. \A other \in Commands :
              command'[other].pc = IF other = s THEN "store" ELSE command[other].pc
        BY <1>3, <2>2 DEF Setup, TypeOK
      <3> QED
        BY <2>1, <3>1, <3>2
    <2>3. CASE ~Busy
      <3>1. \A other \in Commands :
              command'[other].pc = IF other = s THEN "first" ELSE command[other].pc
        BY <1>3, <2>3 DEF Setup, TypeOK
      <3>2. loop' = loop
        BY <1>3, <2>3 DEF Setup
      <3> QED
        BY <2>1, <3>1, <3>2
    <2> QED
      BY <2>2, <2>3
  <1>4. CASE StoreResult(s)
    <2>1. ~raced /\ command[s].pc = "store" /\ UNCHANGED <<wanted, faults, cleanup, loop>>
      BY <1>4 DEF StoreResult
    <2>2. \A other \in Commands :
            command'[other].pc = IF other = s THEN "idle" ELSE command[other].pc
      BY <1>4, Basics DEF StoreResult, TypeOK
    <2> QED
      BY <2>1, <2>2
  <1>5. CASE SetupThrows(s)
    <2>1. ~raced /\ command[s].pc = "setup" /\ UNCHANGED wanted
      BY <1>5 DEF SetupThrows
    <2>2. ~loop'.on /\ ~cleanup' /\ faults' # 0
      BY <1>5, <2>1, StopsLoop, PollingAssumption DEF SetupThrows, Fault, TypeOK
    <2>3. \A other \in Commands :
            command'[other].pc = IF other = s THEN "idle" ELSE command[other].pc
      BY <1>5, Basics DEF SetupThrows, TypeOK
    <2> QED
      BY <2>1, <2>2, <2>3
  <1> QED
    BY <1>1, <1>2, <1>3, <1>4, <1>5 DEF CommandStep

LEMMA LoopCycles ==
  ASSUME TypeOK, TypeOK', FirstCycles, LoopInv, NEW c \in Cycles,
         CycleStep(c) \/ CycleThrows(c) \/ EmitThrows(c)
  PROVE  LoopInv'
  <1> USE DEF LoopInv
  <1> SUFFICES ASSUME ~raced' PROVE LoopInv'
    OBVIOUS
  <1>1. /\ ~raced /\ UNCHANGED <<wanted, cleanup>> /\ cycle[c].pc # "idle"
        /\ faults' = 0 => faults = 0
    BY PollingAssumption
       DEF CycleStep, CycleLoad, CyclePoll, CycleSave, CycleEmit, CycleThrows, EmitThrows, Fault,
           histories, TypeOK
  <1>2. ASSUME NEW result, EndCycle(c, result) PROVE LoopInv'
    <2>1. CASE c \in Commands
      <3>1. command[c].pc = "first"
        BY <1>1, <2>1 DEF FirstCycles
      <3>2. loop'.on
        BY <1>2, <2>1, EnsuresLoop DEF EndCycle
      <3>3. \A other \in Commands :
              command'[other].pc = IF other = c THEN "store" ELSE command[other].pc
        BY <1>2, <2>1 DEF EndCycle, TypeOK
      <3> QED
        BY <1>1, <2>1, <3>1, <3>2, <3>3
    <2>2. CASE c \notin Commands
      BY <1>1, <1>2, <2>2 DEF EndCycle
    <2> QED
      BY <2>1, <2>2
  <1>3. CASE UNCHANGED <<command, loop>>
    BY <1>1, <1>3
  <1>4. CASE CycleSave(c)
    BY <1>2, <1>3, <1>4 DEF CycleSave
  <1> QED
    BY <1>2, <1>3, <1>4 DEF CycleStep, CycleLoad, CyclePoll, CycleEmit, CycleThrows, EmitThrows

\* With no command going on an interval means that the workflow is active and, if nothing has gone
\* wrong, an active workflow has one - unless a stop came while the trigger was being set up.
THEOREM LoopCorrect == Spec => []LoopFollowsActivation
  <1> USE DEF LoopInv
  <1>1. Init => LoopInv /\ FirstCycles
    <2> SUFFICES ASSUME Init PROVE LoopInv /\ FirstCycles
      OBVIOUS
    <2>1. \A s \in Commands : s \in Cycles /\ command[s].pc = "idle" /\ cycle[s].pc = "idle"
      BY Basics DEF Init, Cycles
    <2> QED
      BY <2>1, Basics DEF Init, FirstCycles
  <1>2. TypeOK /\ TypeOK' /\ FirstCycles /\ LoopInv /\ [Next]_vars => LoopInv'
    <2> SUFFICES ASSUME TypeOK, TypeOK', FirstCycles, LoopInv, [Next]_vars PROVE LoopInv'
      OBVIOUS
    <2>1. CASE Arrive \/ SomeTick \/ UNCHANGED vars
      BY <2>1 DEF Arrive, SomeTick, Tick, vars, histories
    <2>2. CASE Restart
      <3> DEFINE starter == CHOOSE s \in Commands : \A other \in Commands : s <= other
      <3>1. \A s \in Commands : command'[s].pc = IF wanted /\ s = starter THEN "load" ELSE "idle"
        BY <2>2 DEF Restart, IdleCommand
      <3>2. ~loop'.on /\ UNCHANGED <<wanted, raced>> /\ faults' # 0
        BY <2>2, Basics, PollingAssumption DEF Restart, Fault, TypeOK
      <3> HIDE DEF starter
      <3> QED
        BY <3>1, <3>2
    <2> QED
      BY <2>1, <2>2, LoopCommands, LoopCycles DEF Next
  <1>3. LoopInv => LoopFollowsActivation
    BY DEF LoopFollowsActivation
  <1> QED
    BY <1>1, <1>2, <1>3, FirstCyclesStep, PollingTypes, PTL DEF Spec

-----------------------------------------------------------------------------
(* Nothing twice. *)

\* A cycle that is idle is fine with any window.
LEMMA IdleOnce ==
  ASSUME NEW c \in Cycles
  PROVE  /\ cycle[c].pc = "idle" => CycleOnce(c)
         /\ cycle'[c].pc = "idle" => CycleOnce(c)'
         /\ CycleOnce(c) /\ cycle'[c] = cycle[c] /\ UNCHANGED <<repo, emitted>> => CycleOnce(c)'
  BY DEF CycleOnce

\* While the guard holds the other cycles are idle.
LEMMA OthersIdle ==
  ASSUME Guarded, ~orphaned, NEW c \in Cycles, cycle[c].pc # "idle"
  PROVE  \A d \in Cycles : d # c => cycle[d].pc = "idle"
  BY DEF Guarded, Running

LEMMA OnceCommands ==
  ASSUME TypeOK, FirstCycles, OnceInv, NEW s \in Commands,
         CommandStep(s) \/ SetupThrows(s) \/ \E active \in BOOLEAN : Sync(s, active)
  PROVE  OnceInv'
  <1> SUFFICES ASSUME ~orphaned', ~clobbered'
               PROVE  SavedOnce' /\ SeedsOnce' /\ \A c \in Cycles : CycleOnce(c)'
    BY DEF OnceInv
  <1>1. ~orphaned /\ ~clobbered /\ UNCHANGED <<emitted, baselines>> /\ repo' = repo
    <2>1. StopTrigger => ~orphaned
      BY DEF StopTrigger
    <2>2. CASE StoreResult(s)
      BY <2>2 DEF StoreResult
    <2>3. CASE Setup(s)
      BY <2>3 DEF Setup, histories
    <2>4. CASE LoadPrevious(s) \/ SetupThrows(s)
      BY <2>1, <2>4 DEF LoadPrevious, SetupThrows
    <2>5. CASE \E active \in BOOLEAN : Sync(s, active)
      BY <2>1, <2>5 DEF Sync
    <2> QED
      BY <2>2, <2>3, <2>4, <2>5 DEF CommandStep
  <1>2. SavedOnce /\ SeedsOnce /\ \A c \in Cycles : CycleOnce(c)
    BY <1>1 DEF OnceInv
  <1>3. SavedOnce'
    BY <1>1, <1>2 DEF SavedOnce
  <1>4. /\ \A other \in Commands : \/ command'[other].seed = command[other].seed
                                   \/ command'[other].seed = repo
                                   \/ ~command'[other].seed.known
        /\ loop'.seed = loop.seed \/ loop'.seed = command[s].seed \/ ~loop'.seed.known
    <2>1. CASE StopTrigger
      <3>1. loop' = loop \/ loop' = NoLoop
        BY <2>1 DEF StopTrigger, StopRuntime
      <3>2. ~NoLoop.seed.known
        BY DEF NoLoop, NoState
      <3>3. ~IdleCommand.seed.known
        BY DEF IdleCommand, NoState
      <3>4. CASE LoadPrevious(s)
        BY <3>1, <3>2, <3>4 DEF LoadPrevious, TypeOK
      <3>5. CASE SetupThrows(s)
        BY <3>1, <3>2, <3>3, <3>5 DEF SetupThrows, TypeOK
      <3>6. CASE \E active \in BOOLEAN : Sync(s, active)
        BY <3>1, <3>2, <3>6 DEF Sync, TypeOK
      <3>7. CASE StoreResult(s)
        BY <3>3, <3>7 DEF StoreResult, TypeOK
      <3>8. CASE Setup(s)
        BY <3>8 DEF Setup, EnsureLoop, TypeOK
      <3> QED
        BY <3>4, <3>5, <3>6, <3>7, <3>8 DEF CommandStep
    <2>2. CASE StoreResult(s)
      <3>1. ~IdleCommand.seed.known
        BY DEF IdleCommand, NoState
      <3> QED
        BY <2>2, <3>1 DEF StoreResult, TypeOK
    <2>3. CASE Setup(s)
      BY <2>3 DEF Setup, EnsureLoop, TypeOK
    <2> QED
      BY <2>1, <2>2, <2>3 DEF CommandStep, Sync, LoadPrevious, SetupThrows
  <1>5. SeedsOnce'
    BY <1>1, <1>2, <1>4 DEF SeedsOnce
  <1>6. CASE UNCHANGED cycle
    BY <1>1, <1>2, <1>3, <1>5, <1>6, IdleOnce
  <1>7. CASE Setup(s) /\ ~Busy
    <2> DEFINE begun == [IdleCycle EXCEPT !.pc = "load", !.state = command[s].seed]
    <2>1. begun.pc = "load" /\ begun.state = command[s].seed
      BY DEF IdleCycle
    <2>2. cycle' = [cycle EXCEPT ![s] = begun]
      BY <1>7 DEF Setup
    <2> HIDE DEF begun
    <2>3. \A d \in Cycles : cycle'[d] = IF d = s THEN begun ELSE cycle[d]
      BY <2>2 DEF TypeOK
    <2>4. s \in Cycles
      BY DEF Cycles
    <2>5. CycleOnce(s)'
      BY <1>1, <1>2, <2>1, <2>3, <2>4 DEF CycleOnce, SeedsOnce
    <2>6. \A d \in Cycles : d # s => CycleOnce(d)'
      BY <1>1, <1>2, <2>3, IdleOnce
    <2> QED
      BY <1>3, <1>5, <2>5, <2>6
  <1> QED
    BY <1>6, <1>7 DEF CommandStep, Sync, LoadPrevious, SetupThrows, StoreResult, Setup

\* The finally keeps everything else.
LEMMA EndCycleOnce ==
  ASSUME TypeOK, Guarded, ~orphaned, SeedsOnce, repo.known => repo'.known, NEW c \in Cycles,
         cycle[c].pc # "idle", NEW result, EndCycle(c, result)
  PROVE  SeedsOnce' /\ \A d \in Cycles : CycleOnce(d)'
  <1>1. \A d \in Cycles : cycle'[d].pc = "idle"
    BY OthersIdle, Basics DEF EndCycle, TypeOK
  <1>2. CASE c \in Commands
    <2>1. loop'.seed = loop.seed \/ loop'.seed = command[c].seed
      BY <1>2 DEF EndCycle, EnsureLoop
    <2>2. \A s \in Commands : command'[s].seed = command[s].seed
      BY <1>2 DEF EndCycle, TypeOK
    <2> QED
      BY <1>1, <1>2, <2>1, <2>2, IdleOnce DEF SeedsOnce
  <1>3. CASE c \notin Commands
    BY <1>1, <1>3, IdleOnce DEF SeedsOnce, EndCycle
  <1> QED
    BY <1>2, <1>3

LEMMA OnceCycles ==
  ASSUME TypeOK, Guarded, OnceInv, NEW c \in Cycles,
         CycleStep(c) \/ CycleThrows(c) \/ EmitThrows(c)
  PROVE  OnceInv'
  <1> SUFFICES ASSUME ~orphaned', ~clobbered'
               PROVE  SavedOnce' /\ SeedsOnce' /\ \A d \in Cycles : CycleOnce(d)'
    BY DEF OnceInv
  <1>1. ~orphaned /\ ~clobbered /\ cycle[c].pc # "idle"
    BY DEF CycleStep, CycleLoad, CyclePoll, CycleSave, CycleEmit, CycleThrows, EmitThrows,
           histories
  <1>2. SavedOnce /\ SeedsOnce /\ CycleOnce(c)
    BY <1>1 DEF OnceInv
  <1>3. \A d \in Cycles : d # c => cycle[d].pc = "idle"
    BY <1>1, OthersIdle
  <1>4. ASSUME NEW entry, cycle' = [cycle EXCEPT ![c] = entry], CycleOnce(c)'
        PROVE  \A d \in Cycles : CycleOnce(d)'
    BY <1>3, <1>4, IdleOnce DEF TypeOK
  <1>5. CASE CycleLoad(c)
    <2> DEFINE entry == [cycle[c] EXCEPT !.pc = "poll", !.state = LoadedOr(cycle[c].state)]
    <2>1. cycle' = [cycle EXCEPT ![c] = entry] /\ cycle[c].pc = "load"
      BY <1>5 DEF CycleLoad
    <2>2. UNCHANGED <<repo, loop, command, emitted, baselines>>
      BY <1>5 DEF CycleLoad, histories
    <2>3. entry.pc = "poll" /\ entry.state = LoadedOr(cycle[c].state)
      BY DEF TypeOK
    <2> HIDE DEF entry
    <2>4. cycle'[c] = entry
      BY <2>1 DEF TypeOK
    <2>5. IF repo.known THEN entry.state = repo ELSE ~entry.state.known
      BY <1>2, <2>1, <2>3 DEF LoadedOr, CycleOnce
    <2>6. CycleOnce(c)'
      BY <2>2, <2>3, <2>4, <2>5 DEF CycleOnce
    <2> QED
      BY <1>2, <1>4, <2>1, <2>2, <2>6 DEF SavedOnce, SeedsOnce
  <1>6. CASE CyclePoll(c)
    <2> DEFINE window == cycle[c].state
               entry == [pc |-> "save", state |-> Seen(Merge(window.seen)), items |-> New(window),
                         baseline |-> ~window.known]
    <2>1. cycle' = [cycle EXCEPT ![c] = entry] /\ cycle[c].pc = "poll"
      BY <1>6 DEF CyclePoll
    <2>2. UNCHANGED <<repo, loop, command, emitted, baselines>>
      BY <1>6 DEF CyclePoll, histories
    <2>3. /\ entry.pc = "save" /\ entry.state.known /\ entry.state.seen = window.seen \cup Listed
          /\ entry.items = New(window) /\ entry.baseline = ~window.known
      BY DEF Seen, Merge
    <2> HIDE DEF entry
    <2>4. cycle'[c] = entry
      BY <2>1 DEF TypeOK
    <2>5. CASE repo.known
      <3>1. window = repo
        BY <1>2, <2>1, <2>5 DEF CycleOnce
      <3>2. entry.items = Listed \ repo.seen /\ ~entry.baseline
        BY <2>3, <2>5, <3>1 DEF New
      <3>3. CycleOnce(c)'
        BY <2>2, <2>3, <2>4, <2>5, <3>1, <3>2 DEF CycleOnce
      <3> QED
        BY <1>2, <1>4, <2>1, <2>2, <3>3 DEF SavedOnce, SeedsOnce
    <2>6. CASE ~repo.known
      <3>1. ~window.known /\ repo.seen = {}
        BY <1>2, <2>1, <2>6 DEF CycleOnce, SavedOnce, NoState
      <3>2. entry.items = {} /\ entry.baseline
        BY <2>3, <3>1 DEF New
      <3>3. CycleOnce(c)'
        BY <2>2, <2>3, <2>4, <2>6, <3>1, <3>2 DEF CycleOnce
      <3> QED
        BY <1>2, <1>4, <2>1, <2>2, <3>3 DEF SavedOnce, SeedsOnce
    <2> QED
      BY <2>5, <2>6
  <1>7. CASE CycleSave(c)
    <2>1. /\ cycle[c].pc = "save" /\ repo' = cycle[c].state /\ UNCHANGED emitted
          /\ cycle[c].baseline => baselines' = IF baselines < 2 THEN baselines + 1 ELSE 2
          /\ ~cycle[c].baseline => baselines' = baselines
      BY <1>7 DEF CycleSave
    <2>2. repo'.known /\ repo.seen \subseteq repo'.seen
      BY <1>2, <2>1 DEF CycleOnce
    <2>3. cycle[c].baseline => baselines = 0
      BY <1>2, <2>1 DEF CycleOnce, SavedOnce
    <2>4. baselines' <= 1
      BY <1>2, <2>1, <2>3 DEF SavedOnce
    <2>5. SavedOnce'
      <3>1. \A m \in Messages : emitted'[m] <= 1 /\ (emitted'[m] > 0 => m \in repo'.seen)
        BY <1>2, <2>1, <2>2 DEF SavedOnce
      <3> QED
        BY <2>2, <2>4, <3>1 DEF SavedOnce
    <2>6. CASE cycle[c].items = {}
      BY <1>1, <1>2, <1>7, <2>2, <2>5, <2>6, EndCycleOnce DEF CycleSave
    <2>7. CASE cycle[c].items # {}
      <3> DEFINE entry == [cycle[c] EXCEPT !.pc = "emit"]
      <3>1. cycle' = [cycle EXCEPT ![c] = entry] /\ UNCHANGED <<loop, command>>
        BY <1>7, <2>7 DEF CycleSave
      <3>2. /\ entry.pc = "emit" /\ entry.items = cycle[c].items
            /\ entry.state = cycle[c].state
        BY DEF TypeOK
      <3> HIDE DEF entry
      <3>3. cycle'[c] = entry
        BY <3>1 DEF TypeOK
      <3>4. \A m \in cycle[c].items : emitted[m] = 0
        BY <1>2, <2>1 DEF CycleOnce, SavedOnce, TypeOK
      <3>5. CycleOnce(c)'
        BY <1>2, <2>1, <3>2, <3>3, <3>4 DEF CycleOnce
      <3> QED
        BY <1>2, <1>4, <2>2, <2>5, <3>1, <3>5 DEF SeedsOnce
    <2> QED
      BY <2>6, <2>7
  <1>8. CASE CycleEmit(c)
    <2>1. /\ cycle[c].pc = "emit" /\ UNCHANGED <<repo, baselines>>
          /\ \A m \in Messages : emitted'[m] = IF m \in cycle[c].items /\ emitted[m] < 2
                                               THEN emitted[m] + 1 ELSE emitted[m]
      BY <1>8 DEF CycleEmit
    <2>2. /\ cycle[c].items \subseteq repo.seen
          /\ \A m \in cycle[c].items : emitted[m] = 0
      BY <1>2, <2>1 DEF CycleOnce
    <2>3. \A m \in Messages : emitted'[m] <= 1 /\ (emitted'[m] > 0 => m \in repo.seen)
      BY <1>2, <2>1, <2>2 DEF SavedOnce
    <2>4. SavedOnce'
      BY <1>2, <2>1, <2>3 DEF SavedOnce
    <2> QED
      BY <1>1, <1>2, <1>8, <2>1, <2>4, EndCycleOnce DEF CycleEmit
  <1>9. CASE CycleThrows(c) \/ EmitThrows(c)
    <2>1. UNCHANGED <<repo, emitted, baselines>> /\ EndCycle(c, NoState)
      BY <1>9 DEF CycleThrows, EmitThrows, histories
    <2> QED
      BY <1>1, <1>2, <2>1, EndCycleOnce DEF SavedOnce
  <1> QED
    BY <1>5, <1>6, <1>7, <1>8, <1>9 DEF CycleStep

\* No message is emitted twice and the mailbox is taken for old only once, across failing
\* cycles, failing emits and restarts: the trigger goes on from the window it had.
THEOREM NothingTwiceCorrect == Spec => []NothingTwice
  <1>1. Init => OnceInv /\ Guarded /\ FirstCycles
    <2> SUFFICES ASSUME Init PROVE OnceInv /\ Guarded /\ FirstCycles
      OBVIOUS
    <2>1. /\ \A s \in Commands : s \in Cycles /\ command[s] = IdleCommand
          /\ \A c \in Cycles : cycle[c] = IdleCycle
          /\ repo = NoState /\ loop = NoLoop /\ baselines = 0
          /\ \A m \in Messages : emitted[m] = 0
      BY DEF Init, Cycles
    <2>2. ~NoLoop.seed.known /\ ~IdleCommand.seed.known
      BY DEF NoState, NoLoop, IdleCommand
    <2>3. FirstCycles /\ Guarded
      BY <2>1, Basics DEF FirstCycles, Guarded, Running
    <2>4. SavedOnce /\ SeedsOnce
      BY <2>1, <2>2 DEF SavedOnce, SeedsOnce
    <2>5. \A c \in Cycles : CycleOnce(c)
      BY <2>1, Basics, IdleOnce
    <2> QED
      BY <2>3, <2>4, <2>5 DEF OnceInv
  <1>2. TypeOK /\ FirstCycles /\ Guarded /\ OnceInv /\ [Next]_vars => OnceInv'
    <2> SUFFICES ASSUME TypeOK, FirstCycles, Guarded, OnceInv, [Next]_vars PROVE OnceInv'
      OBVIOUS
    <2>1. CASE Arrive \/ UNCHANGED vars
      <3>1. UNCHANGED <<repo, emitted, baselines, orphaned, clobbered, loop, command, cycle>>
        BY <2>1 DEF Arrive, vars, histories
      <3> QED
        BY <3>1, IdleOnce DEF OnceInv, SavedOnce, SeedsOnce
    <2>2. ASSUME NEW t \in Ticks, Tick(t) PROVE OnceInv'
      <3> DEFINE begun == [IdleCycle EXCEPT !.pc = "load", !.state = Fallback]
      <3>1. begun.pc = "load" /\ (begun.state = loop.seed \/ ~begun.state.known)
        BY DEF IdleCycle, Fallback, NoState
      <3>2. cycle' = [cycle EXCEPT ![t] = begun] /\ t \in Cycles
        BY <2>2 DEF Tick, Cycles
      <3> HIDE DEF begun
      <3>3. \A d \in Cycles : cycle'[d] = IF d = t THEN begun ELSE cycle[d]
        BY <3>2 DEF TypeOK
      <3>4. UNCHANGED <<repo, loop, command, emitted, baselines, orphaned, clobbered>>
        BY <2>2 DEF Tick, histories
      <3>5. SUFFICES ASSUME SavedOnce, SeedsOnce, \A c \in Cycles : CycleOnce(c)
                     PROVE  SavedOnce' /\ SeedsOnce' /\ \A c \in Cycles : CycleOnce(c)'
        BY <3>4 DEF OnceInv
      <3>6. CycleOnce(t)'
        BY <3>1, <3>2, <3>3, <3>4, <3>5 DEF CycleOnce, SeedsOnce
      <3> QED
        BY <3>3, <3>4, <3>5, <3>6, IdleOnce DEF SavedOnce, SeedsOnce
    <2>3. CASE Restart
      <3>1. /\ UNCHANGED <<repo, emitted, baselines, orphaned, clobbered>> /\ loop' = NoLoop
            /\ \A c \in Cycles : cycle'[c].pc = "idle"
        BY <2>3, Basics DEF Restart
      <3>2. \A s \in Commands : ~command'[s].seed.known
        BY <2>3 DEF Restart, IdleCommand, NoState
      <3>3. ~NoLoop.seed.known
        BY DEF NoLoop, NoState
      <3> QED
        BY <3>1, <3>2, <3>3, IdleOnce DEF OnceInv, SavedOnce, SeedsOnce
    <2> QED
      BY <2>1, <2>2, <2>3, OnceCommands, OnceCycles DEF Next, SomeTick
  <1>3. OnceInv => NothingTwice
    BY DEF OnceInv, SavedOnce, NothingTwice
  <1> QED
    BY <1>1, <1>2, <1>3, FirstCyclesStep, GuardedStep, PollingTypes, PTL DEF Spec
=============================================================================
