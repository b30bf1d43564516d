---------------------------- MODULE PollingTrigger ----------------------------
(***************************************************************************)
(* One polling trigger of one workflow: PollingTriggerRuntime with its     *)
(* interval, overlap guard and saved state, TriggerRuntimeService that     *)
(* sets it up and stops it when the workflow is activated or deactivated,  *)
(* and the mail triggers' cycle (GmailPollingService, onNewMailNode): poll *)
(* the newest messages, skip those of the window, save the window, emit.   *)
(* Every await ends a step.                                                *)
(*                                                                         *)
(* Abstracted: a message is a number, in the order of arrival; the window  *)
(* is a set (its cap of 2000 ids is far above a page of 20 or 25); the run *)
(* that an emit starts; messages the query does not match; the database    *)
(* row of the activation, which is written just before the policy is set.  *)
(***************************************************************************)
EXTENDS Naturals, FiniteSets

CONSTANTS
  Commands,      \* slots of the activations and deactivations going on
  Ticks,         \* slots of the cycles an interval has begun
  MaxMessages,   \* bound: messages that arrive
  PageSize,      \* a poll lists at most that many, the newest
  Helpers,       \* how the trigger is written: "gmail" by hand, "defined" with definePollingTrigger
  FaultKinds,    \* the faults that happen, of AllFaults
  MaxFaults,     \* bound: number of faults
  MaxCommands    \* bound: number of activations and deactivations

\* A cycle throws before it has saved, the emit throws, setup throws, the process restarts.
AllFaults == {"cycle", "emit", "setup", "restart"}

ASSUME PollingAssumption ==
  /\ Commands \subseteq Nat /\ Ticks \subseteq Nat /\ Commands \cap Ticks = {}
  /\ MaxMessages \in Nat /\ PageSize \in Nat \ {0} /\ MaxFaults \in Nat /\ MaxCommands \in Nat
  /\ Helpers \subseteq {"gmail", "defined"} /\ FaultKinds \subseteq AllFaults

VARIABLES
  helper,     \* which of Helpers the trigger is
  arrived,    \* messages in the mailbox
  repo,       \* the row of TriggerSetupStateRepository
  wanted,     \* the activation policy
  command,    \* command[s]: a syncWorkflowTriggersForActivation
  cleanup,    \* triggerCleanupHandlesByKey holds a handle (all of them stop the same trigger)
  busy,       \* busyTriggers
  loop,       \* activeTriggers, the interval and the seed its closure captured
  cycle,      \* cycle[c]: an invocation of runCycle
  emitted,    \* history: emitted[m], counted up to 2
  baselined,  \* history: messages that were skipped as the mailbox's old ones
  baselines,  \* history: number of saved baselines, up to 2
  dropped,    \* history: messages saved as seen whose emit threw or never began
  orphaned,   \* history: a stop freed the overlap guard under a cycle
  raced,      \* history: a stop came while another command was setting the trigger up
  clobbered,  \* history: what setup returned replaced a different state
  faults,     \* number of faults
  commands    \* number of commands

vars == <<helper, arrived, repo, wanted, command, cleanup, busy, loop, cycle, emitted, baselined,
          baselines, dropped, orphaned, raced, clobbered, faults, commands>>
histories == <<emitted, baselined, baselines, dropped, orphaned, raced, clobbered>>

Messages == 1..MaxMessages
Cycles   == Commands \cup Ticks
State    == [known : BOOLEAN, seen : SUBSET Messages]
NoState  == [known |-> FALSE, seen |-> {}]
Seen(ids) == [known |-> TRUE, seen |-> ids]

CommandPc   == {"idle", "load", "setup", "first", "store"}
IdleCommand == [pc |-> "idle", seed |-> NoState, result |-> NoState]
CyclePc     == {"idle", "load", "poll", "save", "emit"}
IdleCycle   == [pc |-> "idle", state |-> NoState, items |-> {}, baseline |-> FALSE]
NoLoop      == [on |-> FALSE, seed |-> NoState]

Init ==
  /\ helper \in Helpers
  /\ arrived = 0 /\ repo = NoState
  /\ wanted = FALSE
  /\ command = [s \in Commands |-> IdleCommand]
  /\ cleanup = FALSE /\ busy = FALSE /\ loop = NoLoop
  /\ cycle = [c \in Cycles |-> IdleCycle]
  /\ emitted = [m \in Messages |-> 0]
  /\ baselined = {} /\ baselines = 0 /\ dropped = {}
  /\ orphaned = FALSE /\ raced = FALSE /\ clobbered = FALSE
  /\ faults = 0 /\ commands = 0

Fault(kind) == kind \in FaultKinds /\ faults < MaxFaults /\ faults' = faults + 1
Running == {c \in Cycles : cycle[c].pc # "idle"}

\* The page a poll lists.
Listed == {m \in Messages : m <= arrived /\ arrived < m + PageSize}

Arrive ==
  /\ arrived < MaxMessages
  /\ arrived' = arrived + 1
  /\ UNCHANGED <<helper, repo, wanted, command, cleanup, busy, loop, cycle, histories, faults,
                 commands>>

-----------------------------------------------------------------------------
(* TriggerRuntimeService. *)

\* Variant: the interval is left to its closure.
StopGuardOnly == busy' = FALSE /\ UNCHANGED loop

\* PollingTriggerRuntime.stop.
StopRuntime == busy' = FALSE /\ loop' = NoLoop

\* stopTrigger: the cleanup handles are taken and called.
StopTrigger ==
  /\ cleanup' = FALSE
  /\ IF cleanup
     THEN StopRuntime /\ orphaned' = (orphaned \/ Running # {})
     ELSE UNCHANGED <<busy, loop, orphaned>>

\* Setting the policy and syncWorkflowTriggersForActivation: stop, then start again if the
\* workflow is active.
Sync(s, active) ==
  /\ command[s].pc = "idle" /\ commands < MaxCommands
  /\ \A other \in Commands : other < s => command[other].pc # "idle"
  /\ commands' = commands + 1
  /\ wanted' = active
  /\ StopTrigger
  /\ raced' = (raced \/ \E other \in Commands : command[other].pc # "idle")
  /\ command' = [command EXCEPT ![s].pc = IF active THEN "load" ELSE "idle"]
  /\ UNCHANGED <<helper, arrived, repo, cycle, emitted, baselined, baselines, dropped, clobbered,
                 faults>>

\* The start stops the trigger once more, as other triggers of the workflow were set up since.
LoadPrevious(s) ==
  /\ command[s].pc = "load"
  /\ StopTrigger
  /\ command' = [command EXCEPT ![s].pc = "setup", ![s].seed = repo]
  /\ UNCHANGED <<helper, arrived, repo, wanted, cycle, emitted, baselined, baselines, dropped,
                 raced, clobbered, faults, commands>>

\* ensureLoop: a trigger that is active keeps its interval and its closure.
EnsureLoop(seed) == loop' = IF loop.on THEN loop ELSE [on |-> TRUE, seed |-> seed]

\* Variant: the overlap guard is not asked.
NeverBusy == FALSE

Busy == busy

\* setup has its credential: register the cleanup and begin the first cycle, or find the
\* guard taken and return nothing.
Setup(s) ==
  /\ command[s].pc = "setup"
  /\ cleanup' = TRUE
  /\ IF Busy
     THEN /\ EnsureLoop(command[s].seed)
          /\ command' = [command EXCEPT ![s].pc = "store", ![s].result = NoState]
          /\ UNCHANGED <<busy, cycle>>
     ELSE /\ busy' = TRUE
          /\ command' = [command EXCEPT ![s].pc = "first"]
          /\ cycle' = [cycle EXCEPT ![s] = [IdleCycle EXCEPT !.pc = "load",
                                                             !.state = command[s].seed]]
          /\ UNCHANGED loop
  /\ UNCHANGED <<helper, arrived, repo, wanted, histories, faults, commands>>

\* setup throws before that (no credential): the trigger is skipped.
SetupThrows(s) ==
  /\ command[s].pc = "setup" /\ Fault("setup")
  /\ StopTrigger
  /\ command' = [command EXCEPT ![s] = IdleCommand]
  /\ UNCHANGED <<helper, arrived, repo, wanted, cycle, emitted, baselined, baselines, dropped,
                 raced, clobbered, commands>>

\* The state setup returned is saved, or the row is deleted if there is none.
StoreResult(s) ==
  /\ command[s].pc = "store"
  /\ repo' = command[s].result
  /\ clobbered' = (clobbered \/ repo' # repo)
  /\ command' = [command EXCEPT ![s] = IdleCommand]
  /\ UNCHANGED <<helper, arrived, wanted, cleanup, busy, loop, cycle, emitted, baselined,
                 baselines, dropped, orphaned, raced, faults, commands>>

-----------------------------------------------------------------------------
(* PollingTriggerRuntime.runCycle. *)

\* Variant: the guard is not freed by a cycle that throws.
FreesIfReturned(result) == busy' = ~result.known

\* The finally.
FreesGuard(result) == busy' = FALSE

\* A cycle of the interval goes; the first cycle goes on to the loop and hands its state to
\* setup, none if it threw.
EndCycle(c, result) ==
  /\ FreesGuard(result)
  /\ cycle' = [cycle EXCEPT ![c] = IdleCycle]
  /\ IF c \in Commands
     THEN /\ EnsureLoop(command[c].seed)
          /\ command' = [command EXCEPT ![c].pc = "store", ![c].result = result]
     ELSE UNCHANGED <<loop, command>>

\* What a cycle falls back to when nothing is saved: definePollingTrigger's closure keeps the
\* state its setup saw.
Fallback == IF helper = "defined" THEN loop.seed ELSE NoState

\* The interval: a tick that finds a cycle going on does nothing.
Tick(t) ==
  /\ loop.on /\ ~Busy /\ cycle[t].pc = "idle"
  /\ \A other \in Ticks : other < t => cycle[other].pc # "idle"
  /\ busy' = TRUE
  /\ cycle' = [cycle EXCEPT ![t] = [IdleCycle EXCEPT !.pc = "load", !.state = Fallback]]
  /\ UNCHANGED <<helper, arrived, repo, wanted, command, cleanup, loop, histories, faults,
                 commands>>

LoadedOr(fallback) == IF repo.known THEN repo ELSE fallback

CycleLoad(c) ==
  /\ cycle[c].pc = "load"
  /\ cycle' = [cycle EXCEPT ![c].pc = "poll", ![c].state = LoadedOr(@)]
  /\ UNCHANGED <<helper, arrived, repo, wanted, command, cleanup, busy, loop, histories, faults,
                 commands>>

\* Variants: the window goes one message too far; it is not extended.
MergeNextToo(window) == window \cup Listed \cup {arrived + 1}
KeepWindow(window) == window

\* PollingTriggerDedupWindow.merge.
Merge(window) == window \cup Listed

\* Variant: an empty window is taken for a missing one.
NewIfWindow(state) == IF state.seen # {} THEN Listed \ state.seen ELSE {}

New(state) == IF state.known THEN Listed \ state.seen ELSE {}

\* The poll: without a state everything listed is old; otherwise what the window lacks is new.
CyclePoll(c) ==
  LET state == cycle[c].state
  IN  /\ cycle[c].pc = "poll"
      /\ cycle' = [cycle EXCEPT ![c] = [pc |-> "save", state |-> Seen(Merge(state.seen)),
                                        items |-> New(state), baseline |-> ~state.known]]
      /\ UNCHANGED <<helper, arrived, repo, wanted, command, cleanup, busy, loop, histories,
                     faults, commands>>

\* The window is saved before anything is emitted.
CycleSave(c) ==
  /\ cycle[c].pc = "save"
  /\ repo' = cycle[c].state
  /\ IF cycle[c].baseline
     THEN /\ baselined' = baselined \cup repo'.seen
          /\ baselines' = IF baselines < 2 THEN baselines + 1 ELSE 2
     ELSE UNCHANGED <<baselined, baselines>>
  /\ IF cycle[c].items = {}
     THEN EndCycle(c, cycle[c].state)
     ELSE cycle' = [cycle EXCEPT ![c].pc = "emit"] /\ UNCHANGED <<command, busy, loop>>
  /\ UNCHANGED <<helper, arrived, wanted, cleanup, emitted, dropped, orphaned, raced, clobbered,
                 faults, commands>>

CycleEmit(c) ==
  /\ cycle[c].pc = "emit"
  /\ emitted' = [m \in Messages |-> IF m \in cycle[c].items /\ emitted[m] < 2
                                    THEN emitted[m] + 1 ELSE emitted[m]]
  /\ EndCycle(c, cycle[c].state)
  /\ UNCHANGED <<helper, arrived, repo, wanted, cleanup, baselined, baselines, dropped, orphaned,
                 raced, clobbered, faults, commands>>

\* The repository or the mail service fails: nothing of the cycle is kept.
CycleThrows(c) ==
  /\ cycle[c].pc \in {"load", "poll", "save"} /\ Fault("cycle")
  /\ EndCycle(c, NoState)
  /\ UNCHANGED <<helper, arrived, repo, wanted, cleanup, histories, commands>>

\* The run cannot be started: the window has the items already.
EmitThrows(c) ==
  /\ cycle[c].pc = "emit" /\ Fault("emit")
  /\ dropped' = dropped \cup cycle[c].items
  /\ EndCycle(c, NoState)
  /\ UNCHANGED <<helper, arrived, repo, wanted, cleanup, emitted, baselined, baselines, orphaned,
                 raced, clobbered, commands>>

\* The process goes down and startTriggers runs in the next one.
Restart ==
  /\ Fault("restart")
  /\ dropped' = dropped \cup UNION {cycle[c].items : c \in {c \in Cycles : cycle[c].pc = "emit"}}
  /\ cleanup' = FALSE /\ busy' = FALSE /\ loop' = NoLoop
  /\ cycle' = [c \in Cycles |-> IdleCycle]
  /\ LET starter == CHOOSE s \in Commands : \A other \in Commands : s <= other
     IN  command' = [s \in Commands |->
                       IF wanted /\ s = starter THEN [IdleCommand EXCEPT !.pc = "load"]
                       ELSE IdleCommand]
  /\ UNCHANGED <<helper, arrived, repo, wanted, emitted, baselined, baselines, orphaned, raced,
                 clobbered, commands>>

-----------------------------------------------------------------------------
(* The specification. *)

CommandStep(s) == LoadPrevious(s) \/ Setup(s) \/ StoreResult(s)
CycleStep(c)   == CycleLoad(c) \/ CyclePoll(c) \/ CycleSave(c) \/ CycleEmit(c)
SomeTick       == \E t \in Ticks : Tick(t)

Next ==
  \/ Arrive \/ SomeTick \/ Restart
  \/ \E s \in Commands : \/ \E active \in BOOLEAN : Sync(s, active)
                         \/ CommandStep(s) \/ SetupThrows(s)
  \/ \E c \in Cycles : CycleStep(c) \/ CycleThrows(c) \/ EmitThrows(c)

Spec == Init /\ [][Next]_vars

\* The interval keeps firing and every await comes back; nobody has to send mail or to
\* activate anything.
FairSpec ==
  /\ Spec
  /\ WF_vars(SomeTick)
  /\ \A s \in Commands : WF_vars(CommandStep(s))
  /\ \A c \in Cycles : WF_vars(CycleStep(c))

-----------------------------------------------------------------------------
(* Properties. *)

\* The variables have their types.
TypeOK ==
  /\ helper \in Helpers /\ arrived \in 0..MaxMessages /\ repo \in State /\ wanted \in BOOLEAN
  /\ command \in [Commands -> [pc : CommandPc, seed : State, result : State]]
  /\ cleanup \in BOOLEAN /\ busy \in BOOLEAN /\ loop \in [on : BOOLEAN, seed : State]
  /\ cycle \in [Cycles -> [pc : CyclePc, state : State, items : SUBSET Messages,
                           baseline : BOOLEAN]]
  /\ emitted \in [Messages -> 0..2] /\ baselined \subseteq Messages /\ baselines \in 0..2
  /\ dropped \subseteq Messages
  /\ orphaned \in BOOLEAN /\ raced \in BOOLEAN /\ clobbered \in BOOLEAN
  /\ faults \in 0..MaxFaults /\ commands \in 0..MaxCommands

\* Two cycles of the trigger never run together, except after a stop freed the guard of a
\* cycle that was still going on.
CyclesDoNotOverlap == orphaned \/ Cardinality(Running) <= 1

\* No message is emitted twice and the mailbox is taken for old only once, across failing
\* cycles, failing emits and restarts: the trigger goes on from the window it had.  The
\* exceptions are a cycle that survived a stop and a setup that put an older state back.
NothingTwice ==
  \/ orphaned \/ clobbered
  \/ baselines <= 1 /\ \A m \in Messages : emitted[m] <= 1

\* Every message of the saved window was emitted or is about to be, or was there before the
\* trigger, or fell to an accident after the save; no interleaving of cycles and setups
\* makes the window claim a message nobody has seen.
WindowIsAccountedFor ==
  \A m \in repo.seen :
    \/ emitted[m] > 0 \/ m \in baselined \cup dropped
    \/ \E c \in Cycles : cycle[c].pc = "emit" /\ m \in cycle[c].items

\* When no command is going on the interval is there if and only if the workflow is active;
\* the exceptions are a stop that came while the trigger was being set up and a setup that threw.
LoopFollowsActivation ==
  (\A s \in Commands : command[s].pc = "idle") /\ ~raced =>
    /\ loop.on => wanted
    /\ wanted /\ faults = 0 => loop.on

\* A message that a trigger with a window has not seen yet is emitted in the end, unless it
\* drops off the page, an accident or a second baseline takes it, or the trigger is stopped.
NewMessageEmitted ==
  \A m \in Messages :
    loop.on /\ repo.known /\ m \in Listed \ repo.seen
      ~> emitted[m] > 0 \/ m \in baselined \cup dropped \/ m \notin Listed \/ ~loop.on
=============================================================================
