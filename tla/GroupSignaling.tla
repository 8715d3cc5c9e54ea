--------------------------- MODULE GroupSignaling ---------------------------
(***************************************************************************)
(* One audio cycle of a sandbox group.                                     *)
(*                                                                         *)
(* The audio thread of the host (client.cpp, audio_process) stores the     *)
(* number of active sandboxes in a shared counter, sets a "work begin"     *)
(* event per active sandbox and blocks, with no timeout, on the group's    *)
(* "all sandboxes done" event.  The audio thread of each sandbox process   *)
(* (sbox/src/audio.hpp) waits for its event, processes its devices and     *)
(* decrements the counter; the one that takes it from 1 to 0 sets the done *)
(* event.  The poll thread of the client notices dead processes, publishes *)
(* the new number of active sandboxes and sets the done event itself so    *)
(* that the host is not blocked for ever.  API calls activate, deactivate  *)
(* and restart, each through messages that a sandbox handles in its main   *)
(* thread.                                                                 *)
(*                                                                         *)
(* Abstractions: what is processed is left out, and so are the devices.    *)
(* The message streams are FIFO queues; of the messages to the client only *)
(* confirm_activated matters here, so that queue is a count.  The set of   *)
(* sandboxes of the group does not change.                                 *)
(***************************************************************************)
EXTENDS Integers, Sequences, FiniteSets

CONSTANTS
  Sandboxes,     \* the sandboxes of the group
  First,         \* the one that group.sandboxes.begin() refers to
  Platforms,     \* the builds considered, of "windows", "linux" and "macos"
  CounterMod,    \* sandboxes_processing counts modulo this (2^32 in the code)
  Budgets        \* bounds: how often each fault or API call happens; one is chosen

ASSUME SandboxesAssumption == IsFiniteSet(Sandboxes) /\ First \in Sandboxes
ASSUME PlatformsAssumption == Platforms \subseteq {"windows", "linux", "macos"}
ASSUME CounterAssumption ==
  CounterMod \in Nat /\ Cardinality(Sandboxes) < CounterMod
\* The actions that are bounded.  A restart is eager if the process of the sandbox
\* runs, or has died unnoticed.
Kinds == {"crash", "activate", "deactivate", "restart", "eagerRestart", "renderMode",
          "interrupt"}
ASSUME BudgetsAssumption == Budgets \subseteq [Kinds -> Nat]

VARIABLES
  platform,   \* which implementation of the events is built
  budget,     \* how often each bounded action may happen
  \* shared memory
  counter,    \* group_shm_data.sandboxes_processing
  done,       \* group_shm_data.all_sandboxes_done
  work,       \* [s] sandbox_shm_data.work_begin
  groupName,  \* macOS: the name of the group's semaphore is still linked
  sboxName,   \* macOS: [s] the name of the sandbox's semaphore is still linked
  inbox,      \* [s] messages on their way to the sandbox
  outbox,     \* [s] confirm_activated messages on their way to the client
  \* the client's model
  launched,   \* [s] sandbox_flags::launched, working value
  confirmed,  \* [s] sandbox_flags::confirmed_active, working value
  total,      \* group.total_active_sandboxes, working value
  published,  \* group.total_active_sandboxes as the audio thread reads it
  \* the host's audio thread, in audio_process
  apc, aTotal, aLeft,
  \* the client's poll thread
  ppc, snap, todo, current, received,
  \* an API thread, in restart or set_render_mode
  ipc, iSbox, iFlags, iTotal,
  \* sandbox processes
  proc,       \* [s] "starting", "running" or "dead"
  mpc,        \* [s] main thread: in its frame loop, or inside stop_audio
  unsent,     \* [s] confirm_activated messages not written to the stream yet
  tpc,        \* [s] audio thread
  stop,       \* [s] stop_requested of the audio thread
  \* history
  served,     \* [s] how often s has processed since the cycle began
  unblocked,  \* the client has called unblock_self
  uses        \* how often each bounded action has happened

shmVars   == <<counter, done, work, groupName, sboxName>>
msgVars   == <<inbox, outbox>>
modelVars == <<launched, confirmed, total, published>>
audioVars == <<apc, aTotal, aLeft>>
pollVars  == <<ppc, snap, todo, current, received>>
apiVars   == <<ipc, iSbox, iFlags, iTotal>>
sboxVars  == <<proc, mpc, unsent, tpc, stop>>
history   == <<served, unblocked, uses>>

vars == <<platform, budget, shmVars, msgVars, modelVars, audioVars, pollVars, apiVars,
          sboxVars, history>>

N == Cardinality(Sandboxes)

Use(kind) ==
  /\ uses[kind] < budget[kind]
  /\ uses' = [uses EXCEPT ![kind] = @ + 1]

Flags(s) == [launched |-> launched[s], confirmed |-> confirmed[s]]

-----------------------------------------------------------------------------
(* The events of common-ipc-event.hpp.  On Windows (a manual-reset event)  *)
(* and on Linux (a futex word) an event is 0 or 1, and a wait is two steps:*)
(* it returns once the event is set, and resets it afterwards.  On Linux   *)
(* to set it is two steps as well: the word is stored, and then whoever    *)
(* sleeps on it at that time is woken, whatever the word is by then.  On   *)
(* macOS it is a counting semaphore and each is one step.                  *)

Semaphore == platform = "macos"
Futex     == platform = "linux"

Set(e) == IF Semaphore THEN e + 1 ELSE 1

\* futex_wake_all: where a thread is after it, given where it was.
Woken(pc) == IF pc = "asleep" THEN "reset" ELSE pc

\* Where a thread goes on after a set: on Linux it has yet to wake the sleeper.
AfterSet(pc) == IF Futex THEN "futexWake" ELSE pc

-----------------------------------------------------------------------------
(* The client's model.                                                     *)

Running(s) == proc[s] # "dead"

\* get_active_sandbox_count
ActiveCount(isLaunched, isConfirmed) ==
  Cardinality({s \in Sandboxes : isLaunched[s] /\ isConfirmed[s] /\ Running(s)})

\* Mutant: the number is kept up to date by hand.
PublishFlagsIncremental(s, isLaunched, isConfirmed) ==
  /\ launched'  = [launched EXCEPT ![s] = isLaunched]
  /\ confirmed' = [confirmed EXCEPT ![s] = isConfirmed]
  /\ total'     = IF isLaunched /\ isConfirmed THEN total + 1 ELSE total
  /\ published' = total'

\* update_publish of a new value of the flags of one sandbox, inserted whole
\* into the table, with the number of active sandboxes counted again.
PublishFlags(s, isLaunched, isConfirmed) ==
  /\ launched'  = [launched EXCEPT ![s] = isLaunched]
  /\ confirmed' = [confirmed EXCEPT ![s] = isConfirmed]
  /\ total'     = ActiveCount(launched', confirmed')
  /\ published' = total'

-----------------------------------------------------------------------------
(* The host's audio thread: audio_process, do_sandbox_processing,          *)
(* sandboxes_work_begin and wait_for_all_sandboxes_done.                   *)

\* The iterator that next_sandbox_signal captures is never advanced.
SignalTarget(i) == First

\* The published model is read once for the whole cycle.
AudioBegin ==
  /\ apc = "idle"
  /\ apc' = "store"
  /\ aTotal' = published
  /\ served' = [s \in Sandboxes |-> 0]
  /\ UNCHANGED <<platform, budget, shmVars, msgVars, modelVars, aLeft, pollVars, apiVars,
                 sboxVars, unblocked, uses>>

\* Mutant: the counter is left as the previous cycle ended.
AudioStoreForgotten ==
  /\ apc = "store"
  /\ apc' = "signal"
  /\ aLeft' = aTotal
  /\ UNCHANGED <<platform, budget, shmVars, msgVars, modelVars, aTotal, pollVars, apiVars,
                 sboxVars, history>>

AudioStore ==
  /\ apc = "store"
  /\ apc' = "signal"
  /\ counter' = aTotal
  /\ aLeft' = aTotal
  /\ UNCHANGED <<platform, budget, done, work, groupName, sboxName, msgVars, modelVars,
                 aTotal, pollVars, apiVars, sboxVars, history>>

AudioSignal ==
  /\ apc = "signal" /\ aLeft > 0
  /\ LET target == SignalTarget(aTotal - aLeft)
     IN  work' = [work EXCEPT ![target] = Set(@)]
  /\ aLeft' = aLeft - 1
  /\ apc' = AfterSet("signal")
  /\ UNCHANGED <<platform, budget, counter, done, groupName, sboxName, msgVars, modelVars,
                 aTotal, pollVars, apiVars, sboxVars, history>>

AudioFutexWake ==
  /\ apc = "futexWake"
  /\ apc' = "signal"
  /\ tpc' = [tpc EXCEPT ![SignalTarget(aTotal - aLeft - 1)] = Woken(@)]
  /\ UNCHANGED <<platform, budget, shmVars, msgVars, modelVars, aTotal, aLeft, pollVars, apiVars,
                 proc, mpc, unsent, stop, history>>

\* Mutant: off by one in the test for "no active sandbox".
AudioSignalledOffByOne ==
  /\ apc = "signal" /\ aLeft = 0
  /\ apc' = IF aTotal <= 1 THEN "outputs" ELSE "wait"
  /\ UNCHANGED <<platform, budget, shmVars, msgVars, modelVars, aTotal, aLeft, pollVars,
                 apiVars, sboxVars, history>>

\* With no active sandbox the cycle succeeds without a wait.
AudioSignalled ==
  /\ apc = "signal" /\ aLeft = 0
  /\ apc' = IF aTotal = 0 THEN "outputs" ELSE "wait"
  /\ UNCHANGED <<platform, budget, shmVars, msgVars, modelVars, aTotal, aLeft, pollVars,
                 apiVars, sboxVars, history>>

AudioWake ==
  /\ apc = "wait" /\ done > 0
  /\ IF Semaphore
     THEN apc' = "check" /\ done' = done - 1
     ELSE apc' = "reset" /\ UNCHANGED done
  /\ UNCHANGED <<platform, budget, counter, work, groupName, sboxName, msgVars, modelVars,
                 aTotal, aLeft, pollVars, apiVars, sboxVars, history>>

\* Linux: FUTEX_WAIT puts the thread to sleep if the word is still 0.
AudioFutexWait ==
  /\ apc = "wait" /\ Futex /\ done = 0
  /\ apc' = "asleep"
  /\ UNCHANGED <<platform, budget, shmVars, msgVars, modelVars, aTotal, aLeft, pollVars,
                 apiVars, sboxVars, history>>

\* ...and returns EINTR when a signal arrives; the result of the system call is
\* not looked at.
AudioInterrupted ==
  /\ apc = "asleep"
  /\ Use("interrupt")
  /\ apc' = "reset"
  /\ UNCHANGED <<platform, budget, shmVars, msgVars, modelVars, aTotal, aLeft, pollVars,
                 apiVars, sboxVars, served, unblocked>>

AudioReset ==
  /\ apc = "reset"
  /\ apc' = "check"
  /\ done' = 0
  /\ UNCHANGED <<platform, budget, counter, work, groupName, sboxName, msgVars, modelVars,
                 aTotal, aLeft, pollVars, apiVars, sboxVars, history>>

\* "zeros": not_responding, the outputs are zeroed; "outputs": done, the
\* outputs of the devices are read.
AudioCheck ==
  /\ apc = "check"
  /\ apc' = IF counter > 0 THEN "zeros" ELSE "outputs"
  /\ UNCHANGED <<platform, budget, shmVars, msgVars, modelVars, aTotal, aLeft, pollVars,
                 apiVars, sboxVars, history>>

AudioReturn ==
  /\ apc \in {"zeros", "outputs"}
  /\ apc' = "idle"
  /\ UNCHANGED <<platform, budget, shmVars, msgVars, modelVars, aTotal, aLeft, pollVars,
                 apiVars, sboxVars, history>>

Audio ==
  \/ AudioBegin \/ AudioStore \/ AudioSignal \/ AudioFutexWake \/ AudioSignalled
  \/ AudioWake \/ AudioFutexWait \/ AudioReset \/ AudioCheck \/ AudioReturn

-----------------------------------------------------------------------------
(* The audio thread of a sandbox process: thread_proc.                     *)

ThreadTop(s) ==
  /\ tpc[s] = "top"
  /\ tpc' = [tpc EXCEPT ![s] = IF stop[s] THEN "exited" ELSE "wait"]
  /\ UNCHANGED <<platform, budget, shmVars, msgVars, modelVars, audioVars, pollVars, apiVars,
                 proc, mpc, unsent, stop, history>>

ThreadWake(s) ==
  /\ tpc[s] = "wait" /\ work[s] > 0
  /\ IF Semaphore
     THEN /\ tpc'  = [tpc EXCEPT ![s] = "check"]
          /\ work' = [work EXCEPT ![s] = @ - 1]
     ELSE /\ tpc'  = [tpc EXCEPT ![s] = "reset"]
          /\ UNCHANGED work
  /\ UNCHANGED <<platform, budget, counter, done, groupName, sboxName, msgVars, modelVars,
                 audioVars, pollVars, apiVars, proc, mpc, unsent, stop, history>>

ThreadFutexWait(s) ==
  /\ tpc[s] = "wait" /\ Futex /\ work[s] = 0
  /\ tpc' = [tpc EXCEPT ![s] = "asleep"]
  /\ UNCHANGED <<platform, budget, shmVars, msgVars, modelVars, audioVars, pollVars, apiVars,
                 proc, mpc, unsent, stop, history>>

ThreadInterrupted(s) ==
  /\ tpc[s] = "asleep"
  /\ Use("interrupt")
  /\ tpc' = [tpc EXCEPT ![s] = "reset"]
  /\ UNCHANGED <<platform, budget, shmVars, msgVars, modelVars, audioVars, pollVars, apiVars,
                 proc, mpc, unsent, stop, served, unblocked>>

\* Mutant: the event is not reset after the wait.
ThreadResetForgotten(s) ==
  /\ tpc[s] = "reset"
  /\ tpc'  = [tpc EXCEPT ![s] = "check"]
  /\ UNCHANGED <<platform, budget, shmVars, msgVars, modelVars, audioVars, pollVars, apiVars,
                 proc, mpc, unsent, stop, history>>

ThreadReset(s) ==
  /\ tpc[s] = "reset"
  /\ tpc'  = [tpc EXCEPT ![s] = "check"]
  /\ work' = [work EXCEPT ![s] = 0]
  /\ UNCHANGED <<platform, budget, counter, done, groupName, sboxName, msgVars, modelVars,
                 audioVars, pollVars, apiVars, proc, mpc, unsent, stop, history>>

ThreadCheck(s) ==
  /\ tpc[s] = "check"
  /\ tpc' = [tpc EXCEPT ![s] = IF stop[s] THEN "exited" ELSE "process"]
  /\ UNCHANGED <<platform, budget, shmVars, msgVars, modelVars, audioVars, pollVars, apiVars,
                 proc, mpc, unsent, stop, history>>

\* fetch_sub on an unsigned counter
Decrement(n) == IF n = 0 THEN CounterMod - 1 ELSE n - 1

\* Mutant: every sandbox sets the event, not only the last one.
ThreadFinishAlwaysSignals(s) ==
  /\ tpc[s] = "process"
  /\ counter' = Decrement(counter)
  /\ tpc' = [tpc EXCEPT ![s] = "signal"]
  /\ served' = [served EXCEPT ![s] = IF @ < 2 THEN @ + 1 ELSE @]
  /\ UNCHANGED <<platform, budget, done, work, groupName, sboxName, msgVars, modelVars,
                 audioVars, pollVars, apiVars, proc, mpc, unsent, stop, unblocked, uses>>

\* The end of do_processing: notify_sandbox_done takes 1 from the counter.
ThreadFinish(s) ==
  /\ tpc[s] = "process"
  /\ counter' = Decrement(counter)
  /\ tpc' = [tpc EXCEPT ![s] = IF counter = 1 THEN "signal" ELSE "top"]
  /\ served' = [served EXCEPT ![s] = IF @ < 2 THEN @ + 1 ELSE @]
  /\ UNCHANGED <<platform, budget, done, work, groupName, sboxName, msgVars, modelVars,
                 audioVars, pollVars, apiVars, proc, mpc, unsent, stop, unblocked, uses>>

ThreadSignal(s) ==
  /\ tpc[s] = "signal"
  /\ done' = Set(done)
  /\ tpc' = [tpc EXCEPT ![s] = AfterSet("top")]
  /\ UNCHANGED <<platform, budget, counter, work, groupName, sboxName, msgVars, modelVars,
                 audioVars, pollVars, apiVars, proc, mpc, unsent, stop, history>>

ThreadFutexWake(s) ==
  /\ tpc[s] = "futexWake"
  /\ tpc' = [tpc EXCEPT ![s] = "top"]
  /\ apc' = Woken(apc)
  /\ UNCHANGED <<platform, budget, shmVars, msgVars, modelVars, aTotal, aLeft, pollVars, apiVars,
                 proc, mpc, unsent, stop, history>>

Thread(s) ==
  \/ ThreadTop(s) \/ ThreadWake(s) \/ ThreadFutexWait(s) \/ ThreadReset(s)
  \/ ThreadCheck(s) \/ ThreadFinish(s) \/ ThreadSignal(s) \/ ThreadFutexWake(s)

-----------------------------------------------------------------------------
(* The main thread of a sandbox process, and its life.                     *)

\* open_group and open_sandbox.  On macOS, opening a semaphore unlinks its
\* name, and opening an unlinked one fails: the process exits.
SboxOpen(s) ==
  /\ proc[s] = "starting"
  /\ IF ~Semaphore
     THEN /\ proc' = [proc EXCEPT ![s] = "running"]
          /\ UNCHANGED <<groupName, sboxName>>
     ELSE /\ proc' = [proc EXCEPT ![s] =
                        IF groupName /\ sboxName[s] THEN "running" ELSE "dead"]
          /\ groupName' = FALSE
          /\ sboxName' = [sboxName EXCEPT ![s] = @ /\ ~groupName]
  /\ UNCHANGED <<platform, budget, counter, done, work, msgVars, modelVars, audioVars,
                 pollVars, apiVars, mpc, unsent, tpc, stop, history>>

InFrame(s) == proc[s] = "running" /\ mpc[s] = "frame"

Receive(s, msg) ==
  /\ InFrame(s)
  /\ inbox[s] # <<>> /\ Head(inbox[s]) = msg
  /\ inbox' = [inbox EXCEPT ![s] = Tail(@)]

\* start_audio does nothing when there is a thread to join.
SboxActivate(s) ==
  /\ Receive(s, "activate")
  /\ IF tpc[s] = "none"
     THEN /\ tpc'  = [tpc EXCEPT ![s] = "top"]
          /\ stop' = [stop EXCEPT ![s] = FALSE]
     ELSE UNCHANGED <<tpc, stop>>
  /\ unsent' = [unsent EXCEPT ![s] = @ + 1]
  /\ UNCHANGED <<platform, budget, shmVars, outbox, modelVars, audioVars, pollVars, apiVars,
                 proc, mpc, history>>

\* stop_audio requests the stop, sets the event and joins the thread.
SboxDeactivate(s) ==
  /\ Receive(s, "deactivate")
  /\ IF tpc[s] # "none"
     THEN /\ stop' = [stop EXCEPT ![s] = TRUE]
          /\ mpc'  = [mpc EXCEPT ![s] = "unblock"]
     ELSE UNCHANGED <<stop, mpc>>
  /\ UNCHANGED <<platform, budget, shmVars, outbox, modelVars, audioVars, pollVars, apiVars,
                 proc, unsent, tpc, history>>

\* Mutant: the thread is joined without setting the event it waits for.
SboxUnblockForgotten(s) ==
  /\ mpc[s] = "unblock"
  /\ mpc'  = [mpc EXCEPT ![s] = "join"]
  /\ UNCHANGED <<platform, budget, shmVars, msgVars, modelVars, audioVars, pollVars, apiVars,
                 proc, unsent, tpc, stop, history>>

SboxUnblock(s) ==
  /\ mpc[s] = "unblock"
  /\ mpc'  = [mpc EXCEPT ![s] = AfterSet("join")]
  /\ work' = [work EXCEPT ![s] = Set(@)]
  /\ UNCHANGED <<platform, budget, counter, done, groupName, sboxName, msgVars, modelVars,
                 audioVars, pollVars, apiVars, proc, unsent, tpc, stop, history>>

SboxFutexWake(s) ==
  /\ mpc[s] = "futexWake"
  /\ mpc' = [mpc EXCEPT ![s] = "join"]
  /\ tpc' = [tpc EXCEPT ![s] = Woken(@)]
  /\ UNCHANGED <<platform, budget, shmVars, msgVars, modelVars, audioVars, pollVars, apiVars,
                 proc, unsent, stop, history>>

SboxJoin(s) ==
  /\ mpc[s] = "join" /\ tpc[s] = "exited"
  /\ mpc' = [mpc EXCEPT ![s] = "frame"]
  /\ tpc' = [tpc EXCEPT ![s] = "none"]
  /\ UNCHANGED <<platform, budget, shmVars, msgVars, modelVars, audioVars, pollVars, apiVars,
                 proc, unsent, stop, history>>

\* Confirmations reach the stream in a later frame than the one that made them.
SboxSend(s) ==
  /\ InFrame(s) /\ unsent[s] > 0
  /\ outbox' = [outbox EXCEPT ![s] = @ + unsent[s]]
  /\ unsent' = [unsent EXCEPT ![s] = 0]
  /\ UNCHANGED <<platform, budget, shmVars, inbox, modelVars, audioVars, pollVars, apiVars,
                 proc, mpc, tpc, stop, history>>

Sbox(s) ==
  \/ SboxOpen(s) \/ SboxActivate(s) \/ SboxDeactivate(s)
  \/ SboxUnblock(s) \/ SboxFutexWake(s) \/ SboxJoin(s) \/ SboxSend(s)

\* The process ends, whatever it was doing: its threads and the messages it had
\* not written are gone, and what is in shared memory stays as it is.
Die(s) ==
  /\ proc'   = [proc EXCEPT ![s] = "dead"]
  /\ mpc'    = [mpc EXCEPT ![s] = "frame"]
  /\ unsent' = [unsent EXCEPT ![s] = 0]
  /\ tpc'    = [tpc EXCEPT ![s] = "none"]
  /\ stop'   = [stop EXCEPT ![s] = FALSE]

Crash(s) ==
  /\ Running(s)
  /\ Use("crash")
  /\ Die(s)
  /\ UNCHANGED <<platform, budget, shmVars, msgVars, modelVars, audioVars, pollVars, apiVars,
                 served, unblocked>>

-----------------------------------------------------------------------------
(* The client's poll thread: process_sandbox_messages.                     *)

\* The loop runs over a snapshot of the table of sandboxes.
PollBegin ==
  /\ ppc = "idle"
  /\ ppc' = "scan"
  /\ snap' = [s \in Sandboxes |-> Flags(s)]
  /\ todo' = Sandboxes
  /\ UNCHANGED <<platform, budget, shmVars, msgVars, modelVars, audioVars, apiVars, sboxVars,
                 history, current, received>>

\* Mutant: the number of active sandboxes is not counted again.
PollFindsDeadUncounted(s) ==
  /\ ppc = "scan" /\ s \in todo
  /\ snap[s].launched /\ ~Running(s)
  /\ launched' = [launched EXCEPT ![s] = FALSE]
  /\ confirmed' = [confirmed EXCEPT ![s] = snap[s].confirmed]
  /\ published' = total
  /\ ppc' = "unblock"
  /\ todo' = todo \ {s}
  /\ UNCHANGED <<platform, budget, shmVars, msgVars, audioVars, apiVars, sboxVars, history,
                 total, snap, current, received>>

\* The sandbox of the snapshot, not the one in the table, goes back into it.
PollFindsDead(s) ==
  /\ ppc = "scan" /\ s \in todo
  /\ snap[s].launched /\ ~Running(s)
  /\ PublishFlags(s, FALSE, snap[s].confirmed)
  /\ ppc' = "unblock"
  /\ todo' = todo \ {s}
  /\ UNCHANGED <<platform, budget, shmVars, msgVars, audioVars, apiVars, sboxVars, history,
                 snap, current, received>>

\* Mutant: the crash is published, and the audio thread is left to wait.
PollUnblocksForgotten ==
  /\ ppc = "unblock"
  /\ ppc' = "scan"
  /\ unblocked' = TRUE
  /\ UNCHANGED <<platform, budget, shmVars, msgVars, modelVars, audioVars, apiVars, sboxVars,
                 served, uses, snap, todo, current, received>>

PollUnblocks ==
  /\ ppc = "unblock"
  /\ ppc' = AfterSet("scan")
  /\ done' = Set(done)
  /\ unblocked' = TRUE
  /\ UNCHANGED <<platform, budget, counter, work, groupName, sboxName, msgVars, modelVars,
                 audioVars, apiVars, sboxVars, served, uses, snap, todo, current,
                 received>>

PollFutexWake ==
  /\ ppc = "futexWake"
  /\ ppc' = "scan"
  /\ apc' = Woken(apc)
  /\ UNCHANGED <<platform, budget, shmVars, msgVars, modelVars, aTotal, aLeft, apiVars, sboxVars,
                 history, snap, todo, current, received>>

PollReceives(s) ==
  /\ ppc = "scan" /\ s \in todo
  /\ ~(snap[s].launched /\ ~Running(s))
  /\ ppc' = IF outbox[s] > 0 THEN "handle" ELSE "scan"
  /\ current' = s
  /\ received' = outbox[s]
  /\ outbox' = [outbox EXCEPT ![s] = 0]
  /\ todo' = todo \ {s}
  /\ UNCHANGED <<platform, budget, shmVars, inbox, modelVars, audioVars, apiVars, sboxVars,
                 history, snap>>

\* msg_from_sandbox_(confirm_activated)
PollConfirms ==
  /\ ppc = "handle"
  /\ PublishFlags(current, snap[current].launched, TRUE)
  /\ received' = received - 1
  /\ ppc' = IF received = 1 THEN "scan" ELSE "handle"
  /\ UNCHANGED <<platform, budget, shmVars, msgVars, audioVars, apiVars, sboxVars, history,
                 snap, todo, current>>

PollEnd ==
  /\ ppc = "scan" /\ todo = {}
  /\ ppc' = "idle"
  /\ UNCHANGED <<platform, budget, shmVars, msgVars, modelVars, audioVars, apiVars, sboxVars,
                 history, snap, todo, current, received>>

Poll ==
  \/ PollBegin \/ PollUnblocks \/ PollFutexWake \/ PollConfirms \/ PollEnd
  \/ \E s \in Sandboxes : PollFindsDead(s) \/ PollReceives(s)

-----------------------------------------------------------------------------
(* API calls.                                                              *)

\* activate and deactivate enqueue a message for every sandbox of the group;
\* neither touches the flags of the sandboxes or their number.
Activate ==
  /\ Use("activate")
  /\ inbox' = [s \in Sandboxes |-> Append(inbox[s], "activate")]
  /\ UNCHANGED <<platform, budget, shmVars, outbox, modelVars, audioVars, pollVars, apiVars,
                 sboxVars, served, unblocked>>

Deactivate ==
  /\ Use("deactivate")
  /\ inbox' = [s \in Sandboxes |-> Append(inbox[s], "deactivate")]
  /\ UNCHANGED <<platform, budget, shmVars, outbox, modelVars, audioVars, pollVars, apiVars,
                 sboxVars, served, unblocked>>

\* restart reads the sandbox, terminates its process if there is one...
RestartBegin(s) ==
  /\ ipc = "idle"
  /\ Use(IF launched[s] THEN "eagerRestart" ELSE "restart")
  /\ ipc' = "spawn"
  /\ iSbox' = s
  /\ iFlags' = Flags(s)
  /\ Die(s)
  /\ UNCHANGED <<platform, budget, shmVars, msgVars, modelVars, audioVars, pollVars, iTotal,
                 served, unblocked>>

\* ...starts another one and enqueues an activate message for it...
RestartSpawn ==
  /\ ipc = "spawn"
  /\ ipc' = "insert"
  /\ proc' = [proc EXCEPT ![iSbox] = "starting"]
  /\ inbox' = [inbox EXCEPT ![iSbox] = Append(@, "activate")]
  /\ UNCHANGED <<platform, budget, shmVars, outbox, modelVars, audioVars, pollVars, iSbox,
                 iFlags, iTotal, mpc, unsent, tpc, stop, history>>

\* ...and puts the sandbox it read back into the table, as launched.
RestartInsert ==
  /\ ipc = "insert"
  /\ ipc' = "idle"
  /\ launched'  = [launched EXCEPT ![iSbox] = TRUE]
  /\ confirmed' = [confirmed EXCEPT ![iSbox] = iFlags.confirmed]
  /\ UNCHANGED <<platform, budget, shmVars, msgVars, total, published, audioVars, pollVars,
                 iSbox, iFlags, iTotal, sboxVars, history>>

\* set_render_mode reads the group and puts its copy back into the table.
RenderModeBegin ==
  /\ ipc = "idle"
  /\ Use("renderMode")
  /\ ipc' = "group"
  /\ iTotal' = total
  /\ UNCHANGED <<platform, budget, shmVars, msgVars, modelVars, audioVars, pollVars, iSbox,
                 iFlags, sboxVars, served, unblocked>>

RenderModeInsert ==
  /\ ipc = "group"
  /\ ipc' = "idle"
  /\ total' = iTotal
  /\ UNCHANGED <<platform, budget, shmVars, msgVars, launched, confirmed, published, audioVars,
                 pollVars, iSbox, iFlags, iTotal, sboxVars, history>>

\* Any call that publishes the model publishes the group with it.
Publish ==
  /\ published # total
  /\ published' = total
  /\ UNCHANGED <<platform, budget, shmVars, msgVars, launched, confirmed, total, audioVars,
                 pollVars, apiVars, sboxVars, history>>

ApiSteps == RestartSpawn \/ RestartInsert \/ RenderModeInsert

Api ==
  \/ Activate \/ Deactivate \/ RenderModeBegin \/ Publish \/ ApiSteps
  \/ \E s \in Sandboxes : RestartBegin(s)

-----------------------------------------------------------------------------
(* create_sandbox has launched every sandbox; none is active yet.          *)

Init ==
  /\ platform \in Platforms /\ budget \in Budgets
  /\ counter = 0 /\ done = 0
  /\ work = [s \in Sandboxes |-> 0]
  /\ groupName = TRUE
  /\ sboxName = [s \in Sandboxes |-> TRUE]
  /\ inbox = [s \in Sandboxes |-> <<>>]
  /\ outbox = [s \in Sandboxes |-> 0]
  /\ launched = [s \in Sandboxes |-> TRUE]
  /\ confirmed = [s \in Sandboxes |-> FALSE]
  /\ total = 0 /\ published = 0
  /\ apc = "idle" /\ aTotal = 0 /\ aLeft = 0
  /\ ppc = "idle" /\ todo = {} /\ current = First /\ received = 0
  /\ snap = [s \in Sandboxes |-> Flags(s)]
  /\ ipc = "idle" /\ iSbox = First /\ iFlags = Flags(First) /\ iTotal = 0
  /\ proc = [s \in Sandboxes |-> "starting"]
  /\ mpc = [s \in Sandboxes |-> "frame"]
  /\ unsent = [s \in Sandboxes |-> 0]
  /\ tpc = [s \in Sandboxes |-> "none"]
  /\ stop = [s \in Sandboxes |-> FALSE]
  /\ served = [s \in Sandboxes |-> 0]
  /\ unblocked = FALSE
  /\ uses = [kind \in Kinds |-> 0]

Next ==
  \/ Audio \/ AudioInterrupted \/ Poll \/ Api
  \/ \E s \in Sandboxes :
       Thread(s) \/ ThreadInterrupted(s) \/ Sbox(s) \/ Crash(s)

Spec == Init /\ [][Next]_vars

\* Every thread that can take a step takes one: the host keeps calling
\* audio_process, the poll loop never ends, and an API call that has begun
\* ends.  Faults and new API calls need not happen.
Fairness ==
  /\ WF_vars(Audio) /\ WF_vars(Poll) /\ WF_vars(ApiSteps)
  /\ \A s \in Sandboxes : WF_vars(Thread(s)) /\ WF_vars(Sbox(s))

LiveSpec == Spec /\ Fairness

-----------------------------------------------------------------------------
(* Properties.                                                             *)

TypeShm ==
  /\ platform \in Platforms /\ budget \in Budgets
  /\ counter \in 0 .. CounterMod - 1
  /\ done \in Nat
  /\ work \in [Sandboxes -> Nat]
  /\ groupName \in BOOLEAN
  /\ sboxName \in [Sandboxes -> BOOLEAN]

TypeMsg ==
  /\ inbox \in [Sandboxes -> Seq({"activate", "deactivate"})]
  /\ outbox \in [Sandboxes -> Nat]

TypeModel ==
  /\ launched \in [Sandboxes -> BOOLEAN]
  /\ confirmed \in [Sandboxes -> BOOLEAN]
  /\ total \in 0 .. N
  /\ published \in 0 .. N

TypeAudio ==
  /\ apc \in {"idle", "store", "signal", "futexWake", "wait", "asleep", "reset",
              "check", "zeros", "outputs"}
  /\ aTotal \in 0 .. N
  /\ aLeft \in 0 .. N

TypePoll ==
  /\ ppc \in {"idle", "scan", "unblock", "futexWake", "handle"}
  /\ snap \in [Sandboxes -> [launched : BOOLEAN, confirmed : BOOLEAN]]
  /\ todo \subseteq Sandboxes
  /\ current \in Sandboxes
  /\ received \in Nat
  /\ ppc = "handle" => received > 0

TypeApi ==
  /\ ipc \in {"idle", "spawn", "insert", "group"}
  /\ iSbox \in Sandboxes
  /\ iFlags \in [launched : BOOLEAN, confirmed : BOOLEAN]
  /\ iTotal \in 0 .. N

TypeSbox ==
  /\ proc \in [Sandboxes -> {"starting", "running", "dead"}]
  /\ mpc \in [Sandboxes -> {"frame", "unblock", "futexWake", "join"}]
  /\ unsent \in [Sandboxes -> Nat]
  /\ tpc \in [Sandboxes -> {"none", "top", "wait", "asleep", "reset", "check",
                            "process", "signal", "futexWake", "exited"}]
  /\ stop \in [Sandboxes -> BOOLEAN]

TypeHistory ==
  /\ served \in [Sandboxes -> 0 .. 2]
  /\ unblocked \in BOOLEAN
  /\ uses \in [Kinds -> Nat]

\* Every variable has its type: the copies of the number of active sandboxes
\* never exceed the size of the group, the counter is an unsigned number of its
\* width, and the poll thread has a message when it handles one.
TypeOK ==
  /\ TypeShm /\ TypeMsg /\ TypeModel /\ TypeAudio
  /\ TypePoll /\ TypeApi /\ TypeSbox /\ TypeHistory

\* Nothing but the end of the processing has set an event, and nothing but an
\* event has ended a wait: on Linux a wake that comes late does.
Undisturbed == ~unblocked /\ uses["deactivate"] = 0 /\ ~Futex

Alive == {s \in Sandboxes : Running(s)}

\* s has taken its signal and has not finished notifying.
Busy(s) == tpc[s] \in {"reset", "check", "process", "signal"}

\* On Windows and macOS, until the client has unblocked itself or a sandbox has
\* been told to stop, a cycle that ends with `done` leaves no sandbox at
\* work and no event set: the outputs that audio_process then reads are not
\* being written (wait_for_all_sandboxes_done, notify_sandbox_done).
DoneMeansQuiet ==
  Undisturbed /\ apc = "outputs" =>
    done = 0 /\ \A s \in Sandboxes : work[s] = 0 /\ ~Busy(s)

\* ...the unsigned counter has not wrapped: no sandbox notifies more often than
\* the client has counted it (fetch_sub in notify_sandbox_done)...
NeverOvernotified == Undisturbed => counter <= aTotal

\* ...and no cycle is given up: not_responding, and zeroed outputs, come only
\* from a crash that was noticed or a stop.
SilenceOnlyAfterAbort == Undisturbed => apc # "zeros"

\* The signals given to First that are not answered by a decrement yet, and the
\* done events that are set or about to be.
Unanswered == work[First] + (IF tpc[First] \in {"check", "process"} THEN 1 ELSE 0)
Answers    == done + (IF tpc[First] = "signal" THEN 1 ELSE 0)

\* No sandbox has been told to stop, and those that the iterator never reaches
\* do nothing.
Calm ==
  \A s \in Sandboxes :
    /\ ~stop[s] /\ mpc[s] = "frame" /\ tpc[s] \notin {"asleep", "futexWake"}
    /\ inbox[s] \in Seq({"activate"})
    /\ s # First => work[s] = 0 /\ ~Busy(s)

\* The counter covers every signal that is still to be given or answered, and
\* at most one done event exists, once the counter is down to 0.
Accounted ==
  /\ apc \notin {"zeros", "asleep", "futexWake"}
  /\ apc # "signal" => aLeft = 0
  /\ aLeft + Unanswered <= counter
  /\ counter <= aTotal
  /\ tpc[First] = "reset" => ~Semaphore /\ work[First] > 0
  /\ Answers <= 1
  /\ Answers = 1 => counter = 0 /\ aTotal > 0 /\ apc \in {"signal", "wait", "reset"}
  /\ apc = "reset" => ~Semaphore /\ done = 1
  /\ apc \in {"idle", "store", "check", "outputs"} => counter = 0

\* The three invariants above, in the form that every step preserves: the
\* counter of group_shm_data, the events and the positions of the threads agree
\* at every point of a cycle, not only when it ends.
CycleAccounted == Undisturbed => Calm /\ Accounted

\* A cycle that counts every sandbox of the group as active and ends with
\* `done` has had each of them process once (the comment of
\* sandboxes_work_begin, "Signal all sandboxes in the group to begin
\* processing").
EverySandboxServed ==
  Undisturbed /\ apc = "outputs" /\ aTotal = N =>
    \A s \in Sandboxes : served[s] = 1

\* The result `done` of wait_for_all_sandboxes_done, "Wait for all sandboxes in
\* the group to finish processing", whatever happened before.
DoneMeansFinished ==
  apc = "outputs" /\ aTotal > 0 => \A s \in Sandboxes : tpc[s] # "process"

\* audio_process returns, although it waits with no timeout: when the sandbox
\* it waits for dies, the poll thread ends the wait (unblock_self).
CycleReturns == (apc # "idle") ~> (apc = "idle")

\* ...unless a sandbox was told to stop or an old number of active sandboxes was
\* put back: then the host may wait for one that is not there.
Meddled == uses["deactivate"] > 0 \/ uses["renderMode"] > 0
CycleReturnsUnlessMeddled == (apc # "idle") ~> (apc = "idle" \/ Meddled)

\* stop_audio returns: the audio thread that it joins sees the request although
\* the event may be set, reset or taken by others at any point in between.
StopReturns ==
  \A s \in Sandboxes : (mpc[s] # "frame") ~> (mpc[s] = "frame")

\* The audio thread does not go on counting dead processes: the number it reads
\* comes down to the running ones (process_sandbox_messages).
DeadAreUncounted ==
  (published > Cardinality(Alive)) ~> (published <= Cardinality(Alive) \/ Meddled)

=============================================================================
