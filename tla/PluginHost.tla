----------------------------- MODULE PluginHost -----------------------------
(***************************************************************************)
(* One CLAP plugin in a sandbox process, between the two threads that call *)
(* it (sbox/src/clap.hpp, op.hpp, audio.hpp, main.cpp).                    *)
(*                                                                         *)
(* The main thread runs frames: it handles messages of the client, among   *)
(* them activate and deactivate; it flushes the events of a plugin that is *)
(* not active (clap::update); and it saves the plugin when it is dirty     *)
(* (autosave).  The audio thread runs a cycle whenever the host signals    *)
(* it: it works on the model as published when the cycle began, wakes the  *)
(* plugin up if that was asked for, lets it process or flushes its events, *)
(* and puts it to sleep when it says so.  They share the atomic flags of   *)
(* the device, the events in shared memory, and the dirty marker.          *)
(*                                                                         *)
(* The plugin is external: here it is what CLAP lets a host assume, one of *)
(* "inactive", "active" (activate has been called) and "processing"        *)
(* (start_processing has), and its answers are arbitrary.                  *)
(*                                                                         *)
(* Abstractions: an event is a change of a parameter, an "edit"; audio and *)
(* other events are left out, and so are windows, parameter rescans, the   *)
(* state a client loads, and flags that are set but never read.            *)
(***************************************************************************)
EXTENDS Integers, FiniteSets

CONSTANTS
  HostEdits,     \* edits that the host sends
  OwnEdits,      \* edits that the user or the plugin makes
  Rates,         \* sample rates
  MaxActivates,  \* bounds: how often each of these happens
  MaxDeactivates,
  MaxRequests,   \* request_process, or a panic
  MaxFailures    \* the plugin refuses to activate, start or save

ASSUME EditsAssumption ==
  /\ IsFiniteSet(HostEdits) /\ IsFiniteSet(OwnEdits)
  /\ HostEdits \cap OwnEdits = {}
ASSUME RatesAssumption == Rates # {} /\ 0 \notin Rates
ASSUME BoundsAssumption ==
  /\ MaxActivates \in Nat /\ MaxDeactivates \in Nat /\ MaxRequests \in Nat
  /\ MaxFailures \in Nat

VARIABLES
  ports,       \* "audio", "noChannels" or "events": what the plugin has
  plugin,      \* the plugin, as the calls made so far leave it
  \* the model, published
  active,      \* clap::device_flags::active
  rate,        \* device.sample_rate
  \* device_atomic_flags
  processing, scheduleProcess, schedulePanic,
  \* main thread
  mpc, mRate,
  mDirty,      \* autosave: the dirty marker it has read
  \* audio thread
  apc,         \* where it is; it is in a cycle of this device if it found it active
  stop,        \* stop_requested
  \* edits and autosave
  stage,       \* [e] where the edit is
  dirty, marker,
  saved,       \* the edits in the state that was autosaved last
  \* history
  disturbed,   \* the plugin was deactivated under a cycle, or while processing
  raced,       \* it was saved while edits already counted were not yet in it
  uses

modelVars  == <<active, rate>>
flagVars   == <<processing, scheduleProcess, schedulePanic>>
mainVars   == <<mpc, mRate, mDirty>>
audioVars  == <<apc, stop>>
editVars   == <<stage, dirty, marker, saved>>
history    == <<disturbed, raced, uses>>
vars == <<ports, plugin, modelVars, flagVars, mainVars, audioVars, editVars, history>>

Edits == HostEdits \cup OwnEdits

Kinds == {"activate", "deactivate", "request", "failure"}
Bound(kind) ==
  CASE kind = "activate"   -> MaxActivates
    [] kind = "deactivate" -> MaxDeactivates
    [] kind = "request"    -> MaxRequests
    [] kind = "failure"    -> MaxFailures
Use(kind) ==
  /\ uses[kind] < Bound(kind)
  /\ uses' = [uses EXCEPT ![kind] = @ + 1]

-----------------------------------------------------------------------------
(* Edits.  One of the host is queued by the main thread (a message), or    *)
(* put into the input port in shared memory by the host's audio thread;    *)
(* from the queue it goes to the port, from there into the plugin's input  *)
(* buffer, and with the next process or flush into the plugin.  One of the *)
(* plugin is in its state at once, comes out with the next process or      *)
(* flush, and is counted when the output is converted.                     *)

Stages == {"none", "queued", "port", "buffer", "own", "out", "applied", "lost"}

At(place) == {e \in Edits : stage[e] = place}

\* What the state of the plugin contains.
InState == {e \in Edits : stage[e] \in {"own", "out", "applied"}}

Moved(from, to) == [e \in Edits |-> IF stage[e] = from THEN to ELSE stage[e]]

\* Mutant: the port is not cleared.
ConvertInputAgain ==
  /\ stage' = stage
  /\ dirty' = dirty + Cardinality(At("port"))
  /\ UNCHANGED <<marker, saved>>

\* convert_input_events, up to the clearing of the port: each edit that goes
\* into the buffer is counted.
ConvertInput ==
  /\ stage' = Moved("port", "buffer")
  /\ dirty' = dirty + Cardinality(At("port"))
  /\ UNCHANGED <<marker, saved>>

\* The plugin takes its input, and gives out what it has not reported yet.
PluginTakesEvents ==
  /\ stage' = [e \in Edits |-> CASE stage[e] = "buffer" -> "applied"
                                 [] stage[e] = "own"    -> "out"
                                 [] OTHER               -> stage[e]]
  /\ UNCHANGED <<dirty, marker, saved>>

\* convert_output_events
ConvertOutput ==
  /\ stage' = Moved("out", "applied")
  /\ dirty' = dirty + Cardinality(At("out"))
  /\ UNCHANGED <<marker, saved>>

-----------------------------------------------------------------------------
(* The main thread.                                                        *)

InCycle == apc \notin {"none", "wait", "exited"}

\* start_audio does nothing if there is a thread already.  A device that is
\* active with that sample rate is left alone.
Activate(sr) ==
  /\ mpc = "messages"
  /\ Use("activate")
  /\ apc' = IF apc = "none" THEN "wait" ELSE apc
  /\ stop' = IF apc = "none" THEN FALSE ELSE stop
  /\ IF active /\ rate = sr
     THEN UNCHANGED <<mpc, mRate>>
     ELSE /\ mpc' = IF active THEN "reactivate" ELSE "activate"
          /\ mRate' = sr
  /\ UNCHANGED <<ports, plugin, modelVars, flagVars, mDirty, editVars,
                 disturbed, raced>>

\* The plugin is deactivated to change the rate; the audio thread goes on.
Reactivate ==
  /\ mpc = "reactivate"
  /\ mpc' = "activate"
  /\ plugin' = "inactive"
  /\ disturbed' = TRUE
  /\ UNCHANGED <<ports, modelVars, flagVars, mRate, mDirty, audioVars, editVars, raced, uses>>

ActivatePlugin ==
  /\ mpc = "activate"
  /\ plugin' = "active"
  /\ active' = TRUE
  /\ rate' = mRate
  /\ mpc' = "schedule"
  /\ mRate' = 0
  /\ UNCHANGED <<ports, flagVars, mDirty, audioVars, editVars, history>>

\* Nothing is published: a device that was active is still said to be.
ActivateFails ==
  /\ mpc = "activate"
  /\ Use("failure")
  /\ mpc' = "messages"
  /\ mRate' = 0
  /\ UNCHANGED <<ports, plugin, modelVars, flagVars, mDirty, audioVars,
                 editVars, disturbed, raced>>

\* Mutant: the plugin is not scheduled to process once it is active.
ScheduleForgotten ==
  /\ mpc = "schedule"
  /\ mpc' = "messages"
  /\ UNCHANGED <<ports, plugin, modelVars, flagVars, mRate, mDirty, audioVars, editVars, history>>

Schedule ==
  /\ mpc = "schedule"
  /\ mpc' = "messages"
  /\ scheduleProcess' = TRUE
  /\ UNCHANGED <<ports, plugin, modelVars, processing, schedulePanic, mRate, mDirty,
                 audioVars, editVars, history>>

\* op::deactivate: the devices first, the audio thread afterwards.
Deactivate ==
  /\ mpc = "messages"
  /\ Use("deactivate")
  /\ active' = FALSE
  /\ mpc' = IF active THEN "deactivate" ELSE "stop"
  /\ UNCHANGED <<ports, plugin, rate, flagVars, mRate, mDirty, audioVars, editVars,
                 disturbed, raced>>

DeactivatePlugin ==
  /\ mpc = "deactivate"
  /\ mpc' = "unset"
  /\ plugin' = "inactive"
  /\ disturbed' = (disturbed \/ InCycle)
  /\ UNCHANGED <<ports, modelVars, flagVars, mRate, mDirty, audioVars, editVars, raced, uses>>

\* Mutant: the flag is left as it is.
UnsetProcessingForgotten ==
  /\ mpc = "unset"
  /\ mpc' = "stop"
  /\ UNCHANGED <<ports, plugin, modelVars, flagVars, mRate, mDirty, audioVars, editVars, history>>

UnsetProcessing ==
  /\ mpc = "unset"
  /\ mpc' = "stop"
  /\ processing' = FALSE
  /\ UNCHANGED <<ports, plugin, modelVars, scheduleProcess, schedulePanic, mRate, mDirty,
                 audioVars, editVars, history>>

\* stop_audio requests the stop, unblocks the thread and joins it.
StopAudio ==
  /\ mpc = "stop"
  /\ mpc' = IF apc = "none" THEN "messages" ELSE "join"
  /\ stop' = (apc # "none")
  /\ UNCHANGED <<ports, plugin, modelVars, flagVars, mRate, mDirty, apc, editVars, history>>

\* Mutant: the thread is not joined.
JoinForgotten ==
  /\ mpc = "join"
  /\ mpc' = "messages"
  /\ apc' = IF apc = "exited" THEN "none" ELSE apc
  /\ UNCHANGED <<ports, plugin, modelVars, flagVars, mRate, mDirty, stop,
                 editVars, history>>

Join ==
  /\ mpc = "join" /\ apc = "exited"
  /\ mpc' = "messages"
  /\ apc' = "none" /\ stop' = FALSE
  /\ UNCHANGED <<ports, plugin, modelVars, flagVars, mRate, mDirty, editVars, history>>

SchedulePanic ==
  /\ mpc = "messages"
  /\ Use("request")
  /\ schedulePanic' = TRUE
  /\ UNCHANGED <<ports, plugin, modelVars, processing, scheduleProcess, mainVars,
                 audioVars, editVars, disturbed, raced>>

\* msg::in::event
QueueEdit(e) ==
  /\ mpc = "messages"
  /\ stage[e] = "none"
  /\ stage' = [stage EXCEPT ![e] = "queued"]
  /\ UNCHANGED <<ports, plugin, modelVars, flagVars, mainVars, audioVars, dirty, marker,
                 saved, history>>

\* No more messages: clap::update follows.
MessagesDone ==
  /\ mpc = "messages"
  /\ mpc' = IF active THEN "autosave" ELSE "flush"
  /\ UNCHANGED <<ports, plugin, modelVars, flagVars, mRate, mDirty, audioVars, editVars, history>>

\* flush_device_events of a device that is not active, in four steps: the port
\* is read, and then cleared.
FlushConvert ==
  /\ mpc = "flush"
  /\ mpc' = "flushClear"
  /\ ConvertInput
  /\ UNCHANGED <<ports, plugin, modelVars, flagVars, mRate, mDirty, audioVars, history>>

FlushClear ==
  /\ mpc = "flushClear"
  /\ mpc' = "flushPlugin"
  /\ stage' = Moved("port", "lost")
  /\ UNCHANGED <<ports, plugin, modelVars, flagVars, mRate, mDirty, audioVars, dirty,
                 marker, saved, history>>

FlushPlugin ==
  /\ mpc = "flushPlugin"
  /\ mpc' = "flushOutput"
  /\ PluginTakesEvents
  /\ UNCHANGED <<ports, plugin, modelVars, flagVars, mRate, mDirty, audioVars, history>>

FlushOutput ==
  /\ mpc = "flushOutput"
  /\ mpc' = "autosave"
  /\ ConvertOutput
  /\ UNCHANGED <<ports, plugin, modelVars, flagVars, mRate, mDirty, audioVars, history>>

\* Mutant: off by one in the comparison of the markers.
AutosaveReadOffByOne ==
  /\ mpc = "autosave"
  /\ mDirty' = dirty
  /\ mpc' = IF dirty <= marker + 1 THEN "messages" ELSE "save"
  /\ UNCHANGED <<ports, plugin, modelVars, flagVars, mRate, audioVars, editVars, history>>

\* autosave of this device, when its time has come.
AutosaveRead ==
  /\ mpc = "autosave"
  /\ mDirty' = dirty
  /\ mpc' = IF dirty <= marker THEN "messages" ELSE "save"
  /\ UNCHANGED <<ports, plugin, modelVars, flagVars, mRate, audioVars, editVars, history>>

\* An edit on its way into the plugin was counted when the marker was read.
CountedNotApplied ==
  At("buffer") # {} /\ mDirty > dirty - Cardinality(At("buffer"))

\* Mutant: the marker is read again after the save.
AutosaveRereads ==
  /\ mpc = "save"
  /\ mpc' = "messages"
  /\ saved' = InState
  /\ marker' = dirty
  /\ mDirty' = 0
  /\ raced' = (raced \/ CountedNotApplied)
  /\ UNCHANGED <<ports, plugin, modelVars, flagVars, mRate, audioVars, stage, dirty,
                 disturbed, uses>>

AutosaveSave ==
  /\ mpc = "save"
  /\ mpc' = "messages"
  /\ saved' = InState
  /\ marker' = mDirty
  /\ mDirty' = 0
  /\ raced' = (raced \/ CountedNotApplied)
  /\ UNCHANGED <<ports, plugin, modelVars, flagVars, mRate, audioVars, stage, dirty,
                 disturbed, uses>>

\* The plugin returns no state; the marker stays as it is.
AutosaveFails ==
  /\ mpc = "save"
  /\ Use("failure")
  /\ mpc' = "messages"
  /\ mDirty' = 0
  /\ UNCHANGED <<ports, plugin, modelVars, flagVars, mRate, audioVars, editVars,
                 disturbed, raced>>

MainStep ==
  \/ Reactivate \/ ActivatePlugin \/ Schedule
  \/ DeactivatePlugin \/ UnsetProcessing \/ StopAudio \/ Join
  \/ MessagesDone \/ FlushConvert \/ FlushClear \/ FlushPlugin \/ FlushOutput
  \/ AutosaveRead \/ AutosaveSave

-----------------------------------------------------------------------------
(* The audio thread.                                                       *)

\* A cycle begins: the model published now is the one it works on.  Events from
\* the main thread are transferred whether the device is active or not.
CycleBegin ==
  /\ apc = "wait" /\ ~stop
  /\ apc' = IF active THEN "panic" ELSE "wait"
  /\ stage' = Moved("queued", "port")
  /\ UNCHANGED <<ports, plugin, modelVars, flagVars, mainVars, stop, dirty, marker, saved,
                 history>>

ThreadStops ==
  /\ apc = "wait" /\ stop
  /\ apc' = "exited"
  /\ UNCHANGED <<ports, plugin, modelVars, flagVars, mainVars, stop, editVars, history>>

\* The plugin is reset, if that was asked for.
Panic ==
  /\ apc = "panic"
  /\ schedulePanic' = FALSE
  /\ apc' = IF processing THEN "run" ELSE "convertFirst"
  /\ UNCHANGED <<ports, plugin, modelVars, processing, scheduleProcess, mainVars, stop, editVars, history>>

\* The events are flushed before the plugin is woken up ("...First"), and in
\* every cycle of a plugin that cannot render.
Convert ==
  /\ apc \in {"convertFirst", "convertOnly"}
  /\ apc' = IF apc = "convertFirst" THEN "flushFirst" ELSE "flushOnly"
  /\ ConvertInput
  /\ UNCHANGED <<ports, plugin, modelVars, flagVars, mainVars, stop, history>>

Flush ==
  /\ apc \in {"flushFirst", "flushOnly"}
  /\ apc' = IF apc = "flushFirst" THEN "outputFirst" ELSE "output"
  /\ PluginTakesEvents
  /\ UNCHANGED <<ports, plugin, modelVars, flagVars, mainVars, stop, history>>

OutputFirst ==
  /\ apc = "outputFirst"
  /\ apc' = IF scheduleProcess THEN "unschedule" ELSE "wait"
  /\ ConvertOutput
  /\ UNCHANGED <<ports, plugin, modelVars, flagVars, mainVars, stop, history>>

\* try_to_wake_up, in three steps.
Unschedule ==
  /\ apc = "unschedule"
  /\ apc' = "start"
  /\ scheduleProcess' = FALSE
  /\ UNCHANGED <<ports, plugin, modelVars, processing, schedulePanic, mainVars, stop, editVars, history>>

Start ==
  /\ apc = "start"
  /\ apc' = "setProcessing"
  /\ plugin' = IF plugin = "active" THEN "processing" ELSE plugin
  /\ UNCHANGED <<ports, modelVars, flagVars, mainVars, stop, editVars, history>>

StartFails ==
  /\ apc = "start"
  /\ Use("failure")
  /\ apc' = "wait"
  /\ UNCHANGED <<ports, plugin, modelVars, flagVars, mainVars, stop, editVars,
                 disturbed, raced>>

SetProcessing ==
  /\ apc = "setProcessing"
  /\ apc' = "run"
  /\ processing' = TRUE
  /\ UNCHANGED <<ports, plugin, modelVars, scheduleProcess, schedulePanic, mainVars,
                 stop, editVars, history>>

\* A plugin with audio ports of no channels is only flushed.
Run ==
  /\ apc = "run"
  /\ apc' = IF ports = "noChannels" THEN "convertOnly" ELSE "process"
  /\ IF ports = "noChannels" THEN UNCHANGED editVars ELSE ConvertInput
  /\ UNCHANGED <<ports, plugin, modelVars, flagVars, mainVars, stop, history>>

\* handle_audio_process_result and handle_event_process_result
Sleeps(status) ==
  \/ status = "sleep"
  \/ status = "error" /\ ports = "audio"

Process(status) ==
  /\ apc = "process"
  /\ apc' = IF Sleeps(status) THEN "unsetProcessing" ELSE "output"
  /\ plugin' = IF Sleeps(status) /\ plugin = "processing" THEN "active" ELSE plugin
  /\ PluginTakesEvents
  /\ UNCHANGED <<ports, modelVars, flagVars, mainVars, stop, history>>

\* The end of go_to_sleep.
GoneToSleep ==
  /\ apc = "unsetProcessing"
  /\ apc' = "output"
  /\ processing' = FALSE
  /\ UNCHANGED <<ports, plugin, modelVars, scheduleProcess, schedulePanic, mainVars,
                 stop, editVars, history>>

Output ==
  /\ apc = "output"
  /\ apc' = "wait"
  /\ ConvertOutput
  /\ UNCHANGED <<ports, plugin, modelVars, flagVars, mainVars, stop, history>>

AudioStep ==
  \/ CycleBegin \/ ThreadStops \/ Panic \/ Convert \/ Flush \/ OutputFirst
  \/ Unschedule \/ Start \/ SetProcessing \/ Run \/ GoneToSleep \/ Output
  \/ \E status \in {"continue", "sleep", "error"} : Process(status)

-----------------------------------------------------------------------------
(* The host's audio thread and the plugin itself.                          *)

\* write_input_events: before the sandboxes of the group are signalled, so
\* never while the audio thread of this one is in a cycle.
HostEdit(e) ==
  /\ stage[e] = "none"
  /\ ~InCycle
  /\ stage' = [stage EXCEPT ![e] = "port"]
  /\ UNCHANGED <<ports, plugin, modelVars, flagVars, mainVars, audioVars, dirty, marker,
                 saved, history>>

PluginEdit(e) ==
  /\ stage[e] = "none"
  /\ stage' = [stage EXCEPT ![e] = "own"]
  /\ UNCHANGED <<ports, plugin, modelVars, flagVars, mainVars, audioVars, dirty, marker,
                 saved, history>>

\* mark_dirty, called in the main thread after the state has changed.
MarkDirty(e) ==
  /\ mpc = "messages"
  /\ stage[e] = "none"
  /\ stage' = [stage EXCEPT ![e] = "applied"]
  /\ dirty' = dirty + 1
  /\ UNCHANGED <<ports, plugin, modelVars, flagVars, mainVars, audioVars, marker, saved, history>>

RequestProcess ==
  /\ Use("request")
  /\ scheduleProcess' = TRUE
  /\ UNCHANGED <<ports, plugin, modelVars, processing, schedulePanic, mainVars, audioVars,
                 editVars, disturbed, raced>>

-----------------------------------------------------------------------------
Init ==
  /\ ports \in {"audio", "noChannels", "events"}
  /\ plugin = "inactive"
  /\ active = FALSE /\ rate = 0
  /\ processing = FALSE /\ scheduleProcess = FALSE /\ schedulePanic = FALSE
  /\ mpc = "messages" /\ mRate = 0 /\ mDirty = 0
  /\ apc = "none" /\ stop = FALSE
  /\ stage = [e \in Edits |-> "none"]
  /\ dirty = 0 /\ marker = 0 /\ saved = {}
  /\ disturbed = FALSE /\ raced = FALSE
  /\ uses = [kind \in Kinds |-> 0]

Next ==
  \/ \E sr \in Rates : Activate(sr)
  \/ Deactivate \/ SchedulePanic \/ MainStep \/ ActivateFails \/ AutosaveFails
  \/ AudioStep \/ StartFails \/ RequestProcess
  \/ \E e \in HostEdits : QueueEdit(e) \/ HostEdit(e)
  \/ \E e \in OwnEdits : PluginEdit(e) \/ MarkDirty(e)

Spec == Init /\ [][Next]_vars

\* Both threads go on for as long as the process lives, and the host goes on
\* calling audio_process.
LiveSpec == Spec /\ WF_vars(MainStep) /\ WF_vars(AudioStep)

-----------------------------------------------------------------------------
TypeOK ==
  /\ ports \in {"audio", "noChannels", "events"}
  /\ plugin \in {"inactive", "active", "processing"}
  /\ active \in BOOLEAN /\ rate \in Rates \cup {0}
  /\ processing \in BOOLEAN /\ scheduleProcess \in BOOLEAN /\ schedulePanic \in BOOLEAN
  /\ mpc \in {"messages", "reactivate", "activate", "schedule", "deactivate", "unset",
              "stop", "join", "flush", "flushClear", "flushPlugin", "flushOutput",
              "autosave", "save"}
  /\ mRate \in Rates \cup {0} /\ mDirty \in 0..dirty
  /\ apc \in {"none", "wait", "exited", "panic", "convertFirst", "convertOnly",
              "flushFirst", "flushOnly", "outputFirst", "unschedule", "start",
              "setProcessing", "run", "process", "unsetProcessing", "output"}
  /\ stop \in BOOLEAN
  /\ stage \in [Edits -> Stages]
  /\ dirty \in 0..Cardinality(Edits) /\ marker \in 0..dirty /\ saved \subseteq Edits
  /\ disturbed \in BOOLEAN /\ raced \in BOOLEAN
  /\ uses \in [Kinds -> Nat]

AudioInPlugin ==
  apc \in {"convertFirst", "convertOnly", "flushFirst", "flushOnly", "outputFirst",
           "start", "process", "output"}
MainFlushes == mpc \in {"flush", "flushClear", "flushPlugin", "flushOutput"}

\* flush_device_events is not called by both threads at once (the comment on
\* it), nor by the main thread while the audio thread has the plugin process.
FlushIsExclusive == ~(MainFlushes /\ AudioInPlugin)

\* CLAP: process is called only between start_processing and stop_processing,
\* as long as the plugin was never deactivated under the audio thread.
ProcessOnlyStarted ==
  ~disturbed /\ apc = "process" => plugin = "processing"

\* An edit that the plugin has, and that came in or out as an event, is in the
\* state saved last, or will make the next autosave save it.
NoEditForgotten ==
  ~raced => \A e \in Edits : stage[e] = "applied" => e \in saved \/ dirty > marker

\* A plugin that is dirty is saved, or given up after a failure.
DirtyIsSaved == (dirty > marker) ~> (dirty = marker)

\* A device that has been activated, or that sleeps when its plugin asks to
\* process, is started by a later cycle or deactivated again, unless the plugin
\* refuses or was deactivated under the audio thread.
WakesUp ==
  (mpc = "schedule" \/ (scheduleProcess /\ active /\ plugin = "active"))
    ~> (plugin = "processing" \/ ~active \/ uses["failure"] > 0 \/ disturbed)
=============================================================================
