----------------------------- MODULE AudioPath -----------------------------
(***************************************************************************)
(* What flows through a group in its audio cycles: audio and events.       *)
(*                                                                         *)
(* The host's audio thread (client.cpp, audio_process) writes the input    *)
(* ports of devices in shared memory, has the sandboxes process, reads the *)
(* output ports, and copies them along the connections between sandboxes.  *)
(* The audio thread of a sandbox (audio.hpp) goes through its devices in   *)
(* the order of the latest graph: it takes the events that came as         *)
(* messages, flushes or processes the plugin (clap.hpp), and copies along  *)
(* the connections inside the sandbox.  Meanwhile API calls change both    *)
(* graphs, processes die, and they are started again over the same shared  *)
(* memory.                                                                 *)
(*                                                                         *)
(* Abstractions: a buffer of audio is its age, the number of cycles since  *)
(* the host wrote the signal in it, up to MaxAge: older, or silence. A     *)
(* device has one port each way. The plugin is external: it copies its     *)
(* input to its output, sends every event it gets on, starts when it is    *)
(* asked to, and goes to sleep when it likes. GroupSignaling has the       *)
(* events and the counter; here the sandboxes that are counted are         *)
(* signalled, or the first one only, and a cycle may be cut short once the *)
(* poll thread has unblocked the host. What two threads do to one device   *)
(* at the same time is left to PluginHost: here a device is processed in   *)
(* one step. Devices are created beforehand, and a group is not            *)
(* deactivated (see GroupSignaling: the host would not come back).         *)
(***************************************************************************)
EXTENDS Integers, FiniteSets, SequencesExt, ProcessingOrder

CONSTANTS
  Sandboxes, Devices,
  First,     \* the sandbox that group.sandboxes.begin() refers to
  Homes,     \* the ways to distribute the devices that are considered
  Fed,       \* the devices that the host writes audio to
  Played,    \* those that it and the main thread send events to
  Params,    \* those whose plugin has the params extension
  PortSize,  \* EVENT_PORT_SIZE
  MaxAge,
  Budgets    \* bounds: how often each kind of action happens

ASSUME HomesAssumption ==
  /\ IsFiniteSet(Devices)
  /\ Homes \subseteq [Devices -> Sandboxes]
  /\ First \in Sandboxes
  /\ Fed \cup Played \cup Params \subseteq Devices
ASSUME SizesAssumption == PortSize \in Nat \ {0} /\ MaxAge \in Nat \ {0}

Kinds == {"activate", "connect", "disconnect", "crash", "sleep", "request", "event"}
ASSUME BudgetsAssumption == Budgets \subseteq [Kinds -> Nat]

VARIABLES
  home,       \* [d] the sandbox of a device
  \* the client's model, as published
  cross,      \* group.cross_sbox_conns
  remote,     \* the devices with has_remote
  isActive,   \* group_flags::is_active
  counted,    \* the sandboxes that total_active_sandboxes counts
  \* shared memory
  audioIn, audioOut, eventsIn, eventsOut,
  signal,     \* the sandboxes whose work_begin is set
  \* the host's audio thread
  apc,
  audio,      \* the model it works on
  owed,       \* the sandboxes whose answer it waits for
  \* the sandbox processes
  life,       \* [s] "up", "crashed" or, once the client knows, "down"
  wires,      \* the connections inside sandboxes
  order,      \* [s] device_processing_order
  started,    \* the sandboxes whose audio thread runs
  busy, todo, plan,      \* [s] in a cycle: the devices to come, the connections
  mode, wake, queue,     \* [d] the plugin, schedule_process, input_events_from_main
  \* history
  given,      \* [d] the events that have been sent to the device
  heard,      \* [d] the events that the host has got from it
  steady,     \* how many cycles in a row were complete, in one and the same graph
  clean,      \* nothing has gone wrong in this one, and nobody was still at work before
  slips,      \* what has gone wrong so far
  left        \* what is left of the budget

modelVars == <<cross, remote, isActive, counted>>
portVars  == <<audioIn, audioOut, eventsIn, eventsOut>>
hostVars  == <<apc, audio, owed>>
graphVars == <<wires, order>>
jobVars   == <<busy, todo, plan>>
devVars   == <<mode, wake, queue>>
history   == <<given, heard, steady, clean, slips, left>>
vars == <<home, modelVars, portVars, signal, hostVars, life, started, graphVars,
          jobVars, devVars, history>>

Use(kind) == left[kind] > 0 /\ left' = [left EXCEPT ![kind] = @ - 1]

In(s) == {d \in Devices : home[d] = s}

Older(age) == IF age < MaxAge THEN age + 1 ELSE age

\* An event has a sender and a number: what was left of the budget, so that of two of
\* the same sender the later one has the lower number, and its place in its cycle.
Events == [from : {"host", "main"}, n : Nat, i : Nat]

Slip(kinds) == slips' = slips \cup kinds

-----------------------------------------------------------------------------
(* The host's audio thread.                                                *)

\* A batch says how many events there are for each device.
Batches == {batch \in [Devices -> 0 .. PortSize + 1] : \A d \in Devices \ Played : batch[d] = 0}

HostEvents(k) == [i \in 1 .. k |-> [from |-> "host", n |-> left["event"], i |-> i]]

\* Mutant: the port is full one too late.
HasRoomOffByOne(d, k) == Len(eventsIn[d]) + k <= PortSize + 1

HasRoom(d, k) == Len(eventsIn[d]) + k <= PortSize

\* How much of a batch may be written when a port is found full.
Written(batch) ==
  {w \in [Devices -> 0 .. PortSize] :
     /\ \A d \in Devices : w[d] <= batch[d] /\ HasRoom(d, w[d])
     /\ \E d \in Devices : w[d] < batch[d] /\ ~HasRoom(d, w[d] + 1)}

\* process_inputs, on the model published now: first the audio.  A new cycle is
\* told by its effect on every buffer: what is in it is one cycle older.
WriteAudio ==
  /\ audio' = [cross |-> cross, remote |-> remote, isActive |-> isActive, counted |-> counted]
  /\ audioIn' = [d \in Devices |-> IF d \in Fed \cap remote THEN 0 ELSE Older(audioIn[d])]
  /\ audioOut' = [d \in Devices |-> Older(audioOut[d])]

\* Then the events, to any device, with a process behind it or not.
WriteEvents(batch, written) ==
  /\ SumFunction(batch) <= left["event"]
  /\ IF \A d \in Devices : batch[d] = 0 THEN UNCHANGED left ELSE Use("event")
  /\ eventsIn' = [d \in Devices |-> eventsIn[d] \o HostEvents(written[d])]
  /\ given' = [d \in Devices |-> given[d] \cup Range(HostEvents(batch[d]))]

Inputs(batch) ==
  /\ apc = "idle"
  /\ SumFunction(batch) <= PortSize /\ \A d \in Devices : HasRoom(d, batch[d])
  /\ apc' = "signal"
  /\ WriteAudio /\ WriteEvents(batch, batch)
  /\ clean' = (signal = {} /\ \A s \in Sandboxes : ~busy[s])
  /\ steady' = IF cross = audio.cross THEN steady ELSE 0
  /\ UNCHANGED <<home, modelVars, eventsOut, signal, owed, life, started, graphVars,
                 jobVars, devVars, heard, slips>>

\* A port is full: push_back throws out of audio_process.
InputsThrow(batch) ==
  /\ apc = "idle"
  /\ SumFunction(batch) <= PortSize
  /\ WriteAudio /\ \E written \in Written(batch) : WriteEvents(batch, written)
  /\ steady' = 0 /\ Slip({"threw"})
  /\ UNCHANGED <<home, modelVars, apc, eventsOut, signal, owed, life, started,
                 graphVars, jobVars, devVars, heard, clean>>

\* More events than the vector for them holds: its resize throws, none is taken.
InputsTooMany ==
  /\ apc = "idle" /\ left["event"] > PortSize
  /\ WriteAudio
  /\ steady' = 0 /\ Slip({"threw"})
  /\ UNCHANGED <<home, modelVars, apc, eventsIn, eventsOut, signal, owed, life,
                 started, graphVars, jobVars, devVars, given, heard, clean, left>>

\* Mutant: the outputs of an active group are zeroed as well.
SignalAndZero(ss) ==
  /\ apc = "signal"
  /\ ss \in {audio.counted, IF audio.counted = {} THEN {} ELSE {First}}
  /\ apc' = "zero"
  /\ signal' = signal \cup ss
  /\ owed' = ss
  /\ clean' = (clean /\ ss = Sandboxes /\ audio.remote = Devices)
  /\ UNCHANGED <<home, modelVars, portVars, audio, life, started, graphVars, jobVars, devVars,
                 given, heard, steady, slips, left>>

\* sandboxes_work_begin: the first one only, whichever are counted, since the
\* iterator is not advanced (EverySandboxServed of GroupSignaling, run sig_pair); or,
\* as it is meant, those that are counted.  Both are kept, so that what is said of
\* two sandboxes is said of the code as it is and of the code repaired.
Signal(ss) ==
  /\ apc = "signal"
  /\ ss \in {audio.counted, IF audio.counted = {} THEN {} ELSE {First}}
  /\ apc' = IF audio.isActive THEN "wait" ELSE "zero"
  /\ signal' = signal \cup ss
  /\ owed' = ss
  /\ clean' = (clean /\ ss = Sandboxes /\ audio.remote = Devices)
  /\ UNCHANGED <<home, modelVars, portVars, audio, life, started, graphVars, jobVars,
                 devVars, given, heard, steady, slips, left>>

\* zero_inactive_device_outputs of a group that is not active, after the sandboxes
\* have been signalled.
ZeroInactive ==
  /\ apc = "zero"
  /\ apc' = "wait"
  /\ audioOut' = [d \in Devices |-> MaxAge]
  /\ UNCHANGED <<home, modelVars, audioIn, eventsIn, eventsOut, signal, audio, owed,
                 life, started, graphVars, jobVars, devVars, history>>

\* All have answered; at once, if none is active.
Answered ==
  /\ apc = "wait" /\ owed = {}
  /\ apc' = "outputs"
  /\ steady' = IF clean THEN Older(steady) ELSE 0
  /\ UNCHANGED <<home, modelVars, portVars, signal, audio, owed, life, started,
                 graphVars, jobVars, devVars, given, heard, clean, slips, left>>

\* The done event was set by the poll thread, in this cycle or an earlier one;
\* whether that is noticed, and zeros are read instead of the outputs, depends on
\* the counter.
CutShort ==
  /\ apc = "wait" /\ "unblocked" \in slips
  /\ apc' \in {"idle", "outputs"}
  /\ steady' = 0 /\ clean' = FALSE
  /\ Slip({"cut"})
  /\ UNCHANGED <<home, modelVars, portVars, signal, audio, owed, life, started,
                 graphVars, jobVars, devVars, given, heard, left>>

\* read_audio_outputs changes nothing here; read_output_events empties the ports.
ReadOutputs ==
  /\ apc = "outputs"
  /\ apc' = "cross"
  /\ heard' = [d \in Devices |->
                 IF d \in audio.remote THEN heard[d] \o eventsOut[d] ELSE heard[d]]
  /\ eventsOut' = [d \in Devices |-> IF d \in audio.remote THEN <<>> ELSE eventsOut[d]]
  /\ UNCHANGED <<home, modelVars, audioIn, audioOut, eventsIn, signal, audio, owed, life,
                 started, graphVars, jobVars, devVars, given, steady, clean, slips, left>>

\* The devices whose output goes to d; of several, the last one stays.
Sources(d) == {a \in audio.remote : <<a, d>> \in audio.cross /\ d \in audio.remote}

\* process_cross_sbox_connections
CopyCross ==
  /\ apc = "cross"
  /\ apc' = "idle"
  /\ audioIn' \in {into \in [Devices -> 0 .. MaxAge] :
       \A d \in Devices :
         into[d] \in IF Sources(d) = {} THEN {audioIn[d]} ELSE {audioOut[a] : a \in Sources(d)}}
  /\ UNCHANGED <<home, modelVars, audioOut, eventsIn, eventsOut, signal, audio, owed,
                 life, started, graphVars, jobVars, devVars, history>>

-----------------------------------------------------------------------------
(* The audio thread of a sandbox.                                          *)

Inside(s) == {c \in wires : home[c[1]] = s}

CycleBegin(s) ==
  /\ s \in signal \cap started /\ ~busy[s]
  /\ signal' = signal \ {s}
  /\ busy' = [busy EXCEPT ![s] = TRUE]
  /\ todo' = [todo EXCEPT ![s] = order[s]]
  /\ plan' = [plan EXCEPT ![s] = Inside(s)]
  /\ clean' = (clean /\ plan'[s] = plan[s])
  /\ UNCHANGED <<home, modelVars, portVars, hostVars, life, started, graphVars, devVars,
                 given, heard, steady, slips, left>>

\* transfer_input_events_from_main: what there is room for, and one more is lost.
Room(d)     == PortSize - Len(eventsIn[d])
Received(d) == eventsIn[d] \o SubSeq(queue[d], 1, Min({Room(d), Len(queue[d])}))
Rest(d)     == SubSeq(queue[d], Room(d) + 2, Len(queue[d]))
Drops(d)    == Len(queue[d]) > Room(d)

\* clap::process: a plugin that sleeps has its events flushed, if it can; then it
\* is woken up if that was asked for.  The plugin sends on what it gets.
Flushes(d)   == mode[d] = "asleep" /\ d \in Params
Processes(d) == mode[d] = "awake" \/ (mode[d] = "asleep" /\ wake[d])

\* convert_output_events replaces what is in the port: when the plugin is both
\* flushed and processed, by what it sends when it is processed, which is nothing.
SentOn(d) ==
  IF Processes(d) /\ Flushes(d) THEN <<>>
  ELSE IF Processes(d) \/ Flushes(d) THEN Received(d)
  ELSE eventsOut[d]

\* Mutant: the port for the input is not cleared.
EventPortsKept(d) ==
  /\ eventsIn' = [eventsIn EXCEPT ![d] = Received(d)]
  /\ eventsOut' = [eventsOut EXCEPT ![d] = SentOn(d)]
  /\ queue' = [queue EXCEPT ![d] = Rest(d)]

EventPorts(d) ==
  /\ eventsIn' = [eventsIn EXCEPT ![d] = IF Processes(d) \/ Flushes(d) THEN <<>> ELSE Received(d)]
  /\ eventsOut' = [eventsOut EXCEPT ![d] = SentOn(d)]
  /\ queue' = [queue EXCEPT ![d] = Rest(d)]

\* do_processing of one device: a plugin that says so goes to sleep, and leaves
\* its output as it is.  Then copy_data_from_connected_outputs: what is copied is
\* the output of the device that this one feeds, to the input of this one.
ProcessDevice(s, sleeps) ==
  /\ busy[s] /\ todo[s] # <<>>
  /\ todo' = [todo EXCEPT ![s] = Tail(@)]
  /\ LET d == Head(todo[s])
         readers == {b \in Devices : <<d, b>> \in plan[s]}
     IN  /\ EventPorts(d)
         /\ audioOut' = IF Processes(d) THEN [audioOut EXCEPT ![d] = audioIn[d]] ELSE audioOut
         /\ \E age \in IF readers = {} THEN {audioIn[d]} ELSE {audioOut'[b] : b \in readers} :
              audioIn' = [audioIn EXCEPT ![d] = age]
         /\ IF sleeps THEN Processes(d) /\ Use("sleep") ELSE UNCHANGED left
         /\ mode' = IF Processes(d) THEN [mode EXCEPT ![d] = IF sleeps THEN "asleep" ELSE "awake"]
                    ELSE mode
         /\ wake' = IF mode[d] = "asleep" THEN [wake EXCEPT ![d] = FALSE] ELSE wake
         /\ clean' = (clean /\ Processes(d))
         /\ Slip({kind \in {"dropped", "woken"} :
                    \/ kind = "dropped" /\ Drops(d)
                    \/ kind = "woken" /\ Flushes(d) /\ Processes(d) /\ Received(d) # <<>>})
  /\ UNCHANGED <<home, modelVars, signal, hostVars, life, started, graphVars, busy, plan,
                 given, heard, steady>>

\* notify_sandbox_done
CycleEnd(s) ==
  /\ busy[s] /\ todo[s] = <<>>
  /\ busy' = [busy EXCEPT ![s] = FALSE]
  /\ owed' = owed \ {s}
  /\ UNCHANGED <<home, modelVars, portVars, signal, apc, audio, life, started, graphVars,
                 todo, plan, devVars, history>>

-----------------------------------------------------------------------------
(* The main thread of a sandbox, and its process.                          *)

\* The activate message: the audio thread is started, the plugins are activated
\* and are to be woken up.
Start(s) ==
  /\ life[s] = "up" /\ isActive /\ s \notin started
  /\ started' = started \cup {s}
  /\ mode' = [d \in Devices |-> IF home[d] = s THEN "asleep" ELSE mode[d]]
  /\ wake' = [d \in Devices |-> home[d] = s \/ wake[d]]
  /\ UNCHANGED <<home, modelVars, portVars, signal, hostVars, life, graphVars, jobVars,
                 queue, history>>

\* msg::in::event
QueueEvent(d) ==
  /\ life[home[d]] = "up"
  /\ Use("event")
  /\ LET event == [from |-> "main", n |-> left["event"], i |-> 1]
     IN  /\ queue' = [queue EXCEPT ![d] = Append(@, event)]
         /\ given' = [given EXCEPT ![d] = @ \cup {event}]
  /\ UNCHANGED <<home, modelVars, portVars, signal, hostVars, life, started, graphVars,
                 jobVars, mode, wake, heard, steady, clean, slips>>

\* clap_host.request_process
RequestProcess(d) ==
  /\ life[home[d]] = "up" /\ ~wake[d]
  /\ Use("request")
  /\ wake' = [wake EXCEPT ![d] = TRUE]
  /\ UNCHANGED <<home, modelVars, portVars, signal, hostVars, life, started, graphVars,
                 jobVars, mode, queue, given, heard, steady, clean, slips>>

\* Everything but the shared memory is gone.
Crash(s) ==
  /\ life[s] = "up"
  /\ Use("crash")
  /\ life' = [life EXCEPT ![s] = "crashed"]
  /\ started' = started \ {s}
  /\ wires' = {c \in wires : home[c[1]] # s}
  /\ busy' = [busy EXCEPT ![s] = FALSE]
  /\ todo' = [todo EXCEPT ![s] = <<>>]
  /\ plan' = [plan EXCEPT ![s] = {}]
  /\ mode' = [d \in Devices |-> IF home[d] = s THEN "off" ELSE mode[d]]
  /\ wake' = [d \in Devices |-> home[d] # s /\ wake[d]]
  /\ queue' = [d \in Devices |-> IF home[d] = s THEN <<>> ELSE queue[d]]
  /\ clean' = FALSE /\ steady' = 0
  /\ Slip({"crashed"})
  /\ UNCHANGED <<home, modelVars, portVars, signal, hostVars, order, given, heard>>

-----------------------------------------------------------------------------
(* The client's poll thread and API calls.                                 *)

\* process_sandbox_messages finds the process dead.
Notice(s) ==
  /\ life[s] = "crashed"
  /\ life' = [life EXCEPT ![s] = "down"]
  /\ remote' = remote \ In(s)
  /\ counted' = counted \ {s}
  /\ Slip({"unblocked"})
  /\ UNCHANGED <<home, cross, isActive, portVars, signal, hostVars, started, graphVars,
                 jobVars, devVars, given, heard, steady, clean, left>>

\* The number of active sandboxes is published: once the sandbox has confirmed,
\* and after a restart at any time, since it has confirmed before.
Count(s) ==
  /\ life[s] = "up" /\ isActive /\ s \notin counted
  /\ s \in started \/ "unblocked" \in slips
  /\ counted' = counted \cup {s}
  /\ UNCHANGED <<home, cross, remote, isActive, portVars, signal, hostVars, life, started,
                 graphVars, jobVars, devVars, history>>

\* device_create_success, of every device after a restart.
Created(s) ==
  /\ life[s] = "up" /\ ~(In(s) \subseteq remote)
  /\ remote' = remote \cup In(s)
  /\ UNCHANGED <<home, cross, isActive, counted, portVars, signal, hostVars, life, started,
                 graphVars, jobVars, devVars, history>>

\* With no connections, the order in which the table of devices is iterated.
Unconnected(s) == CHOOSE o \in Orders(In(s), {}) : TRUE

\* restart: the devices are created again, the connections inside are not made
\* again, and the ports in shared memory are as the dead process left them.
Restart(s) ==
  /\ life[s] = "down"
  /\ life' = [life EXCEPT ![s] = "up"]
  /\ order' = [order EXCEPT ![s] = Unconnected(s)]
  /\ UNCHANGED <<home, modelVars, portVars, signal, hostVars, started, wires, jobVars,
                 devVars, history>>

Activate ==
  /\ Use("activate")
  /\ isActive' = TRUE
  /\ UNCHANGED <<home, cross, remote, counted, portVars, signal, hostVars, life, started,
                 graphVars, jobVars, devVars, given, heard, steady, clean, slips>>

\* connect and disconnect: between sandboxes, in the client's model; inside one,
\* by a message, taken as having arrived.
Rewire(s, cs) ==
  /\ wires' = {c \in wires : home[c[1]] # s} \cup cs
  /\ order' \in {[order EXCEPT ![s] = o] : o \in Orders(In(s), cs)}
  /\ UNCHANGED cross

Connect(a, b) ==
  /\ a # b /\ <<a, b>> \notin cross \cup wires
  /\ Use("connect")
  /\ \/ home[a] # home[b] /\ cross' = cross \cup {<<a, b>>} /\ UNCHANGED graphVars
     \/ home[a] = home[b] /\ life[home[a]] = "up" /\ Rewire(home[a], Inside(home[a]) \cup {<<a, b>>})
  /\ UNCHANGED <<home, remote, isActive, counted, portVars, signal, hostVars, life, started,
                 jobVars, devVars, given, heard, steady, clean, slips>>

Disconnect(a, b) ==
  /\ <<a, b>> \in cross \cup wires
  /\ Use("disconnect")
  /\ \/ home[a] # home[b] /\ cross' = cross \ {<<a, b>>} /\ UNCHANGED graphVars
     \/ home[a] = home[b] /\ Rewire(home[a], Inside(home[a]) \ {<<a, b>>})
  /\ UNCHANGED <<home, remote, isActive, counted, portVars, signal, hostVars, life, started,
                 jobVars, devVars, given, heard, steady, clean, slips>>

-----------------------------------------------------------------------------
\* The devices have been created; the group has been activated, unless that is
\* still to come.
Init ==
  /\ home \in Homes
  /\ left \in Budgets
  /\ isActive = (left["activate"] = 0)
  /\ counted = (IF isActive THEN Sandboxes ELSE {}) /\ started = counted
  /\ mode = [d \in Devices |-> IF isActive THEN "asleep" ELSE "off"]
  /\ wake = [d \in Devices |-> isActive]
  /\ cross = {} /\ remote = Devices /\ wires = {}
  /\ audioIn = [d \in Devices |-> MaxAge] /\ audioOut = audioIn
  /\ eventsIn = [d \in Devices |-> <<>>] /\ eventsOut = eventsIn
  /\ signal = {} /\ owed = {} /\ apc = "idle"
  /\ audio = [cross |-> cross, remote |-> remote, isActive |-> isActive, counted |-> counted]
  /\ life = [s \in Sandboxes |-> "up"]
  /\ order = [s \in Sandboxes |-> Unconnected(s)]
  /\ busy = [s \in Sandboxes |-> FALSE]
  /\ todo = [s \in Sandboxes |-> <<>>] /\ plan = [s \in Sandboxes |-> {}]
  /\ queue = [d \in Devices |-> <<>>]
  /\ given = [d \in Devices |-> {}] /\ heard = [d \in Devices |-> <<>>]
  /\ steady = 0 /\ clean = FALSE /\ slips = {}

Host ==
  \/ \E batch \in Batches : Inputs(batch) \/ InputsThrow(batch)
  \/ InputsTooMany
  \/ \E ss \in SUBSET Sandboxes : Signal(ss)
  \/ ZeroInactive \/ Answered \/ CutShort \/ ReadOutputs \/ CopyCross

Sandbox(s) ==
  \/ CycleBegin(s) \/ CycleEnd(s) \/ Start(s) \/ Crash(s)
  \/ \E sleeps \in BOOLEAN : ProcessDevice(s, sleeps)

Client ==
  \/ Activate
  \/ \E s \in Sandboxes : Notice(s) \/ Count(s) \/ Created(s) \/ Restart(s)
  \/ \E a, b \in Devices : Connect(a, b) \/ Disconnect(a, b)

Next ==
  \/ Host \/ Client
  \/ \E s \in Sandboxes : Sandbox(s)
  \/ \E d \in Devices : RequestProcess(d)
  \/ \E d \in Played : QueueEvent(d)

Spec == Init /\ [][Next]_vars

-----------------------------------------------------------------------------
Ages == 0 .. MaxAge

TypeOK ==
  /\ cross \in SUBSET (Devices \X Devices) /\ remote \subseteq Devices
  /\ isActive \in BOOLEAN /\ counted \subseteq Sandboxes
  /\ audioIn \in [Devices -> Ages] /\ audioOut \in [Devices -> Ages]
  /\ \A d \in Devices :
       /\ eventsIn[d] \in Seq(Events) /\ Len(eventsIn[d]) <= PortSize
       /\ eventsOut[d] \in Seq(Events) /\ Len(eventsOut[d]) <= PortSize
       /\ queue[d] \in Seq(Events) /\ heard[d] \in Seq(Events) /\ given[d] \subseteq Events
       /\ mode[d] \in {"off", "asleep", "awake"} /\ wake[d] \in BOOLEAN
  /\ signal \subseteq Sandboxes /\ owed \subseteq Sandboxes /\ started \subseteq Sandboxes
  /\ apc \in {"idle", "signal", "zero", "wait", "outputs", "cross"}
  /\ \A s \in Sandboxes :
       /\ life[s] \in {"up", "crashed", "down"}
       /\ ToSet(order[s]) = In(s) /\ ToSet(todo[s]) \subseteq In(s)
       /\ s \in started => life[s] = "up"
       /\ busy[s] => s \in started
  /\ steady \in Ages

\* The devices that the signal of the host reaches over k connections between
\* sandboxes; one that the host feeds hears nothing else.
Reached[k \in Nat] ==
  IF k = 0 THEN Fed
  ELSE {d \in Devices \ Fed : \E a \in Reached[k - 1] : <<a, d>> \in audio.cross}

\* README.md, Scenario 1: one buffer of latency per sandbox that the signal goes
\* through, no more and no less, wherever it branches and loops, as long as the
\* graph is left as it is and every sandbox is served (and no connection is inside
\* a sandbox).  What a device puts out has come along a path as long as it is
\* old; and where only one connection goes to each device, what comes along is
\* there.
OneBufferPerCrossing ==
  apc = "outputs" /\ (\A s \in Sandboxes : plan[s] = {}) =>
    \A d \in Devices, k \in 0 .. steady - 1 :
      /\ audioOut[d] = k => d \in Reached[k]
      /\ /\ d \in Reached[k]
         /\ \A c1, c2 \in audio.cross : c1[2] = c2[2] => c1 = c2
         => audioOut[d] = k

\* The later of two events of the same sender.
Later(e, f) ==
  /\ e.from = f.from
  /\ e.n < f.n \/ (e.n = f.n /\ e.i > f.i)

Waits(d) == Range(eventsIn[d]) \cup Range(queue[d]) \cup Range(eventsOut[d])

\* What a device sends on is heard by the host once, and in order, whatever dies in
\* between (the ports and queues of common-shm.hpp, data.hpp).
HeardInOrder ==
  \A d \in Devices : \A i, j \in DOMAIN heard[d] :
    i < j => heard[d][i] # heard[d][j] /\ ~Later(heard[d][i], heard[d][j])

\* And all of it is, unless a cycle was cut short, a process died, a port or a queue
\* was full, or the plugin got it as it woke up.
NothingUnheard ==
  slips = {} => \A d \in Devices : given[d] = Range(heard[d]) \cup Waits(d)

\* Both: an event is neither lost nor doubled on its way through ports and queues.
EventsHeardOnce == HeardInOrder /\ NothingUnheard

\* README.md, Scenario 3: a sandbox "will process the entire signal chain (device 1,
\* then device 2), so only one buffer of latency is introduced in this chain".
SameSandboxChain ==
  apc = "outputs" /\ steady = MaxAge =>
    \A a \in Fed, b \in Devices \ Fed :
      <<a, b>> \in plan[home[a]] /\ (\A d \in Devices \ {a} : <<d, b>> \notin plan[home[a]] \cup audio.cross)
        => audioOut[b] = audioOut[a]
=============================================================================
