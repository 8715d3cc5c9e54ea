---------------------------- MODULE ClientModel ----------------------------
(***************************************************************************)
(* The client's model: groups, the sandboxes in them, the devices in those *)
(* (client/src/client.cpp, data.hpp), and the threads that change it.      *)
(*                                                                         *)
(* The model is one value.  A thread reads a copy of it, or updates it in  *)
(* one step; the audio thread sees what was published last, and some       *)
(* updates do not publish.  Most calls of the API are one update.  Some    *)
(* read first and put back later what they read: restart, set_render_mode, *)
(* the retry of failed devices by the scanner, and every creation of a     *)
(* device in a sandbox that was read before.  So does the poll thread,     *)
(* which handles what a sandbox sends, and its death, with the sandbox as  *)
(* it was when the round began.                                            *)
(*                                                                         *)
(* What such a step may destroy is noted in "slips": the properties say    *)
(* that nothing else destroys it.                                          *)
(*                                                                         *)
(* Abstractions: flags and counts that only a cycle reads are left to      *)
(* GroupSignaling, callbacks to SandboxCalls; fields of devices that       *)
(* nothing depends on are left out.  A call with an id that is not in the  *)
(* model throws and changes nothing; such calls are left out, too.         *)
(***************************************************************************)
EXTENDS Naturals, FiniteSets

CONSTANTS
  Groups, Sandboxes, Devices,  \* ids; none is given out twice
  NoSandbox,                   \* the id of no sandbox
  Budgets                      \* bounds: how often each kind of step happens

ASSUME IdsAssumption ==
  /\ IsFiniteSet(Groups) /\ IsFiniteSet(Sandboxes) /\ IsFiniteSet(Devices)
  /\ Groups \cap Sandboxes = {} /\ Groups \cap Devices = {} /\ Sandboxes \cap Devices = {}
  /\ NoSandbox \notin Sandboxes
\* A device is "unknown" if its plugin has not been scanned when it is created.
Kinds == {"group", "sandbox", "device", "unknown", "connect", "slow", "death", "message"}
ASSUME BudgetsAssumption == Budgets \subseteq [Kinds -> Nat]

VARIABLES
  working,    \* the model
  published,  \* the model that the audio thread sees
  ids,        \* the ids given out
  \* the sandbox processes
  proc,       \* [s] "none", "running" or "dead"
  home,       \* [d] the sandbox that device d was created in
  asked,      \* [d] how often the process is asked to create d, and has not answered
  has,        \* [d] whether it has created d
  inbox,      \* [s] the messages it has sent
  \* threads
  slow,       \* the call that has read the model and will write to it
  todo,       \* the poll thread: the sandboxes it has read and not handled
  visit,      \* the sandbox whose messages it handles
  \* history
  slips, left

vars == <<working, published, ids, proc, home, asked, has, inbox, slow, todo, visit, slips, left>>
modelVars   == <<working, published>>
processVars == <<proc, home, asked, has, inbox>>
pollVars    == <<todo, visit>>

Use(kind) ==
  /\ left[kind] > 0
  /\ left' = [left EXCEPT ![kind] = @ - 1]

-----------------------------------------------------------------------------
(* The model, and functions from models to models.                         *)

Put(table, id, row)  == [k \in DOMAIN table \cup {id} |-> IF k = id THEN row ELSE table[k]]
Drop(table, id)      == [k \in DOMAIN table \ {id} |-> table[k]]
Empty                == [k \in {} |-> {}]

NewGroup      == [marked |-> FALSE, sandboxes |-> {}, conns |-> {}]
NewSandbox(g) == [group |-> g, launched |-> TRUE, marked |-> FALSE, devices |-> {}]
NewDevice(s, known) == [sbox |-> s, known |-> known, remote |-> FALSE]
\* What immer's table::update makes of an id it does not have.
Ghost         == NewDevice(NoSandbox, FALSE)

GroupRecords   == [marked : BOOLEAN, sandboxes : SUBSET Sandboxes,
                   conns : SUBSET (Devices \X Devices)]
SandboxRecords == [group : Groups, launched : BOOLEAN, marked : BOOLEAN,
                   devices : SUBSET Devices]
DeviceRecords  == [sbox : Sandboxes \cup {NoSandbox}, known : BOOLEAN, remote : BOOLEAN]

\* add_device_to_sandbox
WithDevice(sandboxes, s, d) ==
  IF s \in DOMAIN sandboxes THEN [sandboxes EXCEPT ![s].devices = @ \cup {d}] ELSE sandboxes

\* The device goes in whether or not the sandbox is still there.
AddDevice(m, d, dev) ==
  [m EXCEPT !.sandboxes = WithDevice(@, dev.sbox, d), !.devices = Put(@, d, dev)]

\* Mutant: the sandbox is not added to its group.
AddSandboxAlone(m, s, g) == [m EXCEPT !.sandboxes = Put(@, s, NewSandbox(g))]

AddSandbox(m, s, g) ==
  [m EXCEPT !.sandboxes = Put(@, s, NewSandbox(g)),
            !.groups[g].sandboxes = @ \cup {s}]

\* The last sandbox of a marked group takes the group with it.
EraseSandbox(m, s) ==
  LET g       == m.sandboxes[s].group
      removed == [m EXCEPT !.sandboxes = Drop(@, s),
                           !.groups[g].sandboxes = @ \ {s}]
  IN  IF removed.groups[g].marked /\ removed.groups[g].sandboxes = {}
      THEN [removed EXCEPT !.groups = Drop(@, g)]
      ELSE removed

\* Mutant: a marked sandbox is not looked at.
EraseDeviceOnly(m, d) ==
  LET s == m.devices[d].sbox
  IN  [m EXCEPT !.devices = Drop(@, d), !.sandboxes[s].devices = @ \ {d}]

\* The last device of a marked sandbox takes the sandbox with it.  Connections
\* stay as they are.
EraseDevice(m, d) ==
  LET s       == m.devices[d].sbox
      removed == [m EXCEPT !.devices = Drop(@, d),
                           !.sandboxes[s].devices = @ \ {d}]
  IN  IF removed.sandboxes[s].marked /\ removed.sandboxes[s].devices = {}
      THEN EraseSandbox(removed, s)
      ELSE removed

\* update and update_publish
Update(m)        == working' = m /\ UNCHANGED published
UpdatePublish(m) == working' = m /\ published' = m

Slip(name, happens) == slips' = IF happens THEN slips \cup {name} ELSE slips

Ids(m) == DOMAIN m.groups \cup DOMAIN m.sandboxes \cup DOMAIN m.devices

-----------------------------------------------------------------------------
(* Calls that are one update.                                              *)

\* Mutant: the id is not counted.
CreateGroupUncounted(g) ==
  /\ g \notin ids
  /\ Update([working EXCEPT !.groups = Put(@, g, NewGroup)])
  /\ Use("group")
  /\ UNCHANGED <<ids, processVars, slow, pollVars, slips>>

CreateGroup(g) ==
  /\ g \notin ids
  /\ ids' = ids \cup {g}
  /\ Update([working EXCEPT !.groups = Put(@, g, NewGroup)])
  /\ Use("group")
  /\ UNCHANGED <<processVars, slow, pollVars, slips>>

CreateSandbox(s, g) ==
  /\ s \notin ids
  /\ g \in DOMAIN working.groups
  /\ ids' = ids \cup {s}
  /\ UpdatePublish(AddSandbox(working, s, g))
  /\ proc' = [proc EXCEPT ![s] = "running"]
  /\ Use("sandbox")
  /\ UNCHANGED <<home, asked, has, inbox, slow, pollVars, slips>>

\* The process is asked to create the device if its plugin is known.  A process
\* that has died will find the request when it is started again.
CreateIn(s, d, known) ==
  /\ d \notin ids
  /\ ids' = ids \cup {d}
  /\ home' = [home EXCEPT ![d] = s]
  /\ asked' = [asked EXCEPT ![d] = IF known THEN 1 ELSE 0]
  /\ Update(AddDevice(working, d, NewDevice(s, known)))
  /\ Slip("orphan", s \notin DOMAIN working.sandboxes)
  /\ Use(IF known THEN "device" ELSE "unknown")
  /\ UNCHANGED <<proc, has, inbox>>

CreateDeviceAsync(s, d, known) ==
  /\ s \in DOMAIN working.sandboxes
  /\ CreateIn(s, d, known)
  /\ UNCHANGED <<slow, pollVars>>

Sbox(m, d) == m.sandboxes[m.devices[d].sbox]
Live(d) ==
  d \in DOMAIN working.devices /\ working.devices[d].sbox \in DOMAIN working.sandboxes

\* Mutant: the groups are not compared.
CanConnectAnywhere(d, e) ==
  /\ d # e /\ Live(d) /\ Live(e)
  /\ Sbox(working, d).group \in DOMAIN working.groups

\* Devices of one sandbox are connected there, of two in the group.
CanConnect(d, e) ==
  /\ d # e /\ Live(d) /\ Live(e)
  /\ Sbox(working, d).group = Sbox(working, e).group
  /\ Sbox(working, d).group \in DOMAIN working.groups
Cross(d, e) ==
  IF working.devices[d].sbox = working.devices[e].sbox THEN {} ELSE {<<d, e>>}

Connect(d, e) ==
  /\ CanConnect(d, e)
  /\ Use("connect")
  /\ UpdatePublish([working EXCEPT !.groups[Sbox(working, d).group].conns = @ \cup Cross(d, e)])
  /\ UNCHANGED <<ids, processVars, slow, pollVars, slips>>

Disconnect(d, e) ==
  /\ CanConnect(d, e)
  /\ <<d, e>> \in working.groups[Sbox(working, d).group].conns
  /\ UpdatePublish([working EXCEPT !.groups[Sbox(working, d).group].conns = @ \ Cross(d, e)])
  /\ UNCHANGED <<ids, processVars, slow, pollVars, slips, left>>

\* A group or sandbox with content is only marked.
EraseTheGroup(g) ==
  /\ g \in DOMAIN working.groups
  /\ UpdatePublish(IF working.groups[g].sandboxes = {}
                   THEN [working EXCEPT !.groups = Drop(@, g)]
                   ELSE [working EXCEPT !.groups[g].marked = TRUE])
  /\ UNCHANGED <<ids, processVars, slow, pollVars, slips, left>>

EraseTheSandbox(s) ==
  /\ s \in DOMAIN working.sandboxes
  /\ working.sandboxes[s].group \in DOMAIN working.groups
  /\ UpdatePublish(IF working.sandboxes[s].devices = {}
                   THEN EraseSandbox(working, s)
                   ELSE [working EXCEPT !.sandboxes[s].marked = TRUE])
  /\ UNCHANGED <<ids, processVars, slow, pollVars, slips, left>>

Connected(m, d) ==
  \E g \in DOMAIN m.groups : \E c \in m.groups[g].conns : d \in {c[1], c[2]}

\* The process is told nothing: it keeps the device.
EraseTheDevice(d) ==
  /\ Live(d)
  /\ Sbox(working, d).group \in DOMAIN working.groups
  /\ UpdatePublish(EraseDevice(working, d))
  /\ Slip("dangling", Connected(working, d))
  /\ UNCHANGED <<ids, processVars, slow, pollVars, left>>

-----------------------------------------------------------------------------
(* Calls that read first and write later.                                  *)

Idle == [kind |-> "none"]
SlowKinds == {"create", "render", "restart", "retry"}

SlowBegin(call) ==
  /\ slow = Idle
  /\ Use("slow")
  /\ slow' = call

\* create_device, duplicate_async: the sandbox is read, and may be gone when the
\* device is created in it.
CreateBegin(s) ==
  /\ s \in DOMAIN working.sandboxes
  /\ SlowBegin([kind |-> "create", sbox |-> s])
  /\ UNCHANGED <<modelVars, ids, processVars, pollVars, slips>>

CreateEnd(d, known) ==
  /\ slow.kind = "create"
  /\ CreateIn(slow.sbox, d, known)
  /\ slow' = Idle
  /\ UNCHANGED pollVars

RenderModeBegin(g) ==
  /\ g \in DOMAIN working.groups
  /\ SlowBegin([kind |-> "render", group |-> g, row |-> working.groups[g]])
  /\ UNCHANGED <<modelVars, ids, processVars, pollVars, slips>>

RenderModeEnd ==
  /\ slow.kind = "render"
  /\ slow' = Idle
  /\ LET changed == [working EXCEPT !.groups = Put(@, slow.group, slow.row)]
     IN  Update(changed) /\ Slip("stale", changed # working)
  /\ UNCHANGED <<ids, processVars, pollVars, left>>

\* A process that ends takes with it what it has, and requests it has read.
Kept(s) ==
  {kept \in [Devices -> UNION {0 .. asked[d] : d \in Devices}] :
     \A d \in Devices : IF home[d] = s THEN kept[d] <= asked[d] ELSE kept[d] = asked[d]}
Gone(s) == [d \in Devices |-> IF home[d] = s THEN FALSE ELSE has[d]]

\* restart: the process is replaced, and asked to create what the sandbox had
\* when it was read.
Replace(s, devs) ==
  /\ proc' = [proc EXCEPT ![s] = "running"]
  /\ has' = Gone(s)
  /\ \E kept \in (IF proc[s] = "running" THEN Kept(s) ELSE {asked}) :
       asked' = [d \in Devices |-> IF d \in devs THEN kept[d] + 1 ELSE kept[d]]

Lookup(devs) ==
  {d \in devs : d \in DOMAIN working.devices /\ working.devices[d].known}

Remotes == {d \in DOMAIN working.devices : working.devices[d].remote}
HadDevices(s) == \E d \in Devices : home[d] = s /\ (has[d] \/ d \in Remotes)

RestartBegin(s) ==
  /\ s \in DOMAIN working.sandboxes
  /\ LET devs == working.sandboxes[s].devices
     IN  Lookup(devs) = devs /\ Replace(s, devs)
  /\ SlowBegin([kind |-> "restart", sbox |-> s, row |-> working.sandboxes[s]])
  /\ Slip("replaced", HadDevices(s))
  /\ UNCHANGED <<modelVars, ids, home, inbox, pollVars>>

\* A device whose plugin is not known makes it throw: the process has been
\* replaced, some devices are asked for, and the model has not changed.
RestartThrows(s) ==
  /\ s \in DOMAIN working.sandboxes
  /\ slow = Idle
  /\ Use("slow")
  /\ LET devs == working.sandboxes[s].devices
     IN  Lookup(devs) # devs /\ \E some \in SUBSET Lookup(devs) : Replace(s, some)
  /\ Slip("threw", TRUE)
  /\ UNCHANGED <<modelVars, ids, home, inbox, slow, pollVars>>

RestartEnd ==
  /\ slow.kind = "restart"
  /\ slow' = Idle
  /\ LET row     == [slow.row EXCEPT !.launched = TRUE]
         changed == [working EXCEPT !.sandboxes = Put(@, slow.sbox, row)]
     IN  /\ Update(changed)
         /\ Slip("stale", IF slow.sbox \in DOMAIN working.sandboxes
                          THEN [working.sandboxes[slow.sbox] EXCEPT !.launched = TRUE] # row
                          ELSE TRUE)
  /\ UNCHANGED <<ids, processVars, pollVars, left>>

\* retry_failed_devices: the scanner has found a plugin.  The whole model is
\* read, and set again for each device that was waiting for it.
Waiting(m) == {d \in DOMAIN m.devices : ~m.devices[d].known /\ m.devices[d].sbox \in DOMAIN m.sandboxes}

RetryBegin ==
  /\ Waiting(working) # {}
  /\ slow = Idle
  /\ slow' = [kind |-> "retry", model |-> working]
  /\ UNCHANGED <<modelVars, ids, processVars, pollVars, slips, left>>

RetryDevice(d) ==
  /\ slow.kind = "retry" /\ d \in Waiting(slow.model)
  /\ LET m == [slow.model EXCEPT !.devices[d].known = TRUE]
     IN  /\ Update(m)
         /\ slow' = IF Waiting(m) = {} THEN Idle ELSE [slow EXCEPT !.model = m]
  /\ asked' = [asked EXCEPT ![d] = @ + 1]
  /\ Slip("stale", working # slow.model)
  /\ UNCHANGED <<ids, proc, home, has, inbox, pollVars, left>>

-----------------------------------------------------------------------------
(* A sandbox process.                                                      *)

Send(s, msg) == inbox' = [inbox EXCEPT ![s] = @ \cup {msg}]

Reply(s, d, type) ==
  /\ proc[s] = "running" /\ home[d] = s
  /\ asked[d] > 0
  /\ asked' = [asked EXCEPT ![d] = @ - 1]
  /\ has' = [has EXCEPT ![d] = @ \/ type = "created"]
  /\ Send(s, [type |-> type, dev |-> d])
  /\ UNCHANGED <<modelVars, ids, proc, home, slow, pollVars, slips, left>>

Autosave(s, d) ==
  /\ proc[s] = "running" /\ home[d] = s
  /\ has[d]
  /\ Use("message")
  /\ Send(s, [type |-> "autosave", dev |-> d])
  /\ UNCHANGED <<modelVars, ids, proc, home, asked, has, slow, pollVars, slips>>

Confirm(s) ==
  /\ proc[s] = "running"
  /\ Use("message")
  /\ Send(s, [type |-> "confirm"])
  /\ UNCHANGED <<modelVars, ids, proc, home, asked, has, slow, pollVars, slips>>

Die(s) ==
  /\ proc[s] = "running"
  /\ Use("death")
  /\ proc' = [proc EXCEPT ![s] = "dead"]
  /\ has' = Gone(s) /\ asked' \in Kept(s)
  /\ UNCHANGED <<modelVars, ids, home, inbox, slow, pollVars, slips>>

-----------------------------------------------------------------------------
(* The poll thread.                                                        *)

PollBegin ==
  /\ DOMAIN todo = {} /\ visit = NoSandbox
  /\ todo' = working.sandboxes
  /\ UNCHANGED <<modelVars, ids, processVars, slow, visit, slips, left>>

PutSandbox(m, s, row) == [m EXCEPT !.sandboxes = Put(@, s, row)]
Overwrites(s, row, launched) ==
  IF s \in DOMAIN working.sandboxes
  THEN [working.sandboxes[s] EXCEPT !.launched = launched] # row
  ELSE TRUE

\* Mutant: the devices are left as they are.
PollFindsDeadOnly(s) ==
  /\ visit = NoSandbox
  /\ s \in DOMAIN todo /\ todo[s].launched /\ proc[s] # "running"
  /\ todo' = Drop(todo, s)
  /\ LET row == [todo[s] EXCEPT !.launched = FALSE]
     IN  /\ UpdatePublish(PutSandbox(working, s, row))
         /\ Slip("stale", Overwrites(s, row, FALSE))
  /\ UNCHANGED <<ids, processVars, slow, visit, left>>

\* The sandbox is put back as it was read, and its devices have no remote any
\* more, a device that has been erased since included.
PollFindsDead(s) ==
  /\ visit = NoSandbox
  /\ s \in DOMAIN todo /\ todo[s].launched /\ proc[s] # "running"
  /\ todo' = Drop(todo, s)
  /\ LET row     == [todo[s] EXCEPT !.launched = FALSE]
         cleared == [d \in DOMAIN working.devices \cup row.devices |->
                       IF d \notin DOMAIN working.devices THEN Ghost
                       ELSE IF d \in row.devices THEN [working.devices[d] EXCEPT !.remote = FALSE]
                       ELSE working.devices[d]]
     IN  /\ UpdatePublish([PutSandbox(working, s, row) EXCEPT !.devices = cleared])
         /\ Slip("stale", Overwrites(s, row, FALSE))
  /\ UNCHANGED <<ids, processVars, slow, visit, left>>

PollVisits(s) ==
  /\ visit = NoSandbox
  /\ s \in DOMAIN todo /\ ~(todo[s].launched /\ proc[s] # "running")
  /\ visit' = s
  /\ UNCHANGED <<modelVars, ids, processVars, slow, todo, slips, left>>

Takes(type) ==
  /\ visit # NoSandbox
  /\ \E msg \in inbox[visit] :
       msg.type = type /\ inbox' = [inbox EXCEPT ![visit] = @ \ {msg}]

\* msg_from_sandbox_(confirm_activated): the sandbox as it was read is put back.
PollConfirm ==
  /\ Takes("confirm")
  /\ todo[visit].group \in DOMAIN working.groups
  /\ UpdatePublish(PutSandbox(working, visit, todo[visit]))
  /\ Slip("stale", PutSandbox(working, visit, todo[visit]) # working)
  /\ UNCHANGED <<ids, proc, home, asked, has, slow, pollVars, left>>

TakesFor(type, d) ==
  /\ visit # NoSandbox
  /\ [type |-> type, dev |-> d] \in inbox[visit]
  /\ inbox' = [inbox EXCEPT ![visit] = @ \ {[type |-> type, dev |-> d]}]

\* A device that is not there is made by table::update.
PollAutosave(d) ==
  /\ TakesFor("autosave", d)
  /\ UpdatePublish(IF d \in DOMAIN working.devices THEN working
                   ELSE [working EXCEPT !.devices = Put(@, d, Ghost)])
  /\ Slip("ghost", d \notin DOMAIN working.devices)
  /\ UNCHANGED <<ids, proc, home, asked, has, slow, pollVars, left>>

\* Throws, and changes nothing, if the device or its sandbox is not there.
PollCreated(d) ==
  /\ TakesFor("created", d)
  /\ IF Live(d)
     THEN /\ UpdatePublish([working EXCEPT !.devices[d].remote = TRUE])
          /\ Slip("late", ~has[d])
     ELSE UNCHANGED <<modelVars, slips>>
  /\ UNCHANGED <<ids, proc, home, asked, has, slow, pollVars, left>>

\* Mutant: update in place of update_if_exists.
PollFailedInserts(d) ==
  /\ TakesFor("failed", d)
  /\ UpdatePublish(IF d \in DOMAIN working.devices THEN working
                   ELSE [working EXCEPT !.devices = Put(@, d, Ghost)])
  /\ UNCHANGED <<ids, proc, home, asked, has, slow, pollVars, slips, left>>

\* device_create_fail: the error is set, if the device exists.
PollFailed(d) ==
  /\ TakesFor("failed", d)
  /\ UpdatePublish(working)
  /\ UNCHANGED <<ids, proc, home, asked, has, slow, pollVars, slips, left>>

\* Messages that come later are handled in the next round.
PollDone ==
  /\ visit # NoSandbox
  /\ todo' = Drop(todo, visit)
  /\ visit' = NoSandbox
  /\ UNCHANGED <<modelVars, ids, processVars, slow, slips, left>>

-----------------------------------------------------------------------------
NoModel == [groups |-> Empty, sandboxes |-> Empty, devices |-> Empty]

Init ==
  /\ working = NoModel /\ published = NoModel
  /\ ids = {}
  /\ proc = [s \in Sandboxes |-> "none"]
  /\ home = [d \in Devices |-> NoSandbox]
  /\ asked = [d \in Devices |-> 0] /\ has = [d \in Devices |-> FALSE]
  /\ inbox = [s \in Sandboxes |-> {}]
  /\ slow = Idle
  /\ todo = Empty /\ visit = NoSandbox
  /\ slips = {}
  /\ left \in Budgets

Call ==
  \/ \E g \in Groups : CreateGroup(g) \/ EraseTheGroup(g)
  \/ \E s \in Sandboxes : EraseTheSandbox(s) \/ \E g \in Groups : CreateSandbox(s, g)
  \/ \E d \in Devices : EraseTheDevice(d)
  \/ \E s \in Sandboxes, d \in Devices, known \in BOOLEAN : CreateDeviceAsync(s, d, known)
  \/ \E d, e \in Devices : Connect(d, e) \/ Disconnect(d, e)

SlowCall ==
  \/ \E g \in Groups : RenderModeBegin(g)
  \/ \E s \in Sandboxes : CreateBegin(s) \/ RestartBegin(s) \/ RestartThrows(s)
  \/ RenderModeEnd \/ RestartEnd
  \/ \E d \in Devices : RetryDevice(d) \/ \E known \in BOOLEAN : CreateEnd(d, known)

Process ==
  \E s \in Sandboxes :
    \/ Confirm(s) \/ Die(s)
    \/ \E d \in Devices : Autosave(s, d) \/ \E type \in {"created", "failed"} : Reply(s, d, type)

Poll ==
  \/ PollBegin \/ PollConfirm \/ PollDone
  \/ \E s \in Sandboxes : PollFindsDead(s) \/ PollVisits(s)
  \/ \E d \in Devices : PollAutosave(d) \/ PollCreated(d) \/ PollFailed(d)

\* Once a step has destroyed something no property claims anything more.
Broken == slips \cap {"orphan", "stale", "ghost"} # {}

ClientNext == Call \/ SlowCall \/ Process \/ Poll

\* The scanner may find a plugin at any time; PluginScan says when.
Next == ~Broken /\ (ClientNext \/ RetryBegin)

Spec == Init /\ [][Next]_vars

-----------------------------------------------------------------------------
TableOK(table, keys, rows) == DOMAIN table \subseteq keys /\ \A k \in DOMAIN table : table[k] \in rows
ModelOK(m) ==
  /\ TableOK(m.groups, Groups, GroupRecords)
  /\ TableOK(m.sandboxes, Sandboxes, SandboxRecords)
  /\ TableOK(m.devices, Devices, DeviceRecords)

TypeOK ==
  /\ ModelOK(working) /\ ModelOK(published)
  /\ ids \subseteq Groups \cup Sandboxes \cup Devices
  /\ Ids(working) \subseteq ids /\ Ids(published) \subseteq ids
  /\ proc \in [Sandboxes -> {"none", "running", "dead"}]
  /\ home \in [Devices -> Sandboxes \cup {NoSandbox}]
  /\ asked \in [Devices -> Nat] /\ has \in [Devices -> BOOLEAN]
  /\ slow.kind \in SlowKinds \cup {"none"}
  /\ TableOK(todo, Sandboxes, SandboxRecords)
  /\ visit \in DOMAIN todo \cup {NoSandbox}
  /\ slips \subseteq {"orphan", "dangling", "stale", "ghost", "late", "replaced", "threw"}
  /\ left \in [Kinds -> Nat]

\* Groups know their sandboxes and sandboxes their devices, and the other way
\* round; connections are between sandboxes of the group.
Contained(m) ==
  /\ \A g \in DOMAIN m.groups :
       m.groups[g].sandboxes = {s \in DOMAIN m.sandboxes : m.sandboxes[s].group = g}
  /\ \A s \in DOMAIN m.sandboxes :
       /\ m.sandboxes[s].group \in DOMAIN m.groups
       /\ m.sandboxes[s].devices = {d \in DOMAIN m.devices : m.devices[d].sbox = s}
  /\ \A d \in DOMAIN m.devices : m.devices[d].sbox \in DOMAIN m.sandboxes

\* In both models, unless a step named in slips has broken it.
Containment == ~Broken => Contained(working) /\ Contained(published)

\* What erase has marked goes with its last child, and has children until then.
MarkedHasContent ==
  ~Broken =>
    /\ \A g \in DOMAIN working.groups :
         working.groups[g].marked => working.groups[g].sandboxes # {}
    /\ \A s \in DOMAIN working.sandboxes :
         working.sandboxes[s].marked => working.sandboxes[s].devices # {}

\* A cycle of the audio thread finds every device of a connection, where it is
\* looked up with at() (process_cross_sbox_connections), and in another sandbox
\* of the same group.
ConnectionsResolve ==
  ~Broken /\ "dangling" \notin slips =>
    \A g \in DOMAIN published.groups : \A c \in published.groups[g].conns :
      /\ {c[1], c[2]} \subseteq DOMAIN published.devices
      /\ published.devices[c[1]].sbox # published.devices[c[2]].sbox
      /\ {published.devices[c[1]].sbox, published.devices[c[2]].sbox} \subseteq published.groups[g].sandboxes

Restarting(s) == slow.kind = "restart" /\ slow.sbox = s

\* "If set, this means the device has an active 'remote' counterpart in a sandbox
\* process" (data.hpp), or had one until the process died, which the poll thread
\* has yet to find out; unless the process was replaced while it ran, or died having
\* answered, or a restart threw.
RemoteIsThere ==
  ~Broken /\ slips \cap {"late", "replaced", "threw"} = {} =>
    \A d \in DOMAIN working.devices :
      LET dev == working.devices[d] IN
      dev.remote => \/ has[d] /\ proc[dev.sbox] = "running"
                    \/ proc[dev.sbox] = "dead" /\ (working.sandboxes[dev.sbox].launched \/ Restarting(dev.sbox))

\* What has been erased never comes back, unless from a copy of it, or from an
\* autosave of a device that the process was not told to erase.
ErasedForGood ==
  [][slips' \cap {"stale", "ghost"} = {}
       => Ids(working') \cap ids \subseteq Ids(working)]_vars
=============================================================================
