---------------------------- MODULE SandboxCalls ----------------------------
(***************************************************************************)
(* Calls from the client into one sandbox process and the replies: the     *)
(* slots that hold the callbacks (slot_buffer), the requests and replies   *)
(* on their way, the main loop of the sandbox with its devices, their      *)
(* connections and processing order (sbox/src/msg-proc.hpp, op.hpp), the   *)
(* poll thread that runs the callbacks, and the threads that wait for one  *)
(* in a blocking call (client.cpp).                                        *)
(*                                                                         *)
(* A call that creates a device stands for the device as well.  Channels   *)
(* are the queues of MessageFifo.  A slot's number counts the slots ever   *)
(* used: the code's first is 0 and its second 32.  Left out: ports, states *)
(* and values, and the UI queue that most callbacks pass through.  The     *)
(* client connects two devices at most once.                               *)
(***************************************************************************)
EXTENDS Integers, FiniteSets, SequencesExt, ProcessingOrder

CONSTANTS
  Calls,            \* the calls that are made; also the devices
  NoCall, Ignored,  \* no callback, and one that does nothing
  Budgets           \* bounds: what a behaviour may do, of each kind; one is chosen at the start

\* The callback of a create after a restart.
Restore(d) == <<"restore", d>>

\* Callbacks can be told from each other.
ASSUME CallsAssumption ==
  /\ IsFiniteSet(Calls)
  /\ NoCall \notin Calls /\ Ignored \notin Calls /\ NoCall # Ignored
  /\ \A d \in Calls : Restore(d) \notin Calls \cup {NoCall, Ignored}

Spent == {"create", "query", "duplicate", "blocking", "wire", "erase", "end"}

ASSUME BudgetsAssumption == Budgets \subseteq [Spent -> Nat]

VARIABLES
  \* the client
  slots,    \* the callbacks of each buffer, and the stack of slots given back
  table,    \* the client's devices
  remote,   \* those that have their remote flag
  launched, \* the sandbox's flag
  op,       \* [c] what call c asks for
  phase,    \* [c] where it is
  fn,       \* the blocking call whose function the poll thread is running
  \* the channels
  down, up,
  \* the sandbox process
  running, batch, out, devs, conns, order,
  \* history
  ran,      \* [c] the calls whose replies its callback was run with
  full,     \* calls that got a result, other than an empty text
  failed,   \* devices that the sandbox failed to create
  lost,     \* calls whose request or reply was thrown away
  wants,    \* the connections that the client has asked for
  slips,    \* what has gone wrong
  left      \* of the budget

vars == <<slots, table, remote, launched, op, phase, fn, down, up, running, batch, out, devs,
          conns, order, ran, full, failed, lost, wants, slips, left>>
devices == <<table, remote, launched>>
callers == <<op, phase, fn>>
wiring  == <<devs, conns, order>>
process == <<running, batch, out, wiring>>
history == <<ran, full, failed, lost, wants>>

Spend(kinds) ==
  /\ \A k \in kinds : left[k] > 0
  /\ left' = [k \in Spent |-> IF k \in kinds THEN left[k] - 1 ELSE left[k]]
Slip(name, happens) == slips' = IF happens THEN slips \cup {name} ELSE slips

-----------------------------------------------------------------------------
(* slot_buffer.                                                            *)

Buffers == {"create", "load", "ask"}
First   == 1   \* index 0

\* Mutant: the slot stays on the stack.
PutKeeping(s, b, callback) ==
  IF s.free[b] = <<>> THEN [s EXCEPT !.cell[b] = Append(@, callback)]
  ELSE [s EXCEPT !.cell[b][Last(s.free[b])] = callback]

\* put: into the slot that was given back last, else into one never used.
Put(s, b, callback) ==
  IF s.free[b] = <<>> THEN [s EXCEPT !.cell[b] = Append(@, callback)]
  ELSE [s EXCEPT !.cell[b][Last(s.free[b])] = callback, !.free[b] = Front(@)]
Index(s, b) == IF s.free[b] = <<>> THEN Len(s.cell[b]) + 1 ELSE Last(s.free[b])

\* take: the slot is given back, whether it was in use or not, and keeps its callback.
Take(s, b, i) == [s EXCEPT !.free[b] = Append(@, i)]

\* Mutant: no request has an index.
OnWireNever(type, slot) == First

\* The index of a create is not serialized: its reply names index 0.
OnWire(type, slot) == IF type = "create" THEN First ELSE slot

Message(type, callback, dev, slot) == [type |-> type, call |-> callback, dev |-> dev, slot |-> slot]

\* A callback is put in a slot, and a request with the slot is sent.
Ask(s, type, callback, dev) ==
  LET slot == Index(s, type)
  IN  /\ slots' = Put(s, type, callback)
      /\ down' = Append(down, Message(type, callback, dev, OnWire(type, slot)))
      /\ Slip("unnamed", type = "create" /\ slot # First)

-----------------------------------------------------------------------------
(* The calls.                                                              *)

Begin(c, type, blocking) ==
  /\ phase[c] = "none" /\ c = CHOOSE fresh \in Calls : phase[fresh] = "none"
  /\ Spend({IF type \in {"load", "ask"} THEN "query" ELSE type}
           \cup (IF blocking THEN {"blocking"} ELSE {}))
  /\ phase' = [phase EXCEPT ![c] = IF blocking THEN "first" ELSE "async"]
  /\ op' = [op EXCEPT ![c] = type]

\* create_device, create_device_async
Create(c, blocking) ==
  /\ Begin(c, "create", blocking)
  /\ table' = table \cup {c}
  /\ Ask(slots, "create", c, c)
  /\ UNCHANGED <<remote, launched, fn, up, process, history>>

\* load, save, get_value, get_value_text and their asynchronous forms
Query(c, type, d, blocking) ==
  /\ d \in table
  /\ Begin(c, type, blocking)
  /\ Ask(slots, type, c, d)
  /\ UNCHANGED <<devices, fn, up, process, history>>

\* duplicate_async of a device that is remote: its state is asked for first.  Of
\* any other it is a create.
Duplicate(c, d) ==
  /\ d \in remote
  /\ Begin(c, "duplicate", FALSE)
  /\ Ask(slots, "ask", c, d)
  /\ UNCHANGED <<devices, fn, up, process, history>>

Rewires(type, d, e) ==
  /\ Spend({"wire"})
  /\ {d, e} \subseteq table
  /\ down' = Append(down, Message(type, NoCall, <<d, e>>, First))
  /\ UNCHANGED <<slots, devices, callers, up, process, ran, full, failed, lost, slips>>

Connect(d, e) ==
  /\ d # e /\ <<d, e>> \notin wants
  /\ wants' = wants \cup {<<d, e>>}
  /\ Rewires("connect", d, e)

Disconnect(d, e) ==
  /\ <<d, e>> \in wants
  /\ wants' = wants \ {<<d, e>>}
  /\ Rewires("disconnect", d, e)

\* Mutant: the device stays remote.
EraseFromTable(d) ==
  /\ Spend({"erase"})
  /\ d \in table
  /\ table' = table \ {d}
  /\ UNCHANGED <<slots, remote, launched, callers, down, up, process, history, slips>>

\* The sandbox is not told.
Erase(d) ==
  /\ Spend({"erase"})
  /\ d \in table
  /\ table' = table \ {d} /\ remote' = remote \ {d}
  /\ UNCHANGED <<slots, launched, callers, down, up, process, history, slips>>

-----------------------------------------------------------------------------
(* blocking_sandbox_operation::wait_for                                    *)

Inside(c) == phase[c] \in {"first", "asleep"}
Goes(c, where) ==
  /\ phase' = [phase EXCEPT ![c] = where]
  /\ UNCHANGED <<slots, devices, op, fn, down, up, process, history, left>>

\* The first look takes no lock: the function may still be running.
FirstLook(c) ==
  /\ phase[c] = "first"
  /\ \/ c \in full /\ Goes(c, "returned") /\ Slip("early", fn = c)
     \/ c \notin full /\ fn # c /\ Goes(c, "asleep") /\ UNCHANGED slips

\* Mutant: the lock is not taken.
WakeUnlocked(c) ==
  /\ phase[c] = "asleep" /\ c \in full
  /\ Goes(c, "returned") /\ UNCHANGED slips

\* The function runs under the lock.
Wake(c) ==
  /\ phase[c] = "asleep" /\ c \in full /\ fn # c
  /\ Goes(c, "returned") /\ UNCHANGED slips

\* Mutant: the wait has no limit.
TimeoutForgotten(c) == FALSE /\ Goes(c, "timedout")

Timeout(c) ==
  /\ phase[c] = "asleep" /\ c \notin full /\ fn # c
  /\ Goes(c, "timedout") /\ UNCHANGED slips

-----------------------------------------------------------------------------
(* The sandbox process.                                                    *)

CallsIn(msgs) == {msgs[i].call : i \in DOMAIN msgs} \cap Calls

clientSide == <<slots, devices, callers, down, up>>

\* Mutant: what does not fit in the batch is cleared with the rest.
ReceiveClears ==
  /\ running /\ batch = <<>> /\ down # <<>>
  /\ \E n \in 1 .. Len(down) : batch' = SubSeq(down, 1, n) /\ down' = <<>>
  /\ UNCHANGED <<slots, devices, callers, up, running, out, wiring, history, slips, left>>

Receive ==
  /\ running /\ batch = <<>> /\ down # <<>>
  /\ \E n \in 1 .. Len(down) :
       batch' = SubSeq(down, 1, n) /\ down' = SubSeq(down, n + 1, Len(down))
  /\ UNCHANGED <<slots, devices, callers, up, running, out, wiring, history, slips, left>>

Handles(type) == running /\ batch # <<>> /\ Head(batch).type = type
Handled       == batch' = Tail(batch)
Reply(ok) ==
  LET msg == Head(batch)
  IN  out' = Append(out, [type |-> msg.type, call |-> msg.call, dev |-> msg.dev,
                          slot |-> msg.slot, ok |-> ok])

\* A device that is created again has lost its connections to others.
HandleCreate ==
  LET d == Head(batch).dev IN
  /\ Handles("create") /\ Handled
  /\ \/ /\ devs' = devs \cup {d} /\ conns' = {c \in conns : c[1] # d}
        /\ order' \in Orders(devs', conns')
        /\ Reply(TRUE)
        /\ UNCHANGED failed
     \/ /\ failed' = failed \cup {d}
        /\ Reply(FALSE)
        /\ UNCHANGED wiring
  /\ UNCHANGED <<clientSide, running, ran, full, lost, wants, slips, left>>

HasDevice == (Handles("load") \/ Handles("ask")) /\ Head(batch).dev \in devs

HandleQuery ==
  /\ HasDevice /\ Handled
  /\ \E ok \in BOOLEAN : Reply(ok)
  /\ UNCHANGED <<clientSide, running, wiring, history, slips, left>>

\* A state that is empty, a parameter that has no value: no reply.
HandleSilently ==
  /\ HasDevice /\ Handles("ask") /\ Handled
  /\ lost' = lost \cup CallsIn(<<Head(batch)>>)
  /\ UNCHANGED <<clientSide, running, out, wiring, ran, full, failed, wants, slips, left>>

HandleWiring(cs) ==
  /\ Handled
  /\ conns' = cs /\ order' \in Orders(devs, cs)
  /\ UNCHANGED <<clientSide, running, out, devs, history, slips, left>>

HasEnds == {Head(batch).dev[1], Head(batch).dev[2]} \subseteq devs

HandleConnect ==
  Handles("connect") /\ HasEnds /\ HandleWiring(conns \cup {Head(batch).dev})
HandleDisconnect ==
  /\ Handles("disconnect") /\ HasEnds /\ Head(batch).dev \in conns
  /\ HandleWiring(conns \ {Head(batch).dev})

\* A device or connection that is not there: the handler throws, and the rest of
\* the batch goes with the message.
HandleThrows ==
  /\ \/ (Handles("load") \/ Handles("ask")) /\ ~HasDevice
     \/ Handles("connect") /\ ~HasEnds
     \/ Handles("disconnect") /\ ~(HasEnds /\ Head(batch).dev \in conns)
  /\ batch' = <<>>
  /\ lost' = lost \cup CallsIn(batch)
  /\ Slip("dropped", TRUE)
  /\ UNCHANGED <<clientSide, running, out, wiring, ran, full, failed, wants, left>>

SendOut ==
  /\ running /\ batch = <<>> /\ out # <<>>
  /\ up' = up \o out /\ out' = <<>>
  /\ UNCHANGED <<slots, devices, callers, down, running, batch, wiring, history, slips, left>>

\* What the process has read and not answered goes with it.
Ends ==
  /\ batch' = <<>> /\ out' = <<>>
  /\ devs' = {} /\ conns' = {} /\ order' = <<>>
  /\ lost' = lost \cup CallsIn(batch) \cup CallsIn(out)

Die ==
  /\ Spend({"end"})
  /\ running /\ running' = FALSE
  /\ Ends
  /\ UNCHANGED <<clientSide, ran, full, failed, wants, slips>>

-----------------------------------------------------------------------------
(* restart, and the poll thread.                                           *)

\* Mutant: the devices that were there.
ToRestoreRemote == remote

ToRestore == table

\* The slots when the callbacks of the first n of these devices have been put, for each n.
PutAll(s, seq) ==
  LET after[n \in 0 .. Len(seq)] ==
        IF n = 0 THEN s ELSE Put(after[n - 1], "create", Restore(seq[n]))
  IN  after

Restores(seq) == [i \in DOMAIN seq |-> Message("create", Restore(seq[i]), seq[i], First)]

\* A create for each device, each with a callback that will load its state.
\* Requests that the old process has not read are before them.
Restart ==
  /\ Spend({"end"})
  /\ running' = TRUE /\ launched' = TRUE
  /\ Ends
  /\ \E seq \in SetToSeqs(ToRestore) :
       LET after == PutAll(slots, seq)
       IN  /\ slots' = after[Len(seq)]
           /\ down' = down \o Restores(seq)
           /\ slips' = slips \cup {"restarted"}
                             \cup (IF \E i \in DOMAIN seq : Index(after[i - 1], "create") # First
                                   THEN {"unnamed"} ELSE {})
  /\ UNCHANGED <<table, remote, callers, up, ran, full, failed, wants>>

PollFindsDead ==
  /\ fn = NoCall
  /\ launched /\ ~running
  /\ launched' = FALSE /\ remote' = {}
  /\ UNCHANGED <<slots, table, callers, down, up, process, history, slips, left>>

\* The callback of a blocking call, run with the reply to call c.
RunBlocking(callback, c, isFull) ==
  IF Inside(callback)
  THEN /\ ran' = [ran EXCEPT ![callback] = Append(@, c)]
       /\ full' = IF isFull THEN full \cup {callback} ELSE full
       /\ fn' = callback
       /\ UNCHANGED slips
  ELSE Slip("dead", TRUE) /\ UNCHANGED <<ran, full, fn>>

\* The callback in the slot that the reply names, whichever it is.
Run(s, msg) ==
  LET callback == s.cell[msg.type][msg.slot] IN
  \/ /\ callback \in Calls /\ phase[callback] # "async"
     /\ RunBlocking(callback, msg.call, msg.type # "ask" \/ msg.ok)
     /\ slots' = s /\ UNCHANGED <<table, down, lost>>
  \/ /\ callback \in Calls /\ phase[callback] = "async"
     /\ op[callback] = "duplicate" /\ msg.type = "ask"
     /\ table' = table \cup {callback}
     /\ Ask(s, "create", callback, callback)
     /\ UNCHANGED <<ran, full, fn, lost>>
  \/ /\ callback \in Calls /\ phase[callback] = "async"
     /\ ~(op[callback] = "duplicate" /\ msg.type = "ask")
     /\ ran' = [ran EXCEPT ![callback] = Append(@, msg.call)]
     /\ full' = full \cup {callback}
     /\ slots' = s /\ UNCHANGED <<table, fn, lost>>
     \* the copy is to load the state: a request with no callback, and index 0
     /\ IF op[callback] = "duplicate" /\ msg.ok
        THEN down' = Append(down, Message("load", NoCall, msg.dev, First)) /\ Slip("uncalled", TRUE)
        ELSE UNCHANGED <<down, slips>>
  \/ /\ \E d \in Calls : callback = Restore(d)
     /\ IF msg.ok THEN Ask(s, "load", Ignored, callback[2])
                  ELSE slots' = s /\ UNCHANGED <<down, slips>>
     /\ UNCHANGED <<table, ran, full, fn, lost>>
  \/ /\ callback \in {NoCall, Ignored}
     /\ slots' = s
     /\ lost' = lost \cup CallsIn(<<msg>>)
     /\ UNCHANGED <<table, down, ran, full, fn, slips>>

Polls == fn = NoCall /\ up # <<>> /\ (launched => running) /\ up' = Tail(up)
Created(msg) == msg.type = "create" /\ msg.ok

PollReply ==
  LET msg == Head(up) IN
  /\ Polls
  /\ Created(msg) => msg.dev \in table
  /\ remote' = IF Created(msg) THEN remote \cup {msg.dev} ELSE remote
  /\ Run(Take(slots, msg.type, msg.slot), msg)
  /\ UNCHANGED <<launched, op, phase, process, failed, wants, left>>

\* A device that has been erased: the handler throws before it takes the callback.
PollThrows ==
  LET msg == Head(up) IN
  /\ Polls
  /\ Created(msg) /\ msg.dev \notin table
  /\ lost' = lost \cup CallsIn(<<msg>>)
  /\ UNCHANGED <<slots, devices, callers, down, process, ran, full, failed, wants, slips, left>>

FnEnd ==
  /\ fn # NoCall /\ fn' = NoCall
  /\ UNCHANGED <<slots, devices, op, phase, down, up, process, history, slips, left>>

-----------------------------------------------------------------------------
Init ==
  /\ slots = [cell |-> [b \in Buffers |-> <<NoCall>>], free |-> [b \in Buffers |-> <<First>>]]
  /\ table = {} /\ remote = {} /\ launched = TRUE
  /\ op = [c \in Calls |-> "none"] /\ phase = [c \in Calls |-> "none"]
  /\ fn = NoCall
  /\ down = <<>> /\ up = <<>>
  /\ running = TRUE /\ batch = <<>> /\ out = <<>>
  /\ devs = {} /\ conns = {} /\ order = <<>>
  /\ ran = [c \in Calls |-> <<>>]
  /\ full = {} /\ failed = {} /\ lost = {} /\ wants = {} /\ slips = {}
  /\ left \in Budgets

Call ==
  \E c \in Calls :
    \/ \E blocking \in BOOLEAN :
         Create(c, blocking) \/ \E d \in Calls : Query(c, "load", d, blocking) \/ Query(c, "ask", d, blocking)
    \/ \E d \in Calls : Duplicate(c, d) \/ Connect(c, d) \/ Disconnect(c, d)
    \/ Erase(c)

Process ==
  \/ Receive \/ HandleCreate \/ HandleQuery \/ HandleSilently \/ HandleConnect
  \/ HandleDisconnect \/ HandleThrows \/ SendOut

Poll == PollReply \/ PollThrows \/ PollFindsDead \/ FnEnd

Wait(c) == FirstLook(c) \/ Wake(c) \/ Timeout(c)

\* Undefined behaviour: nothing is claimed any more.
Dead == "dead" \in slips

Next ==
  /\ ~Dead
  /\ Call \/ Process \/ Poll \/ Die \/ Restart \/ \E c \in Calls : Wait(c)

\* Threads run, and waits time out.
Fairness ==
  /\ WF_vars(~Dead /\ FnEnd)
  /\ \A c \in Calls : WF_vars(~Dead /\ Wait(c))

Spec == Init /\ [][Next]_vars /\ Fairness

-----------------------------------------------------------------------------
Callbacks == Calls \cup {NoCall, Ignored} \cup {Restore(d) : d \in Calls}
Kinds     == {"connect", "disconnect"} \cup Buffers

TypeOK ==
  /\ \A b \in Buffers :
       /\ slots.cell[b] \in Seq(Callbacks)
       /\ slots.free[b] \in Seq(DOMAIN slots.cell[b])
  /\ remote \subseteq table /\ table \subseteq Calls
  /\ launched \in BOOLEAN /\ running \in BOOLEAN
  /\ op \in [Calls -> {"none", "create", "load", "ask", "duplicate"}]
  /\ phase \in [Calls -> {"none", "async", "first", "asleep", "returned", "timedout"}]
  /\ fn \in Calls \cup {NoCall}
  /\ \A msgs \in {down, up, batch, out} : \A i \in DOMAIN msgs :
       /\ msgs[i].type \in Kinds /\ msgs[i].call \in Callbacks
       /\ msgs[i].type \in Buffers => msgs[i].slot \in DOMAIN slots.cell[msgs[i].type]
  /\ devs \subseteq Calls /\ conns \subseteq devs \X devs
  /\ ran \in [Calls -> Seq(Callbacks)]
  /\ full \subseteq Calls /\ failed \subseteq Calls /\ lost \subseteq Calls
  /\ slips \subseteq {"unnamed", "uncalled", "early", "dead", "dropped", "restarted"}
  /\ left \in [Spent -> Nat]

\* Creates whose index is not 0, and loads without a callback, confuse their buffer.
Confused(b) ==
  \/ b = "create" /\ "unnamed" \in slips
  \/ b = "load" /\ "uncalled" \in slips

InFlight == batch \o down \o up \o out
Unanswered(b) ==
  {i \in DOMAIN InFlight : InFlight[i].type = b /\ InFlight[i].call # NoCall}

\* Until its reply has come a callback is alone in its slot, and the slot is given
\* to no other (slot_buffer under put and take of several threads).
SlotsHeld ==
  \A b \in Buffers : ~Confused(b) =>
    /\ IsInjective(slots.free[b])
    /\ \A i \in Unanswered(b) :
         LET slot == InFlight[i].slot IN
         /\ slots.cell[b][slot] = InFlight[i].call
         /\ slot \notin ToSet(slots.free[b])
         /\ \A j \in Unanswered(b) \ {i} : InFlight[j].slot # slot

Target(c) == IF op[c] = "duplicate" THEN "create" ELSE op[c]

\* A callback runs at most once, and with the reply to its own request.
OwnAnswer ==
  \A c \in Calls : ~Confused(Target(c)) => ran[c] \in {<<>>, <<c>>}

\* A request that is on no way any more has been answered, to a caller that was
\* there, or it was lost: no reply, an exception, the end of the process.
NothingForgotten ==
  \A c \in Calls :
    phase[c] \in {"async", "first", "asleep"} /\ ~Confused(Target(c)) /\ ~Dead =>
      ran[c] # <<>> \/ c \in lost \/ c \in CallsIn(InFlight)

\* The poll thread runs the function of a blocking call while the caller waits, and
\* its frame exists: unless the caller saw the result at its first look, or had
\* timed out, or the callback is not its own.
FrameIsThere ==
  /\ fn # NoCall /\ "early" \notin slips => Inside(fn)
  /\ Dead => \/ \E c \in Calls : phase[c] = "timedout"
             \/ {"unnamed", "uncalled"} \cap slips # {}

\* When it has read all requests, the process has what the client has: the devices,
\* after a restart too, but for failures; the connections until a restart.  Unless
\* an exception has dropped requests.
Agreement ==
  running /\ batch = <<>> /\ down = <<>> /\ "dropped" \notin slips =>
    /\ table \subseteq devs \cup failed
    /\ "restarted" \notin slips => conns = wants

\* The processing order has every device once; and a device that nothing feeds comes
\* after all that it feeds (README.md, Scenario 3, promises the reverse).
ReadersBeforeSources ==
  /\ ToSet(order) = devs /\ IsInjective(order)
  /\ \A i, j \in DOMAIN order :
       <<order[i], order[j]>> \in conns /\ (\A d \in devs : <<d, order[i]>> \notin conns) => j < i

\* A blocking call returns or throws, whatever happens to the sandbox.
CallsEnd == \A c \in Calls : Inside(c) ~> (~Inside(c) \/ Dead)
=============================================================================
