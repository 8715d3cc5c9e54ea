----------------------------- MODULE PluginScan -----------------------------
(***************************************************************************)
(* The plugin scanner together with the client's model: a call of scan     *)
(* starts a thread (client/src/scan.hpp) which starts one process that     *)
(* lists the plugin files, and one for each file (scan/src/main.cpp).      *)
(* What they write to their pipes the thread reads, a line at a time, and  *)
(* puts into the model; devices that were waiting for a plugin are tried   *)
(* again, which is RetryBegin and RetryDevice of ClientModel.              *)
(*                                                                         *)
(* The lines of a process are a set: it writes them in an order of its own *)
(* and to two pipes.  Rows are values, so that rows that differ in their   *)
(* id alone are one.  Devices that are created with a plugin that is known *)
(* have some plugin of an earlier scan; the others all want one.           *)
(***************************************************************************)
EXTENDS ClientModel

CONSTANTS
  Files,     \* the plugin files
  Listing,   \* the process that lists them; a file stands for its own process
  Contents,  \* [f] the plugins in file f: their ext ids and versions
  Wanted,    \* the ext id that devices wait for
  MaxScans   \* bound: the calls of scan

ASSUME ContentsAssumption ==
  /\ Listing \notin Files
  /\ \A f \in Files : \A p \in Contents[f] :
       p = [ext |-> p.ext, version |-> p.version] /\ p.version \in Nat \ {0}
ASSUME ScansAssumption == MaxScans \in Nat

VARIABLES
  caller,    \* a thread in scan(): "idle", or waiting for the old scan to end
  thread,    \* the scan thread: "none", "loop", "inside" run_one, "ended"
  stop,      \* it has been asked to stop
  retry,     \* the flag retry_failed_devices
  scanning,  \* DATA_->scanning
  posted,    \* handlers that wait to be run: the processes to be started
  reading,   \* the processes whose pipes are read
  kids,      \* [k] process k: "none", "running" or "ended"
  rest,      \* [k] what it has still to look at
  lines,     \* [k] what it has written and nobody has read
  files,     \* rows of the model: files
  plugins,   \*   and plugins
  found,     \* the plugin that has just been read, if devices are to be tried again
  seen,      \* history: the plugins in lines that were read,
  missed,    \*   whether Wanted came with a scan that does not retry, or broken,
  ended,     \*   how the last scan ended,
  scans      \*   and the calls of scan that are left

scanVars == <<caller, thread, stop, retry, scanning, posted, reading, kids, rest, lines, files,
              plugins, found, seen, missed, ended, scans>>
call  == <<caller, stop, retry, scanning, scans>>
procs == <<kids, rest, lines>>
rows  == <<files, plugins, found, seen, missed>>
all   == <<vars, scanVars>>

Kids == Files \cup {Listing}
Nothing == [ext |-> Wanted, version |-> 0]

-----------------------------------------------------------------------------
(* The processes.  Either may die at any point, or print something that    *)
(* makes a line unreadable.                                                *)

Write(k, item, types) ==
  /\ kids[k] = "running" /\ item \in rest[k]
  /\ rest' = [rest EXCEPT ![k] = @ \ {item}]
  /\ \E type \in types : lines' = [lines EXCEPT ![k] = @ \cup {[type |-> type, what |-> item]}]
  /\ UNCHANGED <<vars, call, thread, posted, reading, kids, rows, ended>>

\* scan_system_for_plugfiles
ListFile(f) == Write(Listing, f, {"plugfile", "broken-plugfile", "noise"})

\* scan_clap_plugin
ScanPlugin(f, p) == Write(f, p, {"plugin", "broken-plugin", "noise"})

\* The entry or the factory fails, or a call throws: no more of the file is looked at.
FileBroken(f) ==
  /\ kids[f] = "running"
  /\ kids' = [kids EXCEPT ![f] = "ended"]
  /\ lines' = [lines EXCEPT ![f] = @ \cup {[type |-> "broken-plugfile", what |-> f]}]
  /\ UNCHANGED <<vars, call, thread, posted, reading, rest, rows, ended>>

KidEnds(k) ==
  /\ kids[k] = "running"
  /\ kids' = [kids EXCEPT ![k] = "ended"]
  /\ UNCHANGED <<vars, call, thread, posted, reading, rest, lines, rows, ended>>

-----------------------------------------------------------------------------
(* The scan thread.                                                        *)

\* Mutant: the flag is reset where the loop ends, and not by the destructor.
ReturnUnlessThrown(how) ==
  /\ thread' = "ended" /\ ended' = how
  /\ scanning' = (how = "threw")
  /\ kids' = [k \in Kids |-> IF kids[k] = "running" THEN "ended" ELSE kids[k]]

\* What is left of the scan is destroyed with the thread's frame, and its
\* processes are ended.
Return(how) ==
  /\ thread' = "ended" /\ ended' = how
  /\ scanning' = FALSE
  /\ kids' = [k \in Kids |-> IF kids[k] = "running" THEN "ended" ELSE kids[k]]

\* The head of the loop.
Enter ==
  /\ thread = "loop" /\ found = Nothing /\ slow.kind # "retry"
  /\ IF stop THEN Return("stopped")
             ELSE thread' = "inside" /\ UNCHANGED <<ended, scanning, kids>>
  /\ UNCHANGED <<vars, caller, stop, retry, scans, posted, reading, rest, lines, rows>>

Handler == thread = "inside" /\ thread' = "loop"

\* scan_system_for_installed_plugins, async_scan_clap_file
StartKid(k) ==
  /\ Handler
  /\ k \in posted /\ posted' = posted \ {k}
  /\ kids' = [kids EXCEPT ![k] = "running"]
  /\ rest' = [rest EXCEPT ![k] = IF k = Listing THEN Files ELSE Contents[k]]
  /\ reading' = reading \cup {k}
  /\ UNCHANGED <<vars, call, lines, rows, ended>>

\* The scanner's program is not there.
NoScanner ==
  /\ Handler
  /\ Listing \in posted /\ posted' = posted \ {Listing}
  /\ UNCHANGED <<vars, call, reading, procs, rows, ended>>

\* A process cannot be started: the whole scan ends.
StartThrows ==
  /\ thread = "inside" /\ posted # {}
  /\ Return("threw")
  /\ UNCHANGED <<vars, caller, stop, retry, scans, posted, reading, rest, lines, rows>>

Reads(type, k, item) ==
  /\ Handler
  /\ k \in reading /\ [type |-> type, what |-> item] \in lines[k]
  /\ lines' = [lines EXCEPT ![k] = @ \ {[type |-> type, what |-> item]}]

Row(p, broken) == [ext |-> p.ext, version |-> p.version, broken |-> broken]

ReadPlugfile(f) ==
  /\ Reads("plugfile", Listing, f)
  /\ files' = files \cup {[path |-> f, broken |-> FALSE]}
  /\ posted' = posted \cup {f}
  /\ UNCHANGED <<vars, call, reading, kids, rest, plugins, found, seen, missed, ended>>

ReadBrokenPlugfile(k, f) ==
  /\ Reads("broken-plugfile", k, f)
  /\ files' = files \cup {[path |-> f, broken |-> TRUE]}
  /\ UNCHANGED <<vars, call, posted, reading, kids, rest, plugins, found, seen, missed, ended>>

ReadBrokenPlugin(f, p) ==
  /\ Reads("broken-plugin", f, p)
  /\ plugins' = plugins \cup {Row(p, TRUE)}
  /\ missed' = (missed \/ p.ext = Wanted)
  /\ UNCHANGED <<vars, call, posted, reading, kids, rest, files, found, seen, ended>>

\* find_existing_plugin: any row with the ext id, broken or not.
Existing(p) == {row \in plugins : row.ext = p.ext}

\* Mutant: a later version is ignored.
OutdatedReversed(p, row) == p.version >= row.version

\* Versions are compared as strings: a number stands for the place in that order.
Outdated(p, row) == p.version <= row.version

\* Mutant: the flag is not looked at.
RetriesNever(flag) == FALSE

Retries(flag) == flag

ReadPlugin(f, p) ==
  /\ Reads("plugin", f, p)
  /\ seen' = seen \cup {p}
  /\ \/ /\ \E row \in Existing(p) : Outdated(p, row)
        /\ UNCHANGED <<plugins, found, missed>>
     \/ /\ \/ Existing(p) = {}
           \/ \E row \in Existing(p) : ~Outdated(p, row)
        /\ plugins' = plugins \cup {Row(p, FALSE)}
        /\ found' = IF Retries(retry) THEN p ELSE Nothing
        /\ missed' = (missed \/ (p.ext = Wanted /\ ~retry))
  /\ UNCHANGED <<vars, call, posted, reading, kids, rest, files, ended>>

\* Mutant: the pipe is not read any more.
ReadNoiseStops(k, item) ==
  /\ Reads("noise", k, item)
  /\ reading' = reading \ {k}
  /\ UNCHANGED <<vars, call, posted, kids, rest, rows, ended>>

\* The line is not JSON: the exception is reported, and reading goes on.
ReadNoise(k, item) ==
  /\ Reads("noise", k, item)
  /\ UNCHANGED <<vars, call, posted, reading, kids, rest, rows, ended>>

ReadEnd(k) ==
  /\ Handler
  /\ k \in reading /\ kids[k] = "ended" /\ lines[k] = {}
  /\ reading' = reading \ {k}
  /\ UNCHANGED <<vars, call, posted, procs, rows, ended>>

\* retry_failed_devices
Retry ==
  /\ found # Nothing /\ found' = Nothing
  /\ IF found.ext = Wanted /\ Waiting(working) # {} THEN RetryBegin ELSE UNCHANGED vars
  /\ UNCHANGED <<call, thread, posted, reading, procs, files, plugins, seen, missed, ended>>

\* The context has nothing to wait for: it is stopped.
RunsOut ==
  /\ thread = "inside" /\ posted = {} /\ reading = {}
  /\ Return("complete")
  /\ UNCHANGED <<vars, caller, stop, retry, scans, posted, reading, rest, lines, rows>>

-----------------------------------------------------------------------------
(* scan                                                                    *)

\* stop_if_it_is_already_running
Scan(flag) ==
  /\ caller = "idle" /\ caller' = IF flag THEN "retrying" ELSE "scanning"
  /\ stop' = TRUE
  /\ scans > 0 /\ scans' = scans - 1
  /\ UNCHANGED <<vars, thread, retry, scanning, posted, reading, procs, rows, ended>>

\* start, once the thread is joined
Start ==
  /\ caller # "idle" /\ caller' = "idle"
  /\ thread \in {"none", "ended"} /\ thread' = "loop"
  /\ stop' = FALSE /\ scanning' = TRUE /\ retry' = (caller = "retrying")
  /\ posted' = {Listing} /\ reading' = {}
  /\ kids' = [k \in Kids |-> "none"]
  /\ rest' = [k \in Kids |-> {}] /\ lines' = [k \in Kids |-> {}]
  /\ ended' = "not"
  /\ UNCHANGED <<vars, scans, rows>>

-----------------------------------------------------------------------------
NoScan ==
  /\ thread = "none" /\ ended = "not"
  /\ stop = FALSE /\ retry = FALSE /\ scanning = FALSE
  /\ reading = {} /\ files = {}
  /\ kids = [k \in Kids |-> "none"]
  /\ lines = [k \in Kids |-> {}]

\* A scan that began before there were any groups: the files have been looked at,
\* and what their processes have written is there.
UnderWay ==
  /\ thread = "inside" /\ ended = "not"
  /\ stop = FALSE /\ retry \in BOOLEAN /\ scanning = TRUE
  /\ reading = Files /\ files = [path : Files, broken : {FALSE}]
  /\ kids = [k \in Kids |-> "ended"]
  /\ lines = [k \in Kids |-> IF k = Listing THEN {} ELSE [type : {"plugin"}, what : Contents[k]]]

ScanInit ==
  /\ Init
  /\ NoScan \/ UnderWay
  /\ caller = "idle"
  /\ scans \in 0 .. MaxScans
  /\ posted = {} /\ rest = [k \in Kids |-> {}]
  /\ plugins = {} /\ found = Nothing /\ seen = {} /\ missed = FALSE

\* A device waits only if its plugin is not known when it is created.
Client ==
  /\ ClientNext
  /\ Existing(Nothing) # {} => \A d \in Devices \cap (ids' \ ids) : working'.devices[d].known
  /\ UNCHANGED scanVars

Scanner ==
  \/ \E f \in Files :
       \/ ListFile(f) \/ FileBroken(f) \/ ReadPlugfile(f)
       \/ \E k \in Kids : ReadBrokenPlugfile(k, f)
       \/ \E p \in Contents[f] :
            ScanPlugin(f, p) \/ ReadPlugin(f, p) \/ ReadBrokenPlugin(f, p) \/ ReadNoise(f, p)
       \/ ReadNoise(Listing, f)
  \/ \E k \in Kids : StartKid(k) \/ KidEnds(k) \/ ReadEnd(k)
  \/ Enter \/ NoScanner \/ StartThrows \/ RunsOut \/ Retry \/ Start
  \/ \E flag \in BOOLEAN : Scan(flag)

ScanNext == ~Broken /\ (Client \/ Scanner)

ScanSpec == ScanInit /\ [][ScanNext]_all

-----------------------------------------------------------------------------
AllPlugins == UNION {Contents[f] : f \in Files}

\* is_scanning tells whether the thread runs, however it ends.
ScanTypeOK ==
  /\ caller \in {"idle", "scanning", "retrying"}
  /\ thread \in {"none", "loop", "inside", "ended"}
  /\ stop \in BOOLEAN /\ retry \in BOOLEAN /\ missed \in BOOLEAN
  /\ scanning = (thread \in {"loop", "inside"})
  /\ posted \subseteq Kids /\ reading \subseteq Kids
  /\ kids \in [Kids -> {"none", "running", "ended"}]
  /\ rest[Listing] \subseteq Files /\ \A f \in Files : rest[f] \subseteq Contents[f]
  /\ files \subseteq [path : Files, broken : BOOLEAN]
  /\ plugins \subseteq {Row(p, broken) : p \in AllPlugins, broken \in BOOLEAN}
  /\ found \in AllPlugins \cup {Nothing} /\ seen \subseteq AllPlugins
  /\ scans \in 0 .. MaxScans
  /\ ended \in {"not", "complete", "stopped", "threw"}

\* Of every plugin that was read there is a row of that version or a later one,
\* in whichever order the files were scanned.
BestIsKnown ==
  \A p \in seen : \E row \in plugins : row.ext = p.ext /\ row.version >= p.version

\* No device waits for a plugin that is known: it is tried again when a scan finds
\* the plugin, and created with it afterwards (client.hpp: "a future scan where the
\* retry_failed_devices flag is set"); unless the scan that found it was not to
\* retry, or it was broken: later scans ignore it.
NobodyLeftWaiting ==
  ~Broken /\ ~missed /\ Existing(Nothing) # {} =>
    \/ found # Nothing /\ found.ext = Wanted
    \/ slow.kind = "retry"
    \/ Waiting(working) = {}

\* A scan that was not stopped, and in which no process failed to start, leaves
\* nothing unread and no process behind, whatever the processes printed.
CompleteMeansAll ==
  ended = "complete" => \A k \in Kids : lines[k] = {} /\ kids[k] # "running"
=============================================================================
