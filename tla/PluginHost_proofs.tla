-------------------------- MODULE PluginHost_proofs --------------------------
(***************************************************************************)
(* Theorems of PluginHost, for any finite sets of edits, any sample rates  *)
(* and any bounds.                                                         *)
(***************************************************************************)
EXTENDS PluginHost, FiniteSetTheorems, TLAPS

-----------------------------------------------------------------------------
(* Who is where: the phases of the two threads, the published flag and the *)
(* stop request.  It knows nothing of the plugin, nor of the edits.        *)

MainPhases == {"messages", "reactivate", "activate", "schedule", "deactivate", "unset",
               "stop", "join", "flush", "flushClear", "flushPlugin", "flushOutput",
               "autosave", "save"}
AudioPhases == {"none", "wait", "exited", "panic", "convertFirst", "convertOnly",
                "flushFirst", "flushOnly", "outputFirst", "unschedule", "start",
                "setProcessing", "run", "process", "unsetProcessing", "output"}

\* The phases in which a device that has stopped being active still has its
\* audio thread.
Stopping == {"deactivate", "unset", "stop", "join"}

Phases ==
  /\ mpc \in MainPhases /\ apc \in AudioPhases /\ active \in BOOLEAN /\ stop \in BOOLEAN
  /\ stop => mpc = "join"
  /\ apc = "exited" => stop
  /\ mpc \in Stopping \cup {"flush", "flushClear", "flushPlugin", "flushOutput"} => ~active
  /\ mpc \in {"reactivate", "schedule"} => active
  /\ ~active /\ mpc \notin Stopping => apc \in {"none", "wait"}

LEMMA PhasesInit == Init => Phases
  BY DEF Init, Phases, MainPhases, AudioPhases, Stopping

LEMMA PhasesStep == Phases /\ [Next]_vars => Phases'
<1> SUFFICES ASSUME Phases, [Next]_vars PROVE Phases'
  OBVIOUS
<1> USE DEF Phases, MainPhases, AudioPhases, Stopping,
           modelVars, flagVars, mainVars, audioVars, editVars, history
<1>1. ASSUME NEW sr \in Rates, Activate(sr) PROVE Phases'
  BY <1>1 DEF Activate, Use
<1>2. CASE Deactivate
  BY <1>2 DEF Deactivate, Use
<1>3. CASE SchedulePanic
  BY <1>3 DEF SchedulePanic, Use
<1>4. CASE Reactivate
  BY <1>4 DEF Reactivate
<1>5. CASE ActivatePlugin
  BY <1>5 DEF ActivatePlugin
<1>6. CASE Schedule
  BY <1>6 DEF Schedule
<1>7. CASE DeactivatePlugin
  BY <1>7 DEF DeactivatePlugin
<1>8. CASE UnsetProcessing
  BY <1>8 DEF UnsetProcessing
<1>9. CASE StopAudio
  BY <1>9 DEF StopAudio
<1>10. CASE Join
  BY <1>10 DEF Join
<1>11. CASE MessagesDone
  BY <1>11 DEF MessagesDone
<1>12. CASE FlushConvert
  BY <1>12 DEF FlushConvert, ConvertInput
<1>13. CASE FlushClear
  BY <1>13 DEF FlushClear
<1>14. CASE FlushPlugin
  BY <1>14 DEF FlushPlugin, PluginTakesEvents
<1>15. CASE FlushOutput
  BY <1>15 DEF FlushOutput, ConvertOutput
<1>16. CASE AutosaveRead
  BY <1>16 DEF AutosaveRead
<1>17. CASE AutosaveSave
  BY <1>17 DEF AutosaveSave
<1>18. CASE ActivateFails
  BY <1>18 DEF ActivateFails, Use
<1>19. CASE AutosaveFails
  BY <1>19 DEF AutosaveFails, Use
<1>20. CASE CycleBegin
  BY <1>20 DEF CycleBegin
<1>21. CASE ThreadStops
  BY <1>21 DEF ThreadStops
<1>22. CASE Panic
  BY <1>22 DEF Panic
<1>23. CASE Convert
  BY <1>23 DEF Convert, ConvertInput
<1>24. CASE Flush
  BY <1>24 DEF Flush, PluginTakesEvents
<1>25. CASE OutputFirst
  BY <1>25 DEF OutputFirst, ConvertOutput
<1>26. CASE Unschedule
  BY <1>26 DEF Unschedule
<1>27. CASE Start
  BY <1>27 DEF Start
<1>28. CASE SetProcessing
  BY <1>28 DEF SetProcessing
<1>29. CASE Run
  BY <1>29 DEF Run, ConvertInput
<1>30. CASE GoneToSleep
  BY <1>30 DEF GoneToSleep
<1>31. CASE Output
  BY <1>31 DEF Output, ConvertOutput
<1>32. ASSUME NEW status \in {"continue", "sleep", "error"}, Process(status) PROVE Phases'
  BY <1>32 DEF Process, PluginTakesEvents
<1>33. CASE StartFails
  BY <1>33 DEF StartFails, Use
<1>34. CASE RequestProcess
  BY <1>34 DEF RequestProcess, Use
<1>35. ASSUME NEW e \in HostEdits, QueueEdit(e) PROVE Phases'
  BY <1>35 DEF QueueEdit
<1>36. ASSUME NEW e \in HostEdits, HostEdit(e) PROVE Phases'
  BY <1>36 DEF HostEdit
<1>37. ASSUME NEW e \in OwnEdits, PluginEdit(e) PROVE Phases'
  BY <1>37 DEF PluginEdit
<1>38. ASSUME NEW e \in OwnEdits, MarkDirty(e) PROVE Phases'
  BY <1>38 DEF MarkDirty
<1>39. CASE UNCHANGED vars
  BY <1>39 DEF vars
<1> QED
  BY <1>1, <1>2, <1>3, <1>4, <1>5, <1>6, <1>7, <1>8, <1>9, <1>10, <1>11, <1>12, <1>13,
     <1>14, <1>15, <1>16, <1>17, <1>18, <1>19, <1>20, <1>21, <1>22, <1>23, <1>24, <1>25, <1>26,
     <1>27, <1>28, <1>29, <1>30, <1>31, <1>32, <1>33, <1>34, <1>35, <1>36, <1>37, <1>38, <1>39
     DEF Next, MainStep, AudioStep

\* Whoever flushes the events of the plugin is alone: the comment on
\* flush_device_events.
THEOREM FlushAlone == Spec => []FlushIsExclusive
<1>1. Phases => FlushIsExclusive
  BY DEF Phases, FlushIsExclusive, MainFlushes, AudioInPlugin, Stopping
<1> QED
  BY <1>1, PhasesInit, PhasesStep, PTL DEF Spec

-----------------------------------------------------------------------------
(* The plugin: while nobody has deactivated it under the audio thread, a   *)
(* cycle has it active, and `processing` tells whether it was started, but *)
(* for the two steps that follow its end.                                  *)

InStart == {"setProcessing", "run", "process"}

Calm ==
  /\ plugin \in {"inactive", "active", "processing"} /\ processing \in BOOLEAN
  /\ disturbed \in BOOLEAN
  /\ ~disturbed =>
       /\ active \/ mpc = "deactivate" => plugin # "inactive"
       /\ InCycle => active \/ mpc = "deactivate"
       /\ processing => active \/ mpc \in {"deactivate", "unset"}
       /\ processing => plugin = "processing" \/ apc = "unsetProcessing" \/ mpc = "unset"
       /\ apc \in InStart => plugin = "processing"
       /\ mpc = "activate" => ~active

LEMMA CalmInit == Init => Calm
  BY DEF Init, Calm, InCycle, InStart

LEMMA CalmStep == Phases /\ Calm /\ [Next]_vars => Calm'
<1> SUFFICES ASSUME Phases, Calm, [Next]_vars PROVE Calm'
  OBVIOUS
<1> USE DEF Phases, MainPhases, AudioPhases, Stopping, Calm, InCycle, InStart,
           modelVars, flagVars, mainVars, audioVars, editVars, history
<1>1. ASSUME NEW sr \in Rates, Activate(sr) PROVE Calm'
  BY <1>1 DEF Activate, Use
<1>2. CASE Deactivate
  BY <1>2 DEF Deactivate, Use
<1>3. CASE SchedulePanic
  BY <1>3 DEF SchedulePanic, Use
<1>4. CASE Reactivate
  BY <1>4 DEF Reactivate
<1>5. CASE ActivatePlugin
  BY <1>5 DEF ActivatePlugin
<1>6. CASE Schedule
  BY <1>6 DEF Schedule
<1>7. CASE DeactivatePlugin
  BY <1>7 DEF DeactivatePlugin
<1>8. CASE UnsetProcessing
  BY <1>8 DEF UnsetProcessing
<1>9. CASE StopAudio
  BY <1>9 DEF StopAudio
<1>10. CASE Join
  BY <1>10 DEF Join
<1>11. CASE MessagesDone
  BY <1>11 DEF MessagesDone
<1>12. CASE FlushConvert
  BY <1>12 DEF FlushConvert, ConvertInput
<1>13. CASE FlushClear
  BY <1>13 DEF FlushClear
<1>14. CASE FlushPlugin
  BY <1>14 DEF FlushPlugin, PluginTakesEvents
<1>15. CASE FlushOutput
  BY <1>15 DEF FlushOutput, ConvertOutput
<1>16. CASE AutosaveRead
  BY <1>16 DEF AutosaveRead
<1>17. CASE AutosaveSave
  BY <1>17 DEF AutosaveSave
<1>18. CASE ActivateFails
  BY <1>18 DEF ActivateFails, Use
<1>19. CASE AutosaveFails
  BY <1>19 DEF AutosaveFails, Use
<1>20. CASE CycleBegin
  BY <1>20 DEF CycleBegin
<1>21. CASE ThreadStops
  BY <1>21 DEF ThreadStops
<1>22. CASE Panic
  BY <1>22 DEF Panic
<1>23. CASE Convert
  BY <1>23 DEF Convert, ConvertInput
<1>24. CASE Flush
  BY <1>24 DEF Flush, PluginTakesEvents
<1>25. CASE OutputFirst
  BY <1>25 DEF OutputFirst, ConvertOutput
<1>26. CASE Unschedule
  BY <1>26 DEF Unschedule
<1>27. CASE Start
  BY <1>27 DEF Start
<1>28. CASE SetProcessing
  BY <1>28 DEF SetProcessing
<1>29. CASE Run
  BY <1>29 DEF Run, ConvertInput
<1>30. CASE GoneToSleep
  BY <1>30 DEF GoneToSleep
<1>31. CASE Output
  BY <1>31 DEF Output, ConvertOutput
<1>32. ASSUME NEW status \in {"continue", "sleep", "error"}, Process(status) PROVE Calm'
  BY <1>32 DEF Process, Sleeps, PluginTakesEvents
<1>33. CASE StartFails
  BY <1>33 DEF StartFails, Use
<1>34. CASE RequestProcess
  BY <1>34 DEF RequestProcess, Use
<1>35. ASSUME NEW e \in HostEdits, QueueEdit(e) PROVE Calm'
  BY <1>35 DEF QueueEdit
<1>36. ASSUME NEW e \in HostEdits, HostEdit(e) PROVE Calm'
  BY <1>36 DEF HostEdit
<1>37. ASSUME NEW e \in OwnEdits, PluginEdit(e) PROVE Calm'
  BY <1>37 DEF PluginEdit
<1>38. ASSUME NEW e \in OwnEdits, MarkDirty(e) PROVE Calm'
  BY <1>38 DEF MarkDirty
<1>39. CASE UNCHANGED vars
  BY <1>39 DEF vars
<1> QED
  BY <1>1, <1>2, <1>3, <1>4, <1>5, <1>6, <1>7, <1>8, <1>9, <1>10, <1>11, <1>12, <1>13,
     <1>14, <1>15, <1>16, <1>17, <1>18, <1>19, <1>20, <1>21, <1>22, <1>23, <1>24, <1>25, <1>26,
     <1>27, <1>28, <1>29, <1>30, <1>31, <1>32, <1>33, <1>34, <1>35, <1>36, <1>37, <1>38, <1>39
     DEF Next, MainStep, AudioStep

\* CLAP's rule for process, of which the code that calls it says nothing.
THEOREM StartedBeforeProcess == Spec => []ProcessOnlyStarted
<1>1. Calm => ProcessOnlyStarted
  BY DEF Calm, ProcessOnlyStarted, InStart
<1> QED
  BY <1>1, PhasesInit, PhasesStep, CalmInit, CalmStep, PTL DEF Spec

-----------------------------------------------------------------------------
(* Edits and the dirty marker.  The marker counts the edits that have been *)
(* put into the input buffer or have come out of the plugin, each once.    *)

Counted == {e \in Edits : stage[e] \in {"buffer", "applied"}}

EditsOK ==
  /\ stage \in [Edits -> Stages]
  /\ dirty = Cardinality(Counted)
  /\ mDirty \in 0 .. dirty /\ marker \in 0 .. dirty
  /\ saved \subseteq Edits /\ raced \in BOOLEAN

\* An edit counted and not yet applied is in no state: what makes it saved is
\* that it has been counted since the last save.
Remembered ==
  ~raced => /\ \A e \in Edits : stage[e] = "applied" => e \in saved \/ dirty > marker
            /\ At("buffer") # {} => dirty > marker

LEMMA EditsAreFinite == IsFiniteSet(Edits) /\ \A S \in SUBSET Edits : IsFiniteSet(S) /\ Cardinality(S) \in Nat
<1>1. IsFiniteSet(Edits)
  BY EditsAssumption, FS_Union DEF Edits
<1> QED
  BY <1>1, FS_Subset, FS_CardinalityType

LEMMA CardinalityGrows ==
  ASSUME NEW S \in SUBSET Edits, NEW T \in SUBSET Edits, S \cap T = {}
  PROVE  /\ Cardinality(S \cup T) = Cardinality(S) + Cardinality(T)
         /\ Cardinality(S) \in Nat /\ Cardinality(T) \in Nat
         /\ T # {} => Cardinality(T) > 0
<1>1. IsFiniteSet(S) /\ IsFiniteSet(T) /\ Cardinality(S) \in Nat /\ Cardinality(T) \in Nat
  BY EditsAreFinite
<1>2. Cardinality(S \cap T) = 0
  BY FS_EmptySet
<1>3. Cardinality(S \cup T) = Cardinality(S) + Cardinality(T) - Cardinality(S \cap T)
  BY <1>1, FS_Union
<1>4. Cardinality(T) = 0 => T = {}
  BY <1>1, FS_EmptySet
<1> QED
  BY <1>1, <1>2, <1>3, <1>4

\* The marker follows what is counted, and is higher if anything was.
Grown(new) ==
  /\ stage' \in [Edits -> Stages]
  /\ dirty \in Nat /\ dirty' \in Nat
  /\ dirty' = Cardinality(Counted') /\ dirty' >= dirty
  /\ new # {} => dirty' > dirty
  /\ marker' = marker /\ saved' = saved

LEMMA InputCounted ==
  ASSUME EditsOK, ConvertInput
  PROVE  Grown(At("port")) /\ At("buffer")' = At("buffer") \cup At("port")
         /\ \A e \in Edits : stage'[e] = "applied" => stage[e] = "applied"
<1>1. Counted' = Counted \cup At("port") /\ Counted \cap At("port") = {}
  BY DEF EditsOK, ConvertInput, Moved, Counted, At
<1>2. stage' \in [Edits -> Stages]
  BY DEF EditsOK, ConvertInput, Moved, Stages
<1>3. Counted \in SUBSET Edits /\ At("port") \in SUBSET Edits
  BY DEF Counted, At
<1>4. At("buffer")' = At("buffer") \cup At("port")
  BY DEF EditsOK, ConvertInput, Moved, At
<1>5. \A e \in Edits : stage'[e] = "applied" => stage[e] = "applied"
  BY DEF EditsOK, ConvertInput, Moved
<1>6. dirty' = dirty + Cardinality(At("port")) /\ marker' = marker /\ saved' = saved
  BY DEF ConvertInput
<1>7. dirty = Cardinality(Counted)
  BY DEF EditsOK
<1> QED
  BY <1>1, <1>2, <1>3, <1>4, <1>5, <1>6, <1>7, CardinalityGrows DEF Grown

LEMMA OutputCounted ==
  ASSUME EditsOK, ConvertOutput
  PROVE  Grown(At("out")) /\ At("buffer")' = At("buffer")
         /\ \A e \in Edits : stage'[e] = "applied" => stage[e] = "applied" \/ e \in At("out")
<1>1. Counted' = Counted \cup At("out") /\ Counted \cap At("out") = {}
  BY DEF EditsOK, ConvertOutput, Moved, Counted, At
<1>2. stage' \in [Edits -> Stages]
  BY DEF EditsOK, ConvertOutput, Moved, Stages
<1>3. Counted \in SUBSET Edits /\ At("out") \in SUBSET Edits
  BY DEF Counted, At
<1>4. At("buffer")' = At("buffer")
  BY DEF EditsOK, ConvertOutput, Moved, At
<1>5. \A e \in Edits : stage'[e] = "applied" => stage[e] = "applied" \/ e \in At("out")
  BY DEF EditsOK, ConvertOutput, Moved, At
<1>6. dirty' = dirty + Cardinality(At("out")) /\ marker' = marker /\ saved' = saved
  BY DEF ConvertOutput
<1>7. dirty = Cardinality(Counted)
  BY DEF EditsOK
<1> QED
  BY <1>1, <1>2, <1>3, <1>4, <1>5, <1>6, <1>7, CardinalityGrows DEF Grown

LEMMA EventsTaken ==
  ASSUME EditsOK, PluginTakesEvents
  PROVE  /\ stage' \in [Edits -> Stages] /\ Counted' = Counted
         /\ At("buffer")' = {} /\ UNCHANGED <<dirty, marker, saved>>
         /\ \A e \in Edits : stage'[e] = "applied" => stage[e] = "applied" \/ e \in At("buffer")
<1>1. \A e \in Edits : stage[e] \in Stages /\
        stage'[e] = (CASE stage[e] = "buffer" -> "applied"
                       [] stage[e] = "own"    -> "out"
                       [] OTHER               -> stage[e])
  BY DEF EditsOK, PluginTakesEvents
<1>2. stage' = [e \in Edits |-> stage'[e]]
  BY DEF PluginTakesEvents
<1>3. \A e \in Edits : /\ stage[e] = "buffer" => stage'[e] = "applied"
                       /\ stage[e] = "own" => stage'[e] = "out"
                       /\ stage[e] \notin {"buffer", "own"} => stage'[e] = stage[e]
  BY <1>1
<1>4. \A e \in Edits : stage'[e] \in Stages
  BY <1>1, <1>3 DEF Stages
<1> QED
  BY <1>1, <1>2, <1>3, <1>4 DEF PluginTakesEvents, Counted, At

\* What a step may do to the edits, the marker and what is saved.
Quiet ==
  /\ UNCHANGED <<editVars, raced>>
  /\ mDirty' \in {mDirty, dirty, 0}

Elsewhere ==
  /\ UNCHANGED <<dirty, marker, saved, mDirty, raced>>
  /\ stage' \in [Edits -> Stages]
  /\ \A e \in Edits : stage'[e] = stage[e] \/ {stage[e], stage'[e]} \cap {"buffer", "applied"} = {}

Effect ==
  \/ Quiet \/ Elsewhere \/ AutosaveSave
  \/ UNCHANGED <<mDirty, raced>> /\ (ConvertInput \/ ConvertOutput \/ PluginTakesEvents)
  \/ \E e \in OwnEdits : MarkDirty(e)

LEMMA StepHasEffect == EditsOK /\ [Next]_vars => Effect
<1> SUFFICES ASSUME EditsOK, [Next]_vars PROVE Effect
  OBVIOUS
<1>1. ASSUME NEW sr \in Rates, Activate(sr) PROVE Effect
  BY <1>1 DEF Activate, Use, Effect, Quiet, editVars, mainVars, history
<1>2. CASE Deactivate
  BY <1>2 DEF Deactivate, Use, Effect, Quiet, editVars, mainVars, history
<1>3. CASE SchedulePanic
  BY <1>3 DEF SchedulePanic, Use, Effect, Quiet, editVars, mainVars, history
<1>4. CASE Reactivate
  BY <1>4 DEF Reactivate, Effect, Quiet, editVars, mainVars, history
<1>5. CASE ActivatePlugin
  BY <1>5 DEF ActivatePlugin, Effect, Quiet, editVars, mainVars, history
<1>6. CASE Schedule
  BY <1>6 DEF Schedule, Effect, Quiet, editVars, mainVars, history
<1>7. CASE DeactivatePlugin
  BY <1>7 DEF DeactivatePlugin, Effect, Quiet, editVars, mainVars, history
<1>8. CASE UnsetProcessing
  BY <1>8 DEF UnsetProcessing, Effect, Quiet, editVars, mainVars, history
<1>9. CASE StopAudio
  BY <1>9 DEF StopAudio, Effect, Quiet, editVars, mainVars, history
<1>10. CASE Join
  BY <1>10 DEF Join, Effect, Quiet, editVars, mainVars, history
<1>11. CASE MessagesDone
  BY <1>11 DEF MessagesDone, Effect, Quiet, editVars, mainVars, history
<1>12. CASE FlushConvert
  BY <1>12 DEF FlushConvert, Effect, mainVars, history
<1>13. CASE FlushClear
  BY <1>13 DEF FlushClear, Effect, Elsewhere, EditsOK, Moved, Stages, mainVars, history
<1>14. CASE FlushPlugin
  BY <1>14 DEF FlushPlugin, Effect, mainVars, history
<1>15. CASE FlushOutput
  BY <1>15 DEF FlushOutput, Effect, mainVars, history
<1>16. CASE AutosaveRead
  BY <1>16 DEF AutosaveRead, Effect, Quiet, editVars, mainVars, history
<1>17. CASE AutosaveSave
  BY <1>17 DEF Effect
<1>18. CASE ActivateFails
  BY <1>18 DEF ActivateFails, Use, Effect, Quiet, editVars, mainVars, history
<1>19. CASE AutosaveFails
  BY <1>19 DEF AutosaveFails, Use, Effect, Quiet, editVars, mainVars, history
<1>20. CASE CycleBegin
  BY <1>20 DEF CycleBegin, Effect, Elsewhere, EditsOK, Moved, Stages, mainVars, history
<1>21. CASE ThreadStops
  BY <1>21 DEF ThreadStops, Effect, Quiet, editVars, mainVars, history
<1>22. CASE Panic
  BY <1>22 DEF Panic, Effect, Quiet, editVars, mainVars, history
<1>23. CASE Convert
  BY <1>23 DEF Convert, Effect, mainVars, history
<1>24. CASE Flush
  BY <1>24 DEF Flush, Effect, mainVars, history
<1>25. CASE OutputFirst
  BY <1>25 DEF OutputFirst, Effect, mainVars, history
<1>26. CASE Unschedule
  BY <1>26 DEF Unschedule, Effect, Quiet, editVars, mainVars, history
<1>27. CASE Start
  BY <1>27 DEF Start, Effect, Quiet, editVars, mainVars, history
<1>28. CASE SetProcessing
  BY <1>28 DEF SetProcessing, Effect, Quiet, editVars, mainVars, history
<1>29. CASE Run
  BY <1>29 DEF Run, Effect, Quiet, mainVars, history, editVars
<1>30. CASE GoneToSleep
  BY <1>30 DEF GoneToSleep, Effect, Quiet, editVars, mainVars, history
<1>31. CASE Output
  BY <1>31 DEF Output, Effect, mainVars, history
<1>32. ASSUME NEW status \in {"continue", "sleep", "error"}, Process(status) PROVE Effect
  BY <1>32 DEF Process, Effect, mainVars, history
<1>33. CASE StartFails
  BY <1>33 DEF StartFails, Use, Effect, Quiet, editVars, mainVars, history
<1>34. CASE RequestProcess
  BY <1>34 DEF RequestProcess, Use, Effect, Quiet, editVars, mainVars, history
<1>35. ASSUME NEW e \in HostEdits, QueueEdit(e) PROVE Effect
  BY <1>35 DEF QueueEdit, Effect, Elsewhere, EditsOK, Edits, Stages, mainVars, history
<1>36. ASSUME NEW e \in HostEdits, HostEdit(e) PROVE Effect
  BY <1>36 DEF HostEdit, Effect, Elsewhere, EditsOK, Edits, Stages, mainVars, history
<1>37. ASSUME NEW e \in OwnEdits, PluginEdit(e) PROVE Effect
  BY <1>37 DEF PluginEdit, Effect, Elsewhere, EditsOK, Edits, Stages, mainVars, history
<1>38. ASSUME NEW e \in OwnEdits, MarkDirty(e) PROVE Effect
  BY <1>38 DEF Effect
<1>39. CASE UNCHANGED vars
  BY <1>39 DEF vars, Effect, Quiet, editVars, mainVars, history
<1> QED
  BY <1>1, <1>2, <1>3, <1>4, <1>5, <1>6, <1>7, <1>8, <1>9, <1>10, <1>11, <1>12, <1>13,
     <1>14, <1>15, <1>16, <1>17, <1>18, <1>19, <1>20, <1>21, <1>22, <1>23, <1>24, <1>25, <1>26,
     <1>27, <1>28, <1>29, <1>30, <1>31, <1>32, <1>33, <1>34, <1>35, <1>36, <1>37, <1>38, <1>39
     DEF Next, MainStep, AudioStep

LEMMA EditsInit == Init => EditsOK /\ Remembered
<1> SUFFICES ASSUME Init PROVE EditsOK /\ Remembered
  OBVIOUS
<1>1. stage \in [Edits -> Stages] /\ Counted = {} /\ At("buffer") = {}
  BY DEF Init, Counted, At, Stages
<1>2. dirty = 0 /\ Cardinality(Counted) = 0
  BY <1>1, FS_EmptySet DEF Init
<1>3. mDirty = 0 /\ marker = 0 /\ saved = {} /\ raced = FALSE
  BY DEF Init
<1>4. mDirty \in 0 .. dirty /\ marker \in 0 .. dirty
  BY <1>2, <1>3
<1>5. EditsOK
  BY <1>1, <1>2, <1>3, <1>4 DEF EditsOK
<1> QED
  BY <1>1, <1>5 DEF Init, Remembered

LEMMA EditsStep == EditsOK /\ Remembered /\ [Next]_vars => EditsOK' /\ Remembered'
<1> SUFFICES ASSUME EditsOK, Remembered, Effect PROVE EditsOK' /\ Remembered'
  BY StepHasEffect
<1>0. dirty \in Nat /\ marker \in Nat /\ mDirty \in Nat
  BY EditsAreFinite DEF EditsOK, Counted
<1>1. CASE Quiet
  <2>1. Counted' = Counted /\ At("buffer")' = At("buffer")
    BY <1>1 DEF Quiet, editVars, Counted, At
  <2> QED
    BY <1>0, <1>1, <2>1 DEF Quiet, editVars, EditsOK, Remembered
<1>2. CASE Elsewhere
  <2>1. Counted' = Counted /\ At("buffer")' = At("buffer")
    BY <1>2 DEF Elsewhere, Counted, At
  <2>2. \A e \in Edits : stage'[e] = "applied" => stage[e] = "applied"
    BY <1>2 DEF Elsewhere
  <2> QED
    BY <1>2, <2>1, <2>2 DEF Elsewhere, EditsOK, Remembered
<1>3. CASE AutosaveSave
  <2>1. UNCHANGED <<stage, dirty>> /\ marker' = mDirty /\ mDirty' = 0 /\ saved' = InState
    BY <1>3 DEF AutosaveSave
  <2>2. Counted' = Counted /\ At("buffer")' = At("buffer")
    BY <2>1 DEF Counted, At
  <2>3. raced' \in BOOLEAN /\ (~raced' => ~CountedNotApplied)
    BY <1>3 DEF AutosaveSave, EditsOK
  <2>4. EditsOK'
    BY <1>0, <2>1, <2>2, <2>3 DEF EditsOK, InState
  <2>5. At("buffer") # {} /\ ~CountedNotApplied => dirty > mDirty
    <3>1. Cardinality(At("buffer")) \in Nat /\ (At("buffer") # {} => Cardinality(At("buffer")) > 0)
      <4>1. At("buffer") \in SUBSET Edits
        BY DEF At
      <4> QED
        BY <4>1, EditsAreFinite, FS_EmptySet
    <3> QED
      BY <1>0, <3>1 DEF CountedNotApplied
  <2>6. \A e \in Edits : stage'[e] = "applied" => e \in saved'
    BY <2>1 DEF InState
  <2> QED
    BY <2>1, <2>2, <2>3, <2>4, <2>5, <2>6 DEF Remembered
<1>4. CASE UNCHANGED <<mDirty, raced>> /\ ConvertInput
  BY <1>0, <1>4, InputCounted DEF Grown, EditsOK, Remembered, At
<1>5. CASE UNCHANGED <<mDirty, raced>> /\ ConvertOutput
  BY <1>0, <1>5, OutputCounted DEF Grown, EditsOK, Remembered
<1>6. CASE UNCHANGED <<mDirty, raced>> /\ PluginTakesEvents
  BY <1>6, EventsTaken DEF EditsOK, Remembered
<1>7. ASSUME NEW e \in OwnEdits, MarkDirty(e) PROVE EditsOK' /\ Remembered'
  <2>1. e \in Edits /\ stage[e] = "none" /\ stage' = [stage EXCEPT ![e] = "applied"]
        /\ dirty' = dirty + 1 /\ UNCHANGED <<marker, saved, mDirty, raced>>
    BY <1>7 DEF MarkDirty, Edits, mainVars, history
  <2>2. stage' \in [Edits -> Stages] /\ Counted' = Counted \cup {e} /\ e \notin Counted
        /\ At("buffer")' = At("buffer")
    BY <2>1 DEF EditsOK, Counted, At, Stages
  <2>3. Cardinality(Counted') = Cardinality(Counted) + 1
    <3>1. IsFiniteSet(Counted)
      BY EditsAreFinite DEF Counted
    <3> QED
      BY <2>2, <3>1, FS_AddElement
  <2> QED
    BY <1>0, <2>1, <2>2, <2>3 DEF EditsOK, Remembered
<1> QED
  BY <1>1, <1>2, <1>3, <1>4, <1>5, <1>6, <1>7 DEF Effect

\* autosave reads the marker, and saves afterwards: what comes in between is
\* saved by the next one, unless it was counted before it was applied (raced).
THEOREM EditsAreKept == Spec => []NoEditForgotten
<1>1. Remembered => NoEditForgotten
  BY DEF Remembered, NoEditForgotten
<1> QED
  BY <1>1, EditsInit, EditsStep, PTL DEF Spec

-----------------------------------------------------------------------------
(* The rest of the types.                                                  *)

Plain ==
  /\ ports \in {"audio", "noChannels", "events"}
  /\ rate \in Rates \cup {0} /\ mRate \in Rates \cup {0}
  /\ scheduleProcess \in BOOLEAN /\ schedulePanic \in BOOLEAN
  /\ uses \in [Kinds -> Nat]

LEMMA PlainInit == Init => Plain
<1> SUFFICES ASSUME Init PROVE Plain
  OBVIOUS
<1>1. uses \in [Kinds -> Nat]
  BY DEF Init
<1>2. rate = 0 /\ mRate = 0
  BY DEF Init
<1> QED
  BY <1>1, <1>2 DEF Init, Plain

LEMMA UsesTyped ==
  ASSUME uses \in [Kinds -> Nat], NEW kind, Use(kind)
  PROVE  uses' \in [Kinds -> Nat]
<1>1. uses' = [uses EXCEPT ![kind] = @ + 1]
  BY DEF Use
<1>2. CASE kind \in Kinds
  BY <1>1, <1>2
<1>3. CASE kind \notin Kinds
  BY <1>1, <1>3
<1> QED
  BY <1>2, <1>3

LEMMA PlainStep == Plain /\ [Next]_vars => Plain'
<1> SUFFICES ASSUME Plain, [Next]_vars PROVE Plain'
  OBVIOUS
<1> USE DEF Plain,
           modelVars, flagVars, mainVars, audioVars, editVars, history
<1>1. ASSUME NEW sr \in Rates, Activate(sr) PROVE Plain'
  BY <1>1, UsesTyped DEF Activate
<1>2. CASE Deactivate
  BY <1>2, UsesTyped DEF Deactivate
<1>3. CASE SchedulePanic
  BY <1>3, UsesTyped DEF SchedulePanic
<1>4. CASE Reactivate
  BY <1>4 DEF Reactivate
<1>5. CASE ActivatePlugin
  BY <1>5 DEF ActivatePlugin
<1>6. CASE Schedule
  BY <1>6 DEF Schedule
<1>7. CASE DeactivatePlugin
  BY <1>7 DEF DeactivatePlugin
<1>8. CASE UnsetProcessing
  BY <1>8 DEF UnsetProcessing
<1>9. CASE StopAudio
  BY <1>9 DEF StopAudio
<1>10. CASE Join
  BY <1>10 DEF Join
<1>11. CASE MessagesDone
  BY <1>11 DEF MessagesDone
<1>12. CASE FlushConvert
  BY <1>12 DEF FlushConvert, ConvertInput
<1>13. CASE FlushClear
  BY <1>13 DEF FlushClear
<1>14. CASE FlushPlugin
  BY <1>14 DEF FlushPlugin, PluginTakesEvents
<1>15. CASE FlushOutput
  BY <1>15 DEF FlushOutput, ConvertOutput
<1>16. CASE AutosaveRead
  BY <1>16 DEF AutosaveRead
<1>17. CASE AutosaveSave
  BY <1>17 DEF AutosaveSave
<1>18. CASE ActivateFails
  BY <1>18, UsesTyped DEF ActivateFails
<1>19. CASE AutosaveFails
  BY <1>19, UsesTyped DEF AutosaveFails
<1>20. CASE CycleBegin
  BY <1>20 DEF CycleBegin
<1>21. CASE ThreadStops
  BY <1>21 DEF ThreadStops
<1>22. CASE Panic
  BY <1>22 DEF Panic
<1>23. CASE Convert
  BY <1>23 DEF Convert, ConvertInput
<1>24. CASE Flush
  BY <1>24 DEF Flush, PluginTakesEvents
<1>25. CASE OutputFirst
  BY <1>25 DEF OutputFirst, ConvertOutput
<1>26. CASE Unschedule
  BY <1>26 DEF Unschedule
<1>27. CASE Start
  BY <1>27 DEF Start
<1>28. CASE SetProcessing
  BY <1>28 DEF SetProcessing
<1>29. CASE Run
  BY <1>29 DEF Run, ConvertInput
<1>30. CASE GoneToSleep
  BY <1>30 DEF GoneToSleep
<1>31. CASE Output
  BY <1>31 DEF Output, ConvertOutput
<1>32. ASSUME NEW status \in {"continue", "sleep", "error"}, Process(status) PROVE Plain'
  BY <1>32 DEF Process, PluginTakesEvents
<1>33. CASE StartFails
  BY <1>33, UsesTyped DEF StartFails
<1>34. CASE RequestProcess
  BY <1>34, UsesTyped DEF RequestProcess
<1>35. ASSUME NEW e \in HostEdits, QueueEdit(e) PROVE Plain'
  BY <1>35 DEF QueueEdit
<1>36. ASSUME NEW e \in HostEdits, HostEdit(e) PROVE Plain'
  BY <1>36 DEF HostEdit
<1>37. ASSUME NEW e \in OwnEdits, PluginEdit(e) PROVE Plain'
  BY <1>37 DEF PluginEdit
<1>38. ASSUME NEW e \in OwnEdits, MarkDirty(e) PROVE Plain'
  BY <1>38 DEF MarkDirty
<1>39. CASE UNCHANGED vars
  BY <1>39 DEF vars
<1> QED
  BY <1>1, <1>2, <1>3, <1>4, <1>5, <1>6, <1>7, <1>8, <1>9, <1>10, <1>11, <1>12, <1>13,
     <1>14, <1>15, <1>16, <1>17, <1>18, <1>19, <1>20, <1>21, <1>22, <1>23, <1>24, <1>25, <1>26,
     <1>27, <1>28, <1>29, <1>30, <1>31, <1>32, <1>33, <1>34, <1>35, <1>36, <1>37, <1>38, <1>39
     DEF Next, MainStep, AudioStep

\* The dirty marker never counts more edits than there are.
THEOREM TypeCorrect == Spec => []TypeOK
<1>1. EditsOK => dirty \in 0 .. Cardinality(Edits)
  <2>1. Counted \in SUBSET Edits
    BY DEF Counted
  <2>2. Cardinality(Counted) \in Nat /\ Cardinality(Counted) <= Cardinality(Edits)
    BY <2>1, EditsAreFinite, FS_Subset
  <2> QED
    BY <2>2, EditsAreFinite DEF EditsOK
<1>2. Phases /\ Calm /\ EditsOK /\ Plain => TypeOK
  BY <1>1 DEF Phases, MainPhases, AudioPhases, Calm, EditsOK, Plain, TypeOK
<1> QED
  BY <1>2, PhasesInit, PhasesStep, CalmInit, CalmStep, EditsInit, EditsStep, PlainInit,
     PlainStep, PTL DEF Spec
=============================================================================
