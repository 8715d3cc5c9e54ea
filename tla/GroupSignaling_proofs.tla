------------------------ MODULE GroupSignaling_proofs ------------------------
(***************************************************************************)
(* Theorems about GroupSignaling, for every finite set of sandboxes, every *)
(* implementation of the events and every value of the bounds.             *)
(***************************************************************************)
EXTENDS GroupSignaling, FiniteSetTheorems, TLAPS

\* The number of sandboxes of a group, and of active ones.
LEMMA CountType ==
  /\ N \in Nat
  /\ \A l, c : ActiveCount(l, c) \in 0 .. N
<1>1. N \in Nat
  BY SandboxesAssumption, FS_CardinalityType DEF N
<1>2. ASSUME NEW l, NEW c PROVE ActiveCount(l, c) \in 0 .. N
  <2> DEFINE A == {s \in Sandboxes : l[s] /\ c[s] /\ Running(s)}
  <2>1. A \subseteq Sandboxes
    OBVIOUS
  <2>2. IsFiniteSet(A) /\ Cardinality(A) <= Cardinality(Sandboxes)
    BY <2>1, SandboxesAssumption, FS_Subset
  <2>3. Cardinality(A) \in Nat
    BY <2>2, FS_CardinalityType
  <2>4. QED BY <1>1, <2>2, <2>3 DEF ActiveCount, N
<1>3. QED BY <1>1, <1>2

\* A group of variables that a step leaves alone keeps its types.
LEMMA Unchanged ==
  ASSUME TypeOK
  PROVE  /\ UNCHANGED <<platform, budget, shmVars>> => TypeShm'
         /\ UNCHANGED msgVars => TypeMsg'
         /\ UNCHANGED modelVars => TypeModel'
         /\ UNCHANGED audioVars => TypeAudio'
         /\ UNCHANGED pollVars => TypePoll'
         /\ UNCHANGED apiVars => TypeApi'
         /\ UNCHANGED sboxVars => TypeSbox'
         /\ UNCHANGED history => TypeHistory'
<1>1. UNCHANGED <<platform, budget, shmVars>> => TypeShm'
  BY DEF TypeOK, TypeShm, shmVars
<1>2. UNCHANGED msgVars => TypeMsg'
  BY DEF TypeOK, TypeMsg, msgVars
<1>3. UNCHANGED modelVars => TypeModel'
  BY DEF TypeOK, TypeModel, modelVars
<1>4. UNCHANGED audioVars => TypeAudio'
  BY DEF TypeOK, TypeAudio, audioVars
<1>5. UNCHANGED pollVars => TypePoll'
  BY DEF TypeOK, TypePoll, pollVars
<1>6. UNCHANGED apiVars => TypeApi'
  BY DEF TypeOK, TypeApi, apiVars
<1>7. UNCHANGED sboxVars => TypeSbox'
  BY DEF TypeOK, TypeSbox, sboxVars
<1>8. UNCHANGED history => TypeHistory'
  BY DEF TypeOK, TypeHistory, history
<1>9. QED BY <1>1, <1>2, <1>3, <1>4, <1>5, <1>6, <1>7, <1>8

\* PublishFlags keeps the types of the model.
LEMMA PublishType ==
  ASSUME TypeOK, NEW s \in Sandboxes, NEW l \in BOOLEAN, NEW c \in BOOLEAN,
         PublishFlags(s, l, c)
  PROVE  TypeModel'
<1>1. total' \in 0 .. N
  BY CountType DEF PublishFlags
<1>2. launched' \in [Sandboxes -> BOOLEAN] /\ confirmed' \in [Sandboxes -> BOOLEAN]
  BY DEF PublishFlags, TypeOK, TypeModel
<1>3. published' \in 0 .. N
  BY <1>1 DEF PublishFlags
<1>4. QED BY <1>1, <1>2, <1>3 DEF TypeModel

\* A bounded action counts itself.
LEMMA UseType ==
  ASSUME TypeOK, NEW kind \in Kinds, Use(kind)
  PROVE  uses' \in [Kinds -> Nat]
BY DEF Use, TypeOK, TypeHistory

LEMMA TypeInit == Init => TypeOK
<1> SUFFICES ASSUME Init PROVE TypeOK
  OBVIOUS
<1>1. 0 \in 0 .. N /\ 0 \in 0 .. CounterMod - 1
  BY CountType, CounterAssumption DEF N
<1>2. TypeShm
  BY <1>1 DEF Init, TypeShm
<1>3. TypeMsg
  BY DEF Init, TypeMsg
<1>4. TypeModel
  BY <1>1 DEF Init, TypeModel
<1>5. TypeAudio
  BY <1>1 DEF Init, TypeAudio
<1>6. TypePoll
  BY SandboxesAssumption DEF Init, TypePoll, Flags
<1>7. TypeApi
  BY <1>1, SandboxesAssumption DEF Init, TypeApi, Flags
<1>8. TypeSbox
  BY DEF Init, TypeSbox
<1>9. TypeHistory
  <2>1. served \in [Sandboxes -> 0 .. 2]
    <3>1. 0 \in 0 .. 2
      OBVIOUS
    <3>2. QED BY <3>1 DEF Init
  <2>2. uses \in [Kinds -> Nat]
    BY DEF Init
  <2>3. QED BY <2>1, <2>2 DEF Init, TypeHistory
<1>10. QED BY <1>2, <1>3, <1>4, <1>5, <1>6, <1>7, <1>8, <1>9 DEF TypeOK

LEMMA AudioType ==
  TypeOK /\ (Audio \/ AudioInterrupted) => TypeOK'
<1> SUFFICES ASSUME TypeOK, (Audio \/ AudioInterrupted) PROVE TypeOK'
  OBVIOUS
<1>1. CASE AudioBegin
  <2>1. TypeAudio'
    BY <1>1 DEF AudioBegin, TypeOK, TypeAudio, TypeModel
  <2>2. TypeHistory'
    BY <1>1 DEF AudioBegin, TypeOK, TypeHistory
  <2>3. QED BY <1>1, <2>1, <2>2, Unchanged DEF AudioBegin, TypeOK
<1>2. CASE AudioStore
  <2>1. TypeShm'
    BY <1>2, CountType, CounterAssumption DEF AudioStore, TypeOK, TypeShm, TypeAudio, N
  <2>2. TypeAudio'
    BY <1>2 DEF AudioStore, TypeOK, TypeAudio
  <2>3. QED BY <1>2, <2>1, <2>2, Unchanged DEF AudioStore, TypeOK
<1>3. CASE AudioSignal
  <2>1. TypeShm'
    BY <1>3, SandboxesAssumption DEF AudioSignal, TypeOK, TypeShm, SignalTarget, Set
  <2>2. TypeAudio'
    BY <1>3, CountType DEF AudioSignal, TypeOK, TypeAudio, AfterSet
  <2>3. QED BY <1>3, <2>1, <2>2, Unchanged DEF AudioSignal, TypeOK
<1>4. CASE AudioSignalled
  <2>1. TypeAudio'
    BY <1>4 DEF AudioSignalled, TypeOK, TypeAudio
  <2>2. QED BY <1>4, <2>1, Unchanged DEF AudioSignalled, TypeOK
<1>5. CASE AudioWake
  <2>1. TypeShm'
    BY <1>5 DEF AudioWake, TypeOK, TypeShm
  <2>2. TypeAudio'
    BY <1>5 DEF AudioWake, TypeOK, TypeAudio
  <2>3. QED BY <1>5, <2>1, <2>2, Unchanged DEF AudioWake, TypeOK
<1>6. CASE AudioReset
  <2>1. TypeShm'
    BY <1>6 DEF AudioReset, TypeOK, TypeShm
  <2>2. TypeAudio'
    BY <1>6 DEF AudioReset, TypeOK, TypeAudio
  <2>3. QED BY <1>6, <2>1, <2>2, Unchanged DEF AudioReset, TypeOK
<1>7. CASE AudioCheck
  <2>1. TypeAudio'
    BY <1>7 DEF AudioCheck, TypeOK, TypeAudio
  <2>2. QED BY <1>7, <2>1, Unchanged DEF AudioCheck, TypeOK
<1>8. CASE AudioReturn
  <2>1. TypeAudio'
    BY <1>8 DEF AudioReturn, TypeOK, TypeAudio
  <2>2. QED BY <1>8, <2>1, Unchanged DEF AudioReturn, TypeOK
<1>9. CASE AudioInterrupted
  <2>1. TypeAudio'
    BY <1>9 DEF AudioInterrupted, TypeOK, TypeAudio
  <2>2. uses' \in [Kinds -> Nat]
    BY <1>9, UseType DEF AudioInterrupted, Kinds
  <2>3. TypeHistory'
    BY <1>9, <2>2 DEF AudioInterrupted, TypeOK, TypeHistory
  <2>4. QED BY <1>9, <2>1, <2>3, Unchanged DEF AudioInterrupted, TypeOK
<1>10. CASE AudioFutexWake
  <2>1. TypeAudio'
    BY <1>10 DEF AudioFutexWake, TypeOK, TypeAudio
  <2>2. TypeSbox'
    BY <1>10 DEF AudioFutexWake, TypeOK, TypeSbox, Woken
  <2>3. QED BY <1>10, <2>1, <2>2, Unchanged DEF AudioFutexWake, TypeOK
<1>11. CASE AudioFutexWait
  <2>1. TypeAudio'
    BY <1>11 DEF AudioFutexWait, TypeOK, TypeAudio
  <2>2. QED BY <1>11, <2>1, Unchanged DEF AudioFutexWait, TypeOK
<1>12. QED
  BY <1>1, <1>2, <1>3, <1>4, <1>5, <1>6, <1>7, <1>8, <1>9, <1>10, <1>11 DEF Audio

LEMMA ThreadType ==
  ASSUME TypeOK, NEW s \in Sandboxes, Thread(s) \/ ThreadInterrupted(s)
  PROVE  TypeOK'
<1>1. CASE ThreadTop(s)
  <2>1. TypeSbox'
    BY <1>1 DEF ThreadTop, TypeOK, TypeSbox
  <2>2. QED BY <1>1, <2>1, Unchanged DEF ThreadTop, TypeOK
<1>2. CASE ThreadWake(s)
  <2>1. TypeShm'
    BY <1>2 DEF ThreadWake, TypeOK, TypeShm
  <2>2. TypeSbox'
    BY <1>2 DEF ThreadWake, TypeOK, TypeSbox
  <2>3. QED BY <1>2, <2>1, <2>2, Unchanged DEF ThreadWake, TypeOK
<1>3. CASE ThreadReset(s)
  <2>1. TypeShm'
    BY <1>3 DEF ThreadReset, TypeOK, TypeShm
  <2>2. TypeSbox'
    BY <1>3 DEF ThreadReset, TypeOK, TypeSbox
  <2>3. QED BY <1>3, <2>1, <2>2, Unchanged DEF ThreadReset, TypeOK
<1>4. CASE ThreadCheck(s)
  <2>1. TypeSbox'
    BY <1>4 DEF ThreadCheck, TypeOK, TypeSbox
  <2>2. QED BY <1>4, <2>1, Unchanged DEF ThreadCheck, TypeOK
<1>5. CASE ThreadFinish(s)
  <2>1. TypeShm'
    BY <1>5, CounterAssumption DEF ThreadFinish, TypeOK, TypeShm, Decrement
  <2>2. TypeSbox'
    BY <1>5 DEF ThreadFinish, TypeOK, TypeSbox
  <2>3. TypeHistory'
    BY <1>5 DEF ThreadFinish, TypeOK, TypeHistory
  <2>4. QED BY <1>5, <2>1, <2>2, <2>3, Unchanged DEF ThreadFinish, TypeOK
<1>6. CASE ThreadSignal(s)
  <2>1. TypeShm'
    BY <1>6 DEF ThreadSignal, TypeOK, TypeShm, Set
  <2>2. TypeSbox'
    BY <1>6 DEF ThreadSignal, TypeOK, TypeSbox, AfterSet
  <2>3. QED BY <1>6, <2>1, <2>2, Unchanged DEF ThreadSignal, TypeOK
<1>7. CASE ThreadInterrupted(s)
  <2>1. TypeSbox'
    BY <1>7 DEF ThreadInterrupted, TypeOK, TypeSbox
  <2>2. uses' \in [Kinds -> Nat]
    BY <1>7, UseType DEF ThreadInterrupted, Kinds
  <2>3. TypeHistory'
    BY <1>7, <2>2 DEF ThreadInterrupted, TypeOK, TypeHistory
  <2>4. QED BY <1>7, <2>1, <2>3, Unchanged DEF ThreadInterrupted, TypeOK
<1>8. CASE ThreadFutexWait(s)
  <2>1. TypeSbox'
    BY <1>8 DEF ThreadFutexWait, TypeOK, TypeSbox
  <2>2. QED BY <1>8, <2>1, Unchanged DEF ThreadFutexWait, TypeOK
<1>9. CASE ThreadFutexWake(s)
  <2>1. TypeSbox'
    BY <1>9 DEF ThreadFutexWake, TypeOK, TypeSbox
  <2>2. TypeAudio'
    BY <1>9 DEF ThreadFutexWake, TypeOK, TypeAudio, Woken
  <2>3. QED BY <1>9, <2>1, <2>2, Unchanged DEF ThreadFutexWake, TypeOK
<1>10. QED BY <1>1, <1>2, <1>3, <1>4, <1>5, <1>6, <1>7, <1>8, <1>9 DEF Thread

LEMMA SboxType ==
  ASSUME TypeOK, NEW s \in Sandboxes, Sbox(s) \/ Crash(s)
  PROVE  TypeOK'
<1>1. CASE SboxOpen(s)
  <2>1. TypeShm'
    BY <1>1 DEF SboxOpen, TypeOK, TypeShm
  <2>2. TypeSbox'
    BY <1>1 DEF SboxOpen, TypeOK, TypeSbox
  <2>3. QED BY <1>1, <2>1, <2>2, Unchanged DEF SboxOpen, TypeOK
<1>2. CASE SboxActivate(s)
  <2>1. TypeMsg'
    BY <1>2 DEF SboxActivate, TypeOK, TypeMsg, Receive
  <2>2. TypeSbox'
    <3>1. tpc' \in [Sandboxes -> {"none", "top", "wait", "asleep", "reset", "check",
                                 "process", "signal", "futexWake", "exited"}]
      BY <1>2 DEF SboxActivate, TypeOK, TypeSbox
    <3>2. stop' \in [Sandboxes -> BOOLEAN]
      BY <1>2 DEF SboxActivate, TypeOK, TypeSbox
    <3>3. unsent' \in [Sandboxes -> Nat]
      BY <1>2 DEF SboxActivate, TypeOK, TypeSbox
    <3>4. QED BY <1>2, <3>1, <3>2, <3>3 DEF SboxActivate, TypeOK, TypeSbox
  <2>3. QED BY <1>2, <2>1, <2>2, Unchanged DEF SboxActivate, TypeOK
<1>3. CASE SboxDeactivate(s)
  <2>1. TypeMsg'
    BY <1>3 DEF SboxDeactivate, TypeOK, TypeMsg, Receive
  <2>2. TypeSbox'
    BY <1>3 DEF SboxDeactivate, TypeOK, TypeSbox
  <2>3. QED BY <1>3, <2>1, <2>2, Unchanged DEF SboxDeactivate, TypeOK
<1>4. CASE SboxUnblock(s)
  <2>1. TypeShm'
    BY <1>4 DEF SboxUnblock, TypeOK, TypeShm, Set
  <2>2. TypeSbox'
    BY <1>4 DEF SboxUnblock, TypeOK, TypeSbox, AfterSet
  <2>3. QED BY <1>4, <2>1, <2>2, Unchanged DEF SboxUnblock, TypeOK
<1>5. CASE SboxJoin(s)
  <2>1. TypeSbox'
    BY <1>5 DEF SboxJoin, TypeOK, TypeSbox
  <2>2. QED BY <1>5, <2>1, Unchanged DEF SboxJoin, TypeOK
<1>6. CASE SboxSend(s)
  <2>1. TypeMsg'
    BY <1>6 DEF SboxSend, TypeOK, TypeMsg, TypeSbox
  <2>2. TypeSbox'
    BY <1>6 DEF SboxSend, TypeOK, TypeSbox
  <2>3. QED BY <1>6, <2>1, <2>2, Unchanged DEF SboxSend, TypeOK
<1>7. CASE Crash(s)
  <2>1. TypeSbox'
    BY <1>7 DEF Crash, TypeOK, TypeSbox, Die
  <2>2. uses' \in [Kinds -> Nat]
    BY <1>7, UseType DEF Crash, Kinds
  <2>3. TypeHistory'
    BY <1>7, <2>2 DEF Crash, TypeOK, TypeHistory
  <2>4. QED BY <1>7, <2>1, <2>3, Unchanged DEF Crash, TypeOK
<1>8. CASE SboxFutexWake(s)
  <2>1. TypeSbox'
    BY <1>8 DEF SboxFutexWake, TypeOK, TypeSbox, Woken
  <2>2. QED BY <1>8, <2>1, Unchanged DEF SboxFutexWake, TypeOK
<1>9. QED BY <1>1, <1>2, <1>3, <1>4, <1>5, <1>6, <1>7, <1>8 DEF Sbox

LEMMA PollType ==
  TypeOK /\ Poll => TypeOK'
<1> SUFFICES ASSUME TypeOK, Poll PROVE TypeOK'
  OBVIOUS
<1>1. CASE PollBegin
  <2>1. TypePoll'
    BY <1>1 DEF PollBegin, TypeOK, TypePoll, Flags, TypeModel
  <2>2. QED BY <1>1, <2>1, Unchanged DEF PollBegin, TypeOK
<1>2. CASE PollUnblocks
  <2>1. TypeShm'
    BY <1>2 DEF PollUnblocks, TypeOK, TypeShm, Set
  <2>2. TypePoll'
    BY <1>2 DEF PollUnblocks, TypeOK, TypePoll, AfterSet
  <2>3. TypeHistory'
    BY <1>2 DEF PollUnblocks, TypeOK, TypeHistory
  <2>4. QED BY <1>2, <2>1, <2>2, <2>3, Unchanged DEF PollUnblocks, TypeOK
<1>3. CASE PollConfirms
  <2>1. TypeModel'
    BY <1>3, PublishType DEF PollConfirms, TypeOK, TypeModel, TypePoll
  <2>2. TypePoll'
    BY <1>3 DEF PollConfirms, TypeOK, TypePoll
  <2>3. QED BY <1>3, <2>1, <2>2, Unchanged DEF PollConfirms, TypeOK
<1>4. CASE PollEnd
  <2>1. TypePoll'
    BY <1>4 DEF PollEnd, TypeOK, TypePoll
  <2>2. QED BY <1>4, <2>1, Unchanged DEF PollEnd, TypeOK
<1>5. ASSUME NEW s \in Sandboxes, PollFindsDead(s) PROVE TypeOK'
  <2>1. TypeModel'
    BY <1>5, PublishType DEF PollFindsDead, TypeOK, TypeModel, TypePoll
  <2>2. TypePoll'
    BY <1>5 DEF PollFindsDead, TypeOK, TypePoll
  <2>3. QED BY <1>5, <2>1, <2>2, Unchanged DEF PollFindsDead, TypeOK
<1>6. ASSUME NEW s \in Sandboxes, PollReceives(s) PROVE TypeOK'
  <2>1. TypeMsg'
    BY <1>6 DEF PollReceives, TypeOK, TypeMsg
  <2>2. TypePoll'
    BY <1>6 DEF PollReceives, TypeOK, TypePoll, TypeMsg
  <2>3. QED BY <1>6, <2>1, <2>2, Unchanged DEF PollReceives, TypeOK
<1>7. CASE PollFutexWake
  <2>1. TypePoll'
    BY <1>7 DEF PollFutexWake, TypeOK, TypePoll
  <2>2. TypeAudio'
    BY <1>7 DEF PollFutexWake, TypeOK, TypeAudio, Woken
  <2>3. QED BY <1>7, <2>1, <2>2, Unchanged DEF PollFutexWake, TypeOK
<1>8. QED BY <1>1, <1>2, <1>3, <1>4, <1>5, <1>6, <1>7 DEF Poll

LEMMA ApiType ==
  TypeOK /\ Api => TypeOK'
<1> SUFFICES ASSUME TypeOK, Api PROVE TypeOK'
  OBVIOUS
<1>1. CASE Activate
  <2>1. TypeMsg'
    BY <1>1 DEF Activate, TypeOK, TypeMsg
  <2>2. uses' \in [Kinds -> Nat]
    BY <1>1, UseType DEF Activate, Kinds
  <2>3. TypeHistory'
    BY <1>1, <2>2 DEF Activate, TypeOK, TypeHistory
  <2>4. QED BY <1>1, <2>1, <2>3, Unchanged DEF Activate, TypeOK
<1>2. CASE Deactivate
  <2>1. TypeMsg'
    BY <1>2 DEF Deactivate, TypeOK, TypeMsg
  <2>2. uses' \in [Kinds -> Nat]
    BY <1>2, UseType DEF Deactivate, Kinds
  <2>3. TypeHistory'
    BY <1>2, <2>2 DEF Deactivate, TypeOK, TypeHistory
  <2>4. QED BY <1>2, <2>1, <2>3, Unchanged DEF Deactivate, TypeOK
<1>3. CASE RenderModeBegin
  <2>1. TypeApi'
    BY <1>3 DEF RenderModeBegin, TypeOK, TypeApi, TypeModel
  <2>2. uses' \in [Kinds -> Nat]
    BY <1>3, UseType DEF RenderModeBegin, Kinds
  <2>3. TypeHistory'
    BY <1>3, <2>2 DEF RenderModeBegin, TypeOK, TypeHistory
  <2>4. QED BY <1>3, <2>1, <2>3, Unchanged DEF RenderModeBegin, TypeOK
<1>4. CASE RenderModeInsert
  <2>1. TypeModel'
    BY <1>4 DEF RenderModeInsert, TypeOK, TypeModel, TypeApi
  <2>2. TypeApi'
    BY <1>4 DEF RenderModeInsert, TypeOK, TypeApi
  <2>3. QED BY <1>4, <2>1, <2>2, Unchanged DEF RenderModeInsert, TypeOK
<1>5. CASE Publish
  <2>1. TypeModel'
    BY <1>5 DEF Publish, TypeOK, TypeModel
  <2>2. QED BY <1>5, <2>1, Unchanged DEF Publish, TypeOK
<1>6. CASE RestartSpawn
  <2>1. TypeMsg'
    <3>1. Append(inbox[iSbox], "activate") \in Seq({"activate", "deactivate"})
      BY DEF TypeOK, TypeMsg, TypeApi
    <3>2. inbox' \in [Sandboxes -> Seq({"activate", "deactivate"})]
      BY <1>6, <3>1 DEF RestartSpawn, TypeOK, TypeMsg
    <3>3. QED BY <1>6, <3>2 DEF RestartSpawn, TypeOK, TypeMsg
  <2>2. TypeApi'
    BY <1>6 DEF RestartSpawn, TypeOK, TypeApi
  <2>3. TypeSbox'
    BY <1>6 DEF RestartSpawn, TypeOK, TypeSbox, TypeApi
  <2>4. QED BY <1>6, <2>1, <2>2, <2>3, Unchanged DEF RestartSpawn, TypeOK
<1>7. CASE RestartInsert
  <2>1. TypeModel'
    BY <1>7 DEF RestartInsert, TypeOK, TypeModel, TypeApi
  <2>2. TypeApi'
    BY <1>7 DEF RestartInsert, TypeOK, TypeApi
  <2>3. QED BY <1>7, <2>1, <2>2, Unchanged DEF RestartInsert, TypeOK
<1>8. ASSUME NEW s \in Sandboxes, RestartBegin(s) PROVE TypeOK'
  <2>1. TypeApi'
    BY <1>8 DEF RestartBegin, TypeOK, TypeApi, Flags, TypeModel
  <2>2. TypeSbox'
    BY <1>8 DEF RestartBegin, TypeOK, TypeSbox, Die
  <2>3. uses' \in [Kinds -> Nat]
    BY <1>8, UseType DEF RestartBegin, Kinds
  <2>4. TypeHistory'
    BY <1>8, <2>3 DEF RestartBegin, TypeOK, TypeHistory
  <2>5. QED BY <1>8, <2>1, <2>2, <2>4, Unchanged DEF RestartBegin, TypeOK
<1>9. QED BY <1>1, <1>2, <1>3, <1>4, <1>5, <1>6, <1>7, <1>8 DEF Api, ApiSteps

LEMMA TypeStep == TypeOK /\ [Next]_vars => TypeOK'
<1>1. ASSUME TypeOK, UNCHANGED vars PROVE TypeOK'
  <2>1. /\ UNCHANGED <<platform, budget, shmVars>> /\ UNCHANGED msgVars /\ UNCHANGED modelVars
        /\ UNCHANGED audioVars /\ UNCHANGED pollVars /\ UNCHANGED apiVars
        /\ UNCHANGED sboxVars /\ UNCHANGED history
    BY <1>1 DEF vars
  <2>2. QED BY <1>1, <2>1, Unchanged DEF TypeOK
<1>2. QED BY <1>1, AudioType, ThreadType, SboxType, PollType, ApiType DEF Next

\* Every variable keeps its type: in particular the number of active sandboxes
\* that client.cpp keeps in two copies never exceeds the size of the group, and
\* the counter is an unsigned number of its width.
THEOREM TypeCorrect == Spec => []TypeOK
BY TypeInit, TypeStep, PTL DEF Spec

-----------------------------------------------------------------------------
(* The accounting of a cycle.  CycleAccounted is inductive relative to      *)
(* TypeOK; DoneMeansQuiet, NeverOvernotified and SilenceOnlyAfterAbort are  *)
(* not, and follow from it.                                                *)

LEMMA Numbers ==
  ASSUME TypeOK
  PROVE  /\ counter \in Nat /\ done \in Nat /\ aTotal \in Nat /\ aLeft \in Nat
         /\ First \in Sandboxes /\ work[First] \in Nat
<1>1. counter \in Nat
  BY CounterAssumption DEF TypeOK, TypeShm
<1>2. aTotal \in Nat /\ aLeft \in Nat
  BY CountType DEF TypeOK, TypeAudio
<1>3. QED BY <1>1, <1>2, SandboxesAssumption DEF TypeOK, TypeShm

\* What Calm and Accounted are about.
LEMMA CalmSame ==
  ASSUME Calm, UNCHANGED <<stop, mpc, inbox, work, tpc>>
  PROVE  Calm'
BY DEF Calm, Busy

LEMMA AccountedSame ==
  ASSUME Accounted, UNCHANGED <<platform, budget, counter, done, work, tpc, audioVars>>
  PROVE  Accounted'
BY DEF Accounted, Unanswered, Answers, Semaphore, audioVars

\* A bounded action is counted, so nothing makes a run undisturbed again.
LEMMA UseCounts ==
  ASSUME TypeOK, NEW kind \in Kinds, Use(kind)
  PROVE  /\ uses'[kind] # 0
         /\ \A k \in Kinds : uses'[k] = 0 => uses[k] = 0
BY DEF Use, TypeOK, TypeHistory

LEMMA UndisturbedSame ==
  ASSUME TypeOK, UNCHANGED <<platform, budget, unblocked>>, Undisturbed',
         \/ UNCHANGED uses
         \/ \E kind \in Kinds : Use(kind)
  PROVE  Undisturbed
<1>1. CASE UNCHANGED uses
  BY <1>1 DEF Undisturbed, Futex
<1>2. ASSUME NEW kind \in Kinds, Use(kind) PROVE Undisturbed
  BY <1>2, UseCounts DEF Undisturbed, Kinds, Futex
<1>3. QED BY <1>1, <1>2

LEMMA StaysDisturbed ==
  ASSUME TypeOK, [Next]_vars, Undisturbed'
  PROVE  Undisturbed
<1>1. CASE UNCHANGED vars
  BY <1>1 DEF vars, history, Undisturbed, Futex
<1>2. CASE Audio
  BY <1>2, UndisturbedSame DEF Audio, AudioBegin, AudioStore, AudioSignal, AudioSignalled,
       AudioFutexWake, AudioFutexWait, AudioWake, AudioReset, AudioCheck, AudioReturn, history
<1>3. CASE AudioInterrupted
  BY <1>3, UndisturbedSame DEF AudioInterrupted, Kinds
<1>4. CASE Poll
  <2>1. CASE PollUnblocks
    BY <2>1 DEF PollUnblocks, Undisturbed
  <2>2. CASE ~PollUnblocks
    <3>1. UNCHANGED <<platform, budget, history>>
      BY <1>4, <2>2 DEF Poll, PollBegin, PollConfirms, PollEnd, PollFindsDead,
           PollReceives, PollFutexWake
    <3>2. QED BY <3>1, UndisturbedSame DEF history
  <2>3. QED BY <2>1, <2>2
<1>5. CASE Api
  <2>1. CASE Activate
    BY <2>1, UndisturbedSame DEF Activate, Kinds
  <2>2. CASE Deactivate
    BY <2>2, UndisturbedSame DEF Deactivate, Kinds
  <2>3. CASE RenderModeBegin
    BY <2>3, UndisturbedSame DEF RenderModeBegin, Kinds
  <2>4. CASE Publish \/ ApiSteps
    BY <2>4, UndisturbedSame DEF Publish, ApiSteps, RestartSpawn, RestartInsert,
         RenderModeInsert, history
  <2>5. ASSUME NEW s \in Sandboxes, RestartBegin(s) PROVE Undisturbed
    BY <2>5, UndisturbedSame DEF RestartBegin, Kinds
  <2>6. QED BY <1>5, <2>1, <2>2, <2>3, <2>4, <2>5 DEF Api
<1>6. ASSUME NEW s \in Sandboxes, Thread(s) \/ Sbox(s) PROVE Undisturbed
  <2>1. UNCHANGED <<platform, budget, unblocked, uses>>
    BY <1>6 DEF Thread, ThreadTop, ThreadWake, ThreadFutexWait, ThreadFutexWake, ThreadReset, ThreadCheck, ThreadFinish,
         ThreadSignal, Sbox, SboxOpen, SboxActivate, SboxDeactivate, SboxUnblock,
         SboxFutexWake, SboxJoin, SboxSend, history
  <2>2. QED BY <2>1, UndisturbedSame
<1>7. ASSUME NEW s \in Sandboxes, ThreadInterrupted(s) PROVE Undisturbed
  BY <1>7, UndisturbedSame DEF ThreadInterrupted, Kinds
<1>8. ASSUME NEW s \in Sandboxes, Crash(s) PROVE Undisturbed
  BY <1>8, UndisturbedSame DEF Crash, Kinds
<1>9. QED BY <1>1, <1>2, <1>3, <1>4, <1>5, <1>6, <1>7, <1>8 DEF Next

LEMMA AccountedInit == Init => CycleAccounted
<1> SUFFICES ASSUME Init PROVE Calm /\ Accounted
  BY DEF CycleAccounted
<1>1. Calm
  BY DEF Init, Calm, Busy
<1>2. Accounted
  BY SandboxesAssumption DEF Init, Accounted, Unanswered, Answers
<1>3. QED BY <1>1, <1>2

\* The host's side of the accounting.
LEMMA AudioAccounted ==
  ASSUME TypeOK, ~Futex, Calm, Accounted, Audio
  PROVE  Calm' /\ Accounted'
<1> USE DEF audioVars, shmVars, msgVars, sboxVars
<1>1. CASE AudioBegin
  <2>1. aTotal' \in Nat
    BY <1>1, CountType DEF AudioBegin, TypeOK, TypeModel
  <2>2. Calm'
    BY <1>1, CalmSame DEF AudioBegin
  <2>3. Accounted'
    BY <1>1, <2>1, Numbers DEF AudioBegin, Accounted, Unanswered, Answers, Semaphore
  <2>4. QED BY <2>2, <2>3
<1>2. CASE AudioStore
  <2>1. Calm'
    BY <1>2, CalmSame DEF AudioStore
  <2>2. Accounted'
    BY <1>2, Numbers DEF AudioStore, Accounted, Unanswered, Answers, Semaphore
  <2>3. QED BY <2>1, <2>2
<1>3. CASE AudioSignal
  <2>1. /\ work' = [work EXCEPT ![First] = Set(@)]
        /\ work'[First] \in Nat /\ work'[First] > 0 /\ work'[First] <= work[First] + 1
    BY <1>3, Numbers DEF AudioSignal, SignalTarget, Set, TypeOK, TypeShm
  <2>2. Calm'
    BY <1>3, <2>1, Numbers DEF AudioSignal, Calm, Busy, TypeOK, TypeShm
  <2>3. Accounted'
    BY <1>3, <2>1, Numbers DEF AudioSignal, Accounted, Unanswered, Answers, Semaphore,
         AfterSet
  <2>4. QED BY <2>2, <2>3
<1>4. CASE AudioSignalled
  <2>1. Calm'
    BY <1>4, CalmSame DEF AudioSignalled
  <2>2. Accounted'
    BY <1>4, Numbers DEF AudioSignalled, Accounted, Unanswered, Answers, Semaphore
  <2>3. QED BY <2>1, <2>2
<1>5. CASE AudioWake
  <2>1. Calm'
    BY <1>5, CalmSame DEF AudioWake
  <2>2. Accounted'
    BY <1>5, Numbers DEF AudioWake, Accounted, Unanswered, Answers, Semaphore
  <2>3. QED BY <2>1, <2>2
<1>6. CASE AudioReset
  <2>1. Calm'
    BY <1>6, CalmSame DEF AudioReset
  <2>2. Accounted'
    BY <1>6, Numbers DEF AudioReset, Accounted, Unanswered, Answers, Semaphore
  <2>3. QED BY <2>1, <2>2
<1>7. CASE AudioCheck
  <2>1. Calm'
    BY <1>7, CalmSame DEF AudioCheck
  <2>2. Accounted'
    BY <1>7, Numbers DEF AudioCheck, Accounted, Unanswered, Answers, Semaphore
  <2>3. QED BY <2>1, <2>2
<1>8. CASE AudioReturn
  <2>1. Calm'
    BY <1>8, CalmSame DEF AudioReturn
  <2>2. Accounted'
    BY <1>8, Numbers DEF AudioReturn, Accounted, Unanswered, Answers, Semaphore
  <2>3. QED BY <2>1, <2>2
<1>9. ~AudioFutexWake /\ ~AudioFutexWait
  BY DEF AudioFutexWake, AudioFutexWait, Accounted
<1>10. QED BY <1>1, <1>2, <1>3, <1>4, <1>5, <1>6, <1>7, <1>8, <1>9 DEF Audio

\* The audio thread of a sandbox: only that of First ever leaves its wait.
LEMMA ThreadAccounted ==
  ASSUME TypeOK, ~Futex, Calm, Accounted, NEW s \in Sandboxes, Thread(s)
  PROVE  Calm' /\ Accounted'
<1> USE DEF audioVars, shmVars, msgVars
<1>1. CASE ThreadTop(s)
  <2>1. /\ tpc' = [tpc EXCEPT ![s] = "wait"]
        /\ tpc[s] = "top"
        /\ UNCHANGED <<platform, budget, counter, done, work, inbox, stop, mpc, apc, aTotal, aLeft>>
    BY <1>1 DEF ThreadTop, Calm
  <2>2. Calm'
    BY <2>1 DEF Calm, Busy, TypeOK, TypeSbox
  <2>3. Accounted'
    BY <2>1, Numbers DEF Accounted, Unanswered, Answers, Semaphore, TypeOK, TypeSbox
  <2>4. QED BY <2>2, <2>3
<1>2. CASE ThreadWake(s)
  <2>1. s = First
    BY <1>2 DEF ThreadWake, Calm
  <2>2. Calm'
    BY <1>2, <2>1 DEF ThreadWake, Calm, Busy, TypeOK, TypeSbox, TypeShm
  <2>3. Accounted'
    BY <1>2, <2>1, Numbers DEF ThreadWake, Accounted, Unanswered, Answers, Semaphore,
         TypeOK, TypeSbox, TypeShm
  <2>4. QED BY <2>2, <2>3
<1>3. CASE ThreadReset(s)
  <2>1. s = First
    BY <1>3 DEF ThreadReset, Calm, Busy
  <2>2. Calm'
    BY <1>3, <2>1 DEF ThreadReset, Calm, Busy, TypeOK, TypeSbox, TypeShm
  <2>3. Accounted'
    BY <1>3, <2>1, Numbers DEF ThreadReset, Accounted, Unanswered, Answers, Semaphore,
         TypeOK, TypeSbox, TypeShm
  <2>4. QED BY <2>2, <2>3
<1>4. CASE ThreadCheck(s)
  <2>1. s = First /\ tpc' = [tpc EXCEPT ![s] = "process"]
    BY <1>4 DEF ThreadCheck, Calm, Busy
  <2>2. Calm'
    BY <1>4, <2>1 DEF ThreadCheck, Calm, Busy, TypeOK, TypeSbox
  <2>3. Accounted'
    BY <1>4, <2>1, Numbers DEF ThreadCheck, Accounted, Unanswered, Answers, Semaphore,
         TypeOK, TypeSbox
  <2>4. QED BY <2>2, <2>3
<1>5. CASE ThreadFinish(s)
  <2>1. s = First
    BY <1>5 DEF ThreadFinish, Calm, Busy
  <2>2. Calm'
    BY <1>5, <2>1 DEF ThreadFinish, Calm, Busy, TypeOK, TypeSbox
  <2>3. counter > 0 /\ counter' = counter - 1
    BY <1>5, <2>1, Numbers DEF ThreadFinish, Accounted, Unanswered, Decrement
  <2>4. Accounted'
    BY <1>5, <2>1, <2>3, Numbers DEF ThreadFinish, Accounted, Unanswered, Answers,
         Semaphore, TypeOK, TypeSbox, TypeAudio
  <2>5. QED BY <2>2, <2>4
<1>6. CASE ThreadSignal(s)
  <2>1. s = First
    BY <1>6 DEF ThreadSignal, Calm, Busy
  <2>2. Calm'
    BY <1>6, <2>1 DEF ThreadSignal, Calm, Busy, TypeOK, TypeSbox, AfterSet
  <2>3. Accounted'
    BY <1>6, <2>1, Numbers DEF ThreadSignal, Accounted, Unanswered, Answers, Semaphore,
         Set, TypeOK, TypeSbox, AfterSet
  <2>4. QED BY <2>2, <2>3
<1>7. ~ThreadFutexWait(s) /\ ~ThreadFutexWake(s)
  BY DEF ThreadFutexWait, ThreadFutexWake, Calm
<1>8. QED BY <1>1, <1>2, <1>3, <1>4, <1>5, <1>6, <1>7 DEF Thread

\* The death of a process, noticed by nobody yet, can only take away.
LEMMA DieAccounted ==
  ASSUME TypeOK, Calm, Accounted, NEW s \in Sandboxes, Die(s),
         UNCHANGED <<platform, budget, shmVars, msgVars, audioVars>>
  PROVE  Calm' /\ Accounted'
<1> USE DEF audioVars, shmVars, msgVars
<1>1. Calm'
  BY DEF Die, Calm, Busy, TypeOK, TypeSbox
<1>2. Accounted'
  <2>1. tpc'[First] \in {tpc[First], "none"}
    BY Numbers DEF Die, TypeOK, TypeSbox
  <2>2. QED BY <2>1, Numbers DEF Accounted, Unanswered, Answers, Semaphore
<1>3. QED BY <1>1, <1>2

\* The main thread of a sandbox: it starts the audio thread, and is never told
\* to stop it.
LEMMA SboxAccounted ==
  ASSUME TypeOK, Calm, Accounted, NEW s \in Sandboxes, Sbox(s)
  PROVE  Calm' /\ Accounted'
<1> USE DEF audioVars, shmVars, msgVars
<1>1. CASE SboxOpen(s)
  BY <1>1, CalmSame, AccountedSame DEF SboxOpen
<1>2. CASE SboxActivate(s)
  <2>1. inbox'[s] \in Seq({"activate"}) /\ \A r \in Sandboxes \ {s} : inbox'[r] = inbox[r]
    BY <1>2 DEF SboxActivate, Receive, Calm, TypeOK, TypeMsg
  <2>2. \/ tpc' = tpc
        \/ tpc[s] = "none" /\ tpc' = [tpc EXCEPT ![s] = "top"]
    BY <1>2 DEF SboxActivate
  <2>3. \A r \in Sandboxes : ~stop'[r]
    BY <1>2 DEF SboxActivate, Calm, TypeOK, TypeSbox
  <2>4. Calm'
    BY <1>2, <2>1, <2>2, <2>3, SMTT(30) DEF SboxActivate, Calm, Busy, TypeOK, TypeSbox
  <2>5. Accounted'
    <3>1. CASE tpc' = tpc
      BY <1>2, <3>1, AccountedSame DEF SboxActivate
    <3>2. CASE tpc[s] = "none" /\ tpc' = [tpc EXCEPT ![s] = "top"]
      BY <1>2, <3>2, Numbers DEF SboxActivate, Accounted, Unanswered, Answers, Semaphore,
           TypeOK, TypeSbox
    <3>3. QED BY <2>2, <3>1, <3>2
  <2>6. QED BY <2>4, <2>5
<1>3. CASE SboxDeactivate(s)
  <2>1. inbox[s] \in Seq({"activate"}) /\ inbox[s] # <<>> /\ Head(inbox[s]) = "deactivate"
    BY <1>3 DEF SboxDeactivate, Receive, Calm
  <2>2. Head(inbox[s]) \in {"activate"}
    BY <2>1
  <2>3. QED BY <2>1, <2>2
<1>4. CASE SboxUnblock(s)
  BY <1>4 DEF SboxUnblock, Calm
<1>5. CASE SboxJoin(s)
  BY <1>5 DEF SboxJoin, Calm
<1>6. CASE SboxSend(s)
  BY <1>6, CalmSame, AccountedSame DEF SboxSend
<1>7. CASE SboxFutexWake(s)
  BY <1>7 DEF SboxFutexWake, Calm
<1>8. QED BY <1>1, <1>2, <1>3, <1>4, <1>5, <1>6, <1>7 DEF Sbox

LEMMA AccountedStep == TypeOK /\ CycleAccounted /\ [Next]_vars => CycleAccounted'
<1> SUFFICES ASSUME TypeOK, CycleAccounted, [Next]_vars, Undisturbed'
             PROVE  Calm' /\ Accounted'
  BY DEF CycleAccounted
<1>1. Calm /\ Accounted /\ ~Futex
  BY StaysDisturbed DEF CycleAccounted, Undisturbed
<1> USE DEF audioVars, shmVars, msgVars, sboxVars
<1>2. CASE UNCHANGED vars
  BY <1>1, <1>2, CalmSame, AccountedSame DEF vars
<1>3. CASE AudioInterrupted
  BY <1>1, <1>3 DEF AudioInterrupted, Accounted
<1>4. CASE Poll
  <2>1. ~PollUnblocks
    BY DEF PollUnblocks, Undisturbed
  <2>2. UNCHANGED <<platform, budget, counter, done, work, inbox, tpc, stop, mpc, apc, aTotal, aLeft>>
    BY <1>1, <1>4, <2>1 DEF Poll, PollBegin, PollConfirms, PollEnd, PollFindsDead,
         PollReceives, PollFutexWake, Woken, Accounted
  <2>3. QED BY <1>1, <2>2, CalmSame, AccountedSame
<1>5. CASE Api
  <2>1. CASE Activate
    <3>1. Calm'
      BY <1>1, <2>1 DEF Activate, Calm, Busy
    <3>2. QED BY <1>1, <2>1, <3>1, AccountedSame DEF Activate
  <2>2. CASE Deactivate
    BY <2>2, UseCounts DEF Deactivate, Undisturbed, Kinds
  <2>3. CASE RenderModeBegin \/ Publish \/ RestartInsert \/ RenderModeInsert
    <3>1. UNCHANGED <<platform, budget, counter, done, work, inbox, tpc, stop, mpc, apc, aTotal,
                      aLeft>>
      BY <2>3 DEF RenderModeBegin, Publish, RestartInsert, RenderModeInsert
    <3>2. QED BY <1>1, <3>1, CalmSame, AccountedSame
  <2>4. CASE RestartSpawn
    <3>1. \A r \in Sandboxes : inbox'[r] \in {inbox[r], Append(inbox[r], "activate")}
      BY <2>4 DEF RestartSpawn, TypeOK, TypeMsg
    <3>2. \A r \in Sandboxes : inbox'[r] \in Seq({"activate"})
      <4>1. \A r \in Sandboxes : inbox[r] \in Seq({"activate"})
        BY <1>1 DEF Calm
      <4>2. \A q \in Seq({"activate"}) : Append(q, "activate") \in Seq({"activate"})
        OBVIOUS
      <4>3. QED BY <3>1, <4>1, <4>2
    <3>3. Calm'
      BY <1>1, <2>4, <3>2 DEF RestartSpawn, Calm, Busy
    <3>4. QED BY <1>1, <2>4, <3>3, AccountedSame DEF RestartSpawn
  <2>5. ASSUME NEW s \in Sandboxes, RestartBegin(s) PROVE Calm' /\ Accounted'
    BY <1>1, <2>5, DieAccounted DEF RestartBegin
  <2>6. QED BY <1>5, <2>1, <2>2, <2>3, <2>4, <2>5 DEF Api, ApiSteps
<1>6. ASSUME NEW s \in Sandboxes, ThreadInterrupted(s) PROVE Calm' /\ Accounted'
  BY <1>1, <1>6 DEF ThreadInterrupted, Calm
<1>7. ASSUME NEW s \in Sandboxes, Crash(s) PROVE Calm' /\ Accounted'
  BY <1>1, <1>7, DieAccounted DEF Crash
<1>8. QED BY <1>1, <1>2, <1>3, <1>4, <1>5, <1>6, <1>7, AudioAccounted, ThreadAccounted,
          SboxAccounted DEF Next

\* On Windows and macOS, until the client unblocks itself or a sandbox is told to
\* stop, the counter covers every signal still to be answered, at most
\* one done event exists and only once the counter is 0: crashes that nobody
\* has noticed, restarts, confirmations in any order and stale counts of active
\* sandboxes included.
THEOREM AccountingCorrect == Spec => []CycleAccounted
BY TypeCorrect, AccountedInit, AccountedStep, PTL DEF Spec

LEMMA Consequences ==
  ASSUME TypeOK, CycleAccounted
  PROVE  DoneMeansQuiet /\ NeverOvernotified /\ SilenceOnlyAfterAbort
<1>1. NeverOvernotified /\ SilenceOnlyAfterAbort
  BY DEF CycleAccounted, Accounted, NeverOvernotified, SilenceOnlyAfterAbort
<1>2. ASSUME Undisturbed, apc = "outputs"
      PROVE  done = 0 /\ \A s \in Sandboxes : work[s] = 0 /\ ~Busy(s)
  <2>1. Calm /\ Accounted
    BY <1>2 DEF CycleAccounted
  <2>2. done = 0 /\ tpc[First] # "signal"
    BY <1>2, <2>1, Numbers DEF Accounted, Answers
  <2>3. work[First] = 0 /\ tpc[First] \notin {"reset", "check", "process"}
    BY <1>2, <2>1, Numbers DEF Accounted, Unanswered
  <2>4. QED BY <2>1, <2>2, <2>3 DEF Calm, Busy
<1>3. QED BY <1>1, <1>2 DEF DoneMeansQuiet

\* A cycle that ends with `done` leaves no event set and no sandbox at work.
THEOREM DoneIsQuiet == Spec => []DoneMeansQuiet
BY TypeCorrect, AccountingCorrect, Consequences, PTL

\* No sandbox decrements the counter more often than the client counted it, so
\* the unsigned counter does not wrap.
THEOREM CounterNeverWraps == Spec => []NeverOvernotified
BY TypeCorrect, AccountingCorrect, Consequences, PTL

\* The audio thread never gives a cycle up of its own accord.
THEOREM SilenceHasACause == Spec => []SilenceOnlyAfterAbort
BY TypeCorrect, AccountingCorrect, Consequences, PTL

-----------------------------------------------------------------------------
(* What First does in a cycle.  EverySandboxServed, which the code keeps    *)
(* only in a group of one, needs the count of what is still to be done.     *)

\* In a cycle that counts at most two sandboxes (the history `served` does not
\* count further) First has processed once for every decrement of the counter.
Tally ==
  /\ apc = "store" => served[First] = 0
  /\ apc \notin {"idle", "store"} /\ aTotal <= 2 => served[First] + counter = aTotal

FirstServes == Undisturbed => Tally

LEMMA TallySame ==
  ASSUME Tally, UNCHANGED <<served, counter, apc, aTotal>>
  PROVE  Tally'
BY DEF Tally

\* The host begins a cycle, stores the counter, and then reads it only.
LEMMA AudioTally ==
  ASSUME TypeOK, Tally, Audio
  PROVE  Tally'
<1>1. CASE AudioBegin
  BY <1>1, Numbers DEF AudioBegin, Tally
<1>2. CASE AudioStore
  <2>1. /\ served' = served /\ counter' = aTotal /\ aTotal' = aTotal
        /\ apc = "store" /\ apc' = "signal"
    BY <1>2 DEF AudioStore, history
  <2>2. served[First] = 0 /\ aTotal \in Nat
    BY <2>1, Numbers DEF Tally
  <2>3. QED BY <2>1, <2>2 DEF Tally
<1>3. CASE AudioReturn
  BY <1>3 DEF AudioReturn, Tally
<1>4. CASE ~AudioBegin /\ ~AudioStore /\ ~AudioReturn
  <2>1. /\ UNCHANGED <<served, counter, aTotal>>
        /\ apc \notin {"idle", "store"}
        /\ apc' \notin {"idle", "store"}
    BY <1>4 DEF Audio, AudioSignal, AudioFutexWake, AudioSignalled, AudioWake,
         AudioFutexWait, AudioReset, AudioCheck, AfterSet, history, shmVars
  <2>2. QED BY <2>1 DEF Tally
<1>5. QED BY <1>1, <1>2, <1>3, <1>4

\* A sandbox that finishes is First, and the cycle counts it.
LEMMA FinishTally ==
  ASSUME TypeOK, Calm, Accounted, Tally, NEW s \in Sandboxes, ThreadFinish(s)
  PROVE  Tally'
<1>1. s = First
  BY DEF ThreadFinish, Calm, Busy
<1>2. counter > 0 /\ counter' = counter - 1
  BY <1>1, Numbers DEF ThreadFinish, Accounted, Unanswered, Decrement
<1>3. UNCHANGED <<apc, aTotal>> /\ apc \notin {"idle", "store"}
  BY <1>2, Numbers DEF ThreadFinish, Accounted, audioVars
<1>4. served[First] \in 0 .. 2
  BY Numbers DEF TypeOK, TypeHistory
<1>5. served'[First] = IF served[First] < 2 THEN served[First] + 1 ELSE served[First]
  BY <1>1 DEF ThreadFinish, TypeOK, TypeHistory
<1>6. aTotal \in Nat /\ counter \in Nat
  BY Numbers
<1>7. aTotal <= 2 => served[First] + counter = aTotal
  BY <1>3 DEF Tally
<1>8. aTotal <= 2 => served'[First] + counter' = aTotal
  BY ONLY <1>2, <1>4, <1>5, <1>6, <1>7
<1>9. QED BY <1>3, <1>8 DEF Tally

LEMMA TallyStep ==
  TypeOK /\ CycleAccounted /\ FirstServes /\ [Next]_vars => FirstServes'
<1> SUFFICES ASSUME TypeOK, CycleAccounted, FirstServes, [Next]_vars, Undisturbed'
             PROVE  Tally'
  BY DEF FirstServes
<1>1. Calm /\ Accounted /\ Tally /\ ~Futex
  BY StaysDisturbed DEF CycleAccounted, FirstServes, Undisturbed
<1> USE DEF audioVars, shmVars, history
<1>2. CASE UNCHANGED vars
  BY <1>1, <1>2, TallySame DEF vars
<1>3. CASE Audio
  BY <1>1, <1>3, AudioTally
<1>4. CASE AudioInterrupted
  BY <1>1, <1>4 DEF AudioInterrupted, Accounted
<1>5. CASE Poll
  <2>1. UNCHANGED <<served, counter, apc, aTotal>>
    BY <1>1, <1>5 DEF Poll, PollBegin, PollUnblocks, PollConfirms, PollEnd,
         PollFindsDead, PollReceives, PollFutexWake, Woken, Accounted
  <2>2. QED BY <1>1, <2>1, TallySame
<1>6. CASE Api
  <2>1. UNCHANGED <<served, counter, apc, aTotal>>
    BY <1>6 DEF Api, Activate, Deactivate, RenderModeBegin, Publish, ApiSteps,
         RestartSpawn, RestartInsert, RenderModeInsert, RestartBegin
  <2>2. QED BY <1>1, <2>1, TallySame
<1>7. ASSUME NEW s \in Sandboxes, Thread(s) PROVE Tally'
  <2>1. CASE ThreadFinish(s)
    BY <1>1, <2>1, FinishTally
  <2>2. CASE ~ThreadFinish(s)
    <3>1. UNCHANGED <<served, counter, apc, aTotal>>
      BY <1>1, <1>7, <2>2 DEF Thread, ThreadTop, ThreadWake, ThreadFutexWait, ThreadReset,
           ThreadCheck, ThreadSignal, ThreadFutexWake, Calm
    <3>2. QED BY <1>1, <3>1, TallySame
  <2>3. QED BY <2>1, <2>2
<1>8. ASSUME NEW s \in Sandboxes, Sbox(s) \/ ThreadInterrupted(s) \/ Crash(s)
      PROVE  Tally'
  <2>1. UNCHANGED <<served, counter, apc, aTotal>>
    BY <1>1, <1>8 DEF Sbox, SboxOpen, SboxActivate, SboxDeactivate, SboxUnblock,
         SboxFutexWake, SboxJoin, SboxSend, ThreadInterrupted, Crash, Calm
  <2>2. QED BY <1>1, <2>1, TallySame
<1>9. QED BY <1>2, <1>3, <1>4, <1>5, <1>6, <1>7, <1>8 DEF Next

\* On Windows and macOS, until the client unblocks itself or a sandbox is told to
\* stop, First processes once for every sandbox that a cycle counts (of the first
\* two): crashes, restarts and stale counts included.
THEOREM FirstServesForAll == Spec => []FirstServes
<1>1. Init => FirstServes
  BY DEF Init, FirstServes, Tally
<1>2. QED BY <1>1, TallyStep, TypeCorrect, AccountingCorrect, PTL DEF Spec

\* In a group of one sandbox a cycle that counts it and ends with `done` has had
\* it process exactly once.  In a larger group it does not hold: it is First that
\* processes, as often as there are sandboxes.
THEOREM AloneIsServed == Spec => []((Sandboxes = {First}) => EverySandboxServed)
<1>1. TypeOK /\ CycleAccounted /\ FirstServes => (Sandboxes = {First} => EverySandboxServed)
  <2> SUFFICES ASSUME TypeOK, CycleAccounted, FirstServes, Sandboxes = {First}
                 PROVE  EverySandboxServed
    OBVIOUS
  <2>1. N = 1
    BY FS_Singleton DEF N
  <2> SUFFICES ASSUME Undisturbed, apc = "outputs", aTotal = 1
               PROVE  served[First] = 1
    BY <2>1 DEF EverySandboxServed
  <2>2. counter = 0
    BY DEF CycleAccounted, Accounted
  <2>3. served[First] + counter = 1
    BY DEF FirstServes, Tally
  <2>4. served[First] \in 0 .. 2
    BY Numbers DEF TypeOK, TypeHistory
  <2>5. QED BY <2>2, <2>3, <2>4
<1>2. QED BY <1>1, TypeCorrect, AccountingCorrect, FirstServesForAll, PTL
=============================================================================
