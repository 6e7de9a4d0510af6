-------------------------- MODULE ScanEngineProofs --------------------------
(***************************************************************************)
(* The safety of the scanner threads, for every tree of tasks, every       *)
(* number of threads and every number of user operations, and the proof    *)
(* that they implement TaskPool.                                           *)
(*                                                                         *)
(* The inductive invariant is EngineInv.  Each action is treated once, in  *)
(* a lemma that gives both the invariant in the next state and the step of *)
(* the pool it stands for.                                                 *)
(***************************************************************************)
EXTENDS ScanEngine, DataLemmas

-----------------------------------------------------------------------------
(***************************************************************************)
(* What one operation of the task queue does to the queued tasks and to    *)
(* the lanes, for every set of tasks, paths and foci.                      *)
(***************************************************************************)

(* The lanes are well formed. *)
QueueInv == QueueTypeOK /\ LanesMatchFocus /\ NoTaskQueuedTwice

(* The three lanes partition the tasks, so nothing is in two of them. *)
LEMMA LanesDisjoint ==
  ASSUME NEW f
  PROVE  /\ Urgent \cap FocusLane(f) = {}
         /\ Urgent \cap BackgroundLane(f) = {}
         /\ FocusLane(f) \cap BackgroundLane(f) = {}
         /\ Task = Urgent \cup FocusLane(f) \cup BackgroundLane(f)
         /\ FocusLane(f) \subseteq Task
         /\ BackgroundLane(f) \subseteq Task
BY QueueAssumption DEF FocusLane, BackgroundLane

(* Appending the part of ts that belongs to a lane keeps the lane well     *)
(* formed.                                                                 *)
LEMMA PushLane ==
  ASSUME NEW lane \in Seq(Task), NEW ts \in Seq(Task), NEW X,
         Distinct(lane), Distinct(ts), Elements(lane) \cap Elements(ts) = {}
  PROVE  /\ lane \o Retain(ts, X) \in Seq(Task)
         /\ Elements(lane \o Retain(ts, X)) = Elements(lane) \cup (Elements(ts) \cap X)
         /\ Distinct(lane \o Retain(ts, X))
<1> DEFINE r == Retain(ts, X)
<1>1. r \in Seq(Task \cap X) /\ Elements(r) = Elements(ts) \cap X
  BY RetainMembers
<1>2. Distinct(r)
  BY RetainDistinct
<1>3. r \in Seq(Task)
  <2>1. Task \cap X \subseteq Task
    OBVIOUS
  <2> HIDE DEF r
  <2> QED
    BY <1>1, <2>1, SeqMonotonic
<1> HIDE DEF r
<1>4. Elements(lane) \cap Elements(r) = {}
  BY <1>1
<1>5. lane \o r \in Seq(Task) /\ Elements(lane \o r) = Elements(lane) \cup Elements(r)
  BY <1>3, ConcatMembers
<1>6. Distinct(lane \o r)
  BY <1>2, <1>3, <1>4, ConcatDistinct
<1> QED
  BY <1>1, <1>5, <1>6 DEF r

(* push and push_many: the new tasks are queued, each in its lane. *)
LEMMA PushManyStep ==
  ASSUME QueueInv, NEW ts \in Seq(Task), Distinct(ts),
         Elements(ts) \cap Queued = {}, PushMany(ts)
  PROVE  /\ QueueInv'
         /\ Queued' = Queued \cup Elements(ts)
         /\ pushed' = pushed \cup Elements(ts)
<1> USE DEF QueueInv
<1>1. Elements(ts) \subseteq Task
  BY ElementOfSeq, LenProperties DEF Elements
<1>2. /\ urgent \in Seq(Task) /\ focused \in Seq(Task) /\ background \in Seq(Task)
      /\ Distinct(urgent) /\ Distinct(focused) /\ Distinct(background)
      /\ Elements(urgent) \cap Elements(ts) = {}
      /\ Elements(focused) \cap Elements(ts) = {}
      /\ Elements(background) \cap Elements(ts) = {}
  BY DEF QueueTypeOK, NoTaskQueuedTwice, Queued
<1>3. /\ urgent' \in Seq(Task) /\ Distinct(urgent')
      /\ Elements(urgent') = Elements(urgent) \cup (Elements(ts) \cap Urgent)
  BY <1>2, PushLane DEF PushMany
<1>4. /\ focused' \in Seq(Task) /\ Distinct(focused')
      /\ Elements(focused') = Elements(focused) \cup (Elements(ts) \cap FocusLane(focus))
  BY <1>2, PushLane DEF PushMany
<1>5. /\ background' \in Seq(Task) /\ Distinct(background')
      /\ Elements(background') =
           Elements(background) \cup (Elements(ts) \cap BackgroundLane(focus))
  BY <1>2, PushLane DEF PushMany
<1>6. focus' = focus /\ paused' = paused /\ shut' = shut /\ pushed' = pushed \cup Elements(ts)
  BY DEF PushMany
<1>7. QueueTypeOK'
  BY <1>1, <1>3, <1>4, <1>5, <1>6 DEF QueueTypeOK
<1>8. LanesMatchFocus'
  BY <1>3, <1>4, <1>5, <1>6 DEF LanesMatchFocus, FocusLane, BackgroundLane
<1>9. NoTaskQueuedTwice'
  BY <1>3, <1>4, <1>5 DEF NoTaskQueuedTwice
<1>10. Queued' = Queued \cup Elements(ts)
  BY <1>1, <1>3, <1>4, <1>5, LanesDisjoint DEF Queued
<1> QED
  BY <1>6, <1>7, <1>8, <1>9, <1>10

(* pop: exactly the task it returns leaves the queue. *)
LEMMA PopTaskStep ==
  ASSUME QueueInv, NEW t, PopTask(t)
  PROVE  /\ QueueInv'
         /\ t \in Queued
         /\ Queued' = Queued \ {t}
         /\ ~shut
         /\ UNCHANGED <<focus, paused, shut, pushed>>
<1> USE DEF QueueInv
<1>1. /\ urgent \in Seq(Task) /\ focused \in Seq(Task) /\ background \in Seq(Task)
      /\ Distinct(urgent) /\ Distinct(focused) /\ Distinct(background)
      /\ Elements(urgent) \subseteq Urgent
      /\ Elements(focused) \subseteq FocusLane(focus)
      /\ Elements(background) \subseteq BackgroundLane(focus)
  BY DEF QueueTypeOK, NoTaskQueuedTwice, LanesMatchFocus
<1>2. UNCHANGED <<focus, paused, shut, pushed>> /\ ~shut
  BY DEF PopTask
<1>3. /\ urgent' \in Seq(Task) /\ focused' \in Seq(Task) /\ background' \in Seq(Task)
      /\ Distinct(urgent') /\ Distinct(focused') /\ Distinct(background')
      /\ Elements(urgent') \subseteq Elements(urgent)
      /\ Elements(focused') \subseteq Elements(focused)
      /\ Elements(background') \subseteq Elements(background)
      /\ t \in Queued /\ Queued' = Queued \ {t}
  <2>1. CASE PopUrgent(t)
    <3>1. /\ t \in Elements(urgent) /\ urgent' \in Seq(Task) /\ Distinct(urgent')
          /\ Elements(urgent') = Elements(urgent) \ {t}
      BY <1>1, <2>1, HeadMembers DEF PopUrgent
    <3>2. focused' = focused /\ background' = background
      BY <2>1 DEF PopUrgent
    <3>3. t \notin Elements(focused) /\ t \notin Elements(background)
      BY <1>1, <3>1, LanesDisjoint
    <3> QED
      BY <1>1, <3>1, <3>2, <3>3 DEF Queued
  <2>2. CASE PopFocused(t)
    <3>1. /\ t \in Elements(focused) /\ focused' \in Seq(Task) /\ Distinct(focused')
          /\ Elements(focused') = Elements(focused) \ {t}
      BY <1>1, <2>2, LastMembers DEF PopFocused
    <3>2. urgent' = urgent /\ background' = background
      BY <2>2 DEF PopFocused
    <3>3. t \notin Elements(urgent) /\ t \notin Elements(background)
      BY <1>1, <3>1, LanesDisjoint
    <3> QED
      BY <1>1, <3>1, <3>2, <3>3 DEF Queued
  <2>3. CASE PopBackground(t)
    <3>1. /\ t \in Elements(background) /\ background' \in Seq(Task) /\ Distinct(background')
          /\ Elements(background') = Elements(background) \ {t}
      BY <1>1, <2>3, LastMembers DEF PopBackground
    <3>2. urgent' = urgent /\ focused' = focused
      BY <2>3 DEF PopBackground
    <3>3. t \notin Elements(urgent) /\ t \notin Elements(focused)
      BY <1>1, <3>1, LanesDisjoint
    <3> QED
      BY <1>1, <3>1, <3>2, <3>3 DEF Queued
  <2> QED
    BY <2>1, <2>2, <2>3 DEF PopTask
<1>4. QueueTypeOK'
  BY <1>2, <1>3 DEF QueueTypeOK
<1>5. LanesMatchFocus'
  BY <1>1, <1>2, <1>3 DEF LanesMatchFocus, FocusLane, BackgroundLane
<1>6. NoTaskQueuedTwice'
  BY <1>3 DEF NoTaskQueuedTwice
<1> QED
  BY <1>2, <1>3, <1>4, <1>5, <1>6

(* Filtering a lane. *)
LEMMA RetainLane ==
  ASSUME NEW lane \in Seq(Task), NEW X, Distinct(lane)
  PROVE  /\ Retain(lane, X) \in Seq(Task)
         /\ Elements(Retain(lane, X)) = Elements(lane) \cap X
         /\ Distinct(Retain(lane, X))
<1>1. Retain(lane, X) \in Seq(Task \cap X) /\ Elements(Retain(lane, X)) = Elements(lane) \cap X
  BY RetainMembers
<1>2. Retain(lane, X) \in Seq(Task)
  BY <1>1, SeqMonotonic
<1> QED
  BY <1>1, <1>2, RetainDistinct

(* set_focus moves tasks between lanes and neither loses nor copies any. *)
LEMMA SetFocusStep ==
  ASSUME QueueInv, NEW f \in Path \cup {NoFocus}, SetFocus(f)
  PROVE  QueueInv' /\ Queued' = Queued /\ UNCHANGED <<paused, shut, pushed>>
<1> USE DEF QueueInv
<1> DEFINE all == focused \o background
<1>1. /\ urgent \in Seq(Task) /\ focused \in Seq(Task) /\ background \in Seq(Task)
      /\ Distinct(urgent) /\ Distinct(focused) /\ Distinct(background)
      /\ Elements(urgent) \subseteq Urgent
      /\ Elements(focused) \subseteq FocusLane(focus)
      /\ Elements(background) \subseteq BackgroundLane(focus)
  BY DEF QueueTypeOK, NoTaskQueuedTwice, LanesMatchFocus
<1>2. Elements(focused) \cap Elements(background) = {}
  BY <1>1, LanesDisjoint
<1>3. /\ all \in Seq(Task) /\ Distinct(all)
      /\ Elements(all) = Elements(focused) \cup Elements(background)
  BY <1>1, <1>2, ConcatMembers, ConcatDistinct
<1>4. /\ focus' = f /\ urgent' = urgent
      /\ focused' = Retain(all, FocusLane(f))
      /\ background' = Retain(all, BackgroundLane(f))
      /\ UNCHANGED <<paused, shut, pushed>>
  BY DEF SetFocus
<1> HIDE DEF all
<1>5. /\ focused' \in Seq(Task) /\ Distinct(focused')
      /\ Elements(focused') = Elements(all) \cap FocusLane(f)
  BY <1>3, <1>4, RetainLane
<1>6. /\ background' \in Seq(Task) /\ Distinct(background')
      /\ Elements(background') = Elements(all) \cap BackgroundLane(f)
  BY <1>3, <1>4, RetainLane
<1>7. Elements(all) \subseteq FocusLane(f) \cup BackgroundLane(f)
  BY <1>1, <1>3 DEF FocusLane, BackgroundLane
<1>8. Queued' = Queued
  BY <1>3, <1>4, <1>5, <1>6, <1>7 DEF Queued
<1>9. QueueTypeOK'
  BY <1>1, <1>4, <1>5, <1>6 DEF QueueTypeOK
<1>10. LanesMatchFocus'
  BY <1>1, <1>4, <1>5, <1>6 DEF LanesMatchFocus, FocusLane, BackgroundLane
<1>11. NoTaskQueuedTwice'
  BY <1>1, <1>4, <1>5, <1>6 DEF NoTaskQueuedTwice
<1> QED
  BY <1>4, <1>8, <1>9, <1>10, <1>11

(* discard_matching removes the tasks in X, and only them. *)
LEMMA DiscardStep ==
  ASSUME QueueInv, NEW X, DiscardMatching(X)
  PROVE  QueueInv' /\ Queued' = Queued \ X /\ UNCHANGED <<focus, paused, shut, pushed>>
<1> USE DEF QueueInv
<1>1. /\ urgent \in Seq(Task) /\ focused \in Seq(Task) /\ background \in Seq(Task)
      /\ Distinct(urgent) /\ Distinct(focused) /\ Distinct(background)
  BY DEF QueueTypeOK, NoTaskQueuedTwice
<1>2. \A s \in Seq(Task) : Elements(s) \subseteq Task
  BY ElementOfSeq, LenProperties DEF Elements
<1>3. /\ urgent' \in Seq(Task) /\ Distinct(urgent')
      /\ Elements(urgent') = Elements(urgent) \ X
  BY <1>1, <1>2, RetainLane DEF DiscardMatching
<1>4. /\ focused' \in Seq(Task) /\ Distinct(focused')
      /\ Elements(focused') = Elements(focused) \ X
  BY <1>1, <1>2, RetainLane DEF DiscardMatching
<1>5. /\ background' \in Seq(Task) /\ Distinct(background')
      /\ Elements(background') = Elements(background) \ X
  BY <1>1, <1>2, RetainLane DEF DiscardMatching
<1>6. UNCHANGED <<focus, paused, shut, pushed>>
  BY DEF DiscardMatching
<1>7. QueueTypeOK'
  BY <1>3, <1>4, <1>5, <1>6 DEF QueueTypeOK
<1>8. LanesMatchFocus'
  BY <1>3, <1>4, <1>5, <1>6 DEF LanesMatchFocus, FocusLane, BackgroundLane
<1>9. NoTaskQueuedTwice'
  BY <1>3, <1>4, <1>5 DEF NoTaskQueuedTwice
<1>10. Queued' = Queued \ X
  BY <1>3, <1>4, <1>5 DEF Queued
<1> QED
  BY <1>6, <1>7, <1>8, <1>9, <1>10

LEMMA PauseStep ==
  ASSUME QueueInv, NEW p \in BOOLEAN, SetBackgroundPaused(p)
  PROVE  QueueInv' /\ Queued' = Queued /\ UNCHANGED <<focus, shut, pushed>>
BY DEF SetBackgroundPaused, QueueInv, QueueTypeOK, LanesMatchFocus,
       NoTaskQueuedTwice, FocusLane, BackgroundLane, Queued

LEMMA EmptyLane ==
  /\ <<>> \in Seq(Task)
  /\ Elements(<<>>) = {}
  /\ Distinct(<<>>)
BY DEF Elements, Distinct

LEMMA ShutdownStep ==
  ASSUME QueueInv, Shutdown
  PROVE  QueueInv' /\ Queued' = {} /\ shut' = TRUE /\ UNCHANGED <<focus, paused, pushed>>
BY EmptyLane
   DEF Shutdown, QueueInv, QueueTypeOK, LanesMatchFocus, NoTaskQueuedTwice, Queued

LEMMA QueueUnchanged ==
  ASSUME QueueInv, UNCHANGED queueVars
  PROVE  QueueInv' /\ Queued' = Queued
BY DEF queueVars, QueueInv, QueueTypeOK, LanesMatchFocus, NoTaskQueuedTwice,
       FocusLane, BackgroundLane, Queued

-----------------------------------------------------------------------------

EngineInv ==
  /\ TypeOK
  /\ QueueInv
  /\ TaskInOnePlace
  /\ OneThreadPerIndex

(* What a thread with a task in hand looks like from the pool. *)
Running == {task[th] : th \in {x \in Thread : Holds(x)}}
BusyThreads == {th \in Thread : pc[th] \in {"busy", "ran"}}

PcValues == {"off", "check", "popping", "asleep", "empty",
             "popped", "busy", "ran", "leaving"}

(* The outcome every action is shown to have. *)
Good == EngineInv' /\ [Pool!PoolNext]_(Pool!poolVars)

LEMMA FiniteThreads ==
  \A S \in SUBSET Thread : IsFiniteSet(S) /\ Cardinality(S) \in Nat
<1>1. MaxThreads \in Nat
  BY EngineAssumption
<1>2. SUBSET Thread = SUBSET (1 .. MaxThreads)
  BY DEF Thread
<1> QED
  BY <1>1, <1>2, FinitePart

(* Steps that move threads about without touching tasks: if the queue and  *)
(* the tasks in hand stay the same, only the types and the indices are     *)
(* left to check.                                                          *)
LEMMA QuietStep ==
  ASSUME EngineInv, QueueInv',
         Queued' \subseteq Queued,
         UNCHANGED <<pushed, task, busy>>,
         shut' = shut \/ (shut' = TRUE /\ Queued' = {}),
         pc' \in [Thread -> PcValues],
         \A th \in Thread : Holds(th)' = Holds(th),
         \A th \in Thread : (pc'[th] \in {"popped", "busy"}) = (pc[th] \in {"popped", "busy"}),
         \A th \in Thread : (pc'[th] \in {"busy", "ran"}) = (pc[th] \in {"busy", "ran"}),
         index' \in [Thread -> 0 .. MaxWorkers - 1],
         desired' \in 1 .. MaxWorkers,
         ops' \in 0 .. MaxOps,
         OneThreadPerIndex'
  PROVE  Good
<1>1. TypeOK'
  <2>1. {th \in Thread : pc'[th] \in {"busy", "ran"}} = {th \in Thread : pc[th] \in {"busy", "ran"}}
    OBVIOUS
  <2> QED
    BY <2>1 DEF EngineInv, TypeOK, QueueInv, PcValues
<1>2. TaskInOnePlace'
  BY DEF EngineInv, TaskInOnePlace, HeldNotQueued, HeldOnce, ChildrenAwaitParent, Holds
<1>3. Running' = Running
  BY DEF Running
<1>4. [Pool!PoolNext]_(Pool!poolVars)
  <2>1. CASE shut' = shut
    <3>1. Queued' = Queued \ (Queued \ Queued') /\ Queued \ Queued' \in SUBSET Queued
      OBVIOUS
    <3>2. Pool!Discard
      BY <1>3, <2>1, <3>1 DEF Pool!Discard, Running
    <3> QED
      BY <3>2 DEF Pool!PoolNext
  <2>2. CASE shut' = TRUE /\ Queued' = {}
    <3>1. Pool!Close
      BY <1>3, <2>2 DEF Pool!Close, Running
    <3> QED
      BY <3>1 DEF Pool!PoolNext
  <2> QED
    BY <2>1, <2>2
<1> QED
  BY <1>1, <1>2, <1>4 DEF Good, EngineInv

(* Threads change place, no thread begins or ends, the queue loses tasks   *)
(* at most: what waking, sleeping, discarding and pausing amount to.       *)
LEMMA SameThreadsStep ==
  ASSUME EngineInv, QueueInv', Queued' \subseteq Queued,
         UNCHANGED <<pushed, index, task, busy, desired>>,
         shut' = shut \/ (shut' = TRUE /\ Queued' = {}),
         ops' \in 0 .. MaxOps,
         pc' \in [Thread -> PcValues],
         \A th \in Thread : pc'[th] # pc[th] =>
           /\ pc[th] \in PcValues \ {"off", "popped", "busy", "ran"}
           /\ pc'[th] \in PcValues \ {"off", "popped", "busy", "ran"}
  PROVE  Good
<1>1. OneThreadPerIndex'
  BY DEF EngineInv, OneThreadPerIndex, Alive
<1>2. /\ \A th \in Thread : Holds(th)' = Holds(th)
      /\ \A th \in Thread :
           (pc'[th] \in {"popped", "busy"}) = (pc[th] \in {"popped", "busy"})
      /\ \A th \in Thread : (pc'[th] \in {"busy", "ran"}) = (pc[th] \in {"busy", "ran"})
  BY DEF Holds
<1>3. index' \in [Thread -> 0 .. MaxWorkers - 1] /\ desired' \in 1 .. MaxWorkers
  BY DEF EngineInv, TypeOK
<1> QED
  BY <1>1, <1>2, <1>3, QuietStep

(* One thread looks around: at its index, at empty lanes, at the clock. *)
LEMMA LookStep ==
  ASSUME EngineInv, NEW th \in Thread, NEW to \in {"leaving", "popping", "empty", "asleep", "check"},
         pc[th] \in {"check", "popping", "asleep", "empty"},
         pc' = [pc EXCEPT ![th] = to],
         UNCHANGED <<queueVars, index, task, busy, desired, ops>>
  PROVE  Good
<1>1. QueueInv' /\ Queued' = Queued
  BY QueueUnchanged DEF EngineInv
<1>2. UNCHANGED <<pushed, shut>>
  BY DEF queueVars
<1>3. pc \in [Thread -> PcValues] /\ ops' \in 0 .. MaxOps
  BY DEF EngineInv, TypeOK, PcValues
<1>4. pc' \in [Thread -> PcValues]
  BY <1>3 DEF PcValues
<1>5. \A x \in Thread : pc'[x] # pc[x] =>
        /\ pc[x] \in PcValues \ {"off", "popped", "busy", "ran"}
        /\ pc'[x] \in PcValues \ {"off", "popped", "busy", "ran"}
  BY <1>3 DEF PcValues
<1> QED
  BY <1>1, <1>2, <1>3, <1>4, <1>5, SameThreadsStep

LEMMA CheckIndexStep == ASSUME EngineInv, NEW th \in Thread, CheckIndex(th) PROVE Good
BY LookStep DEF CheckIndex

LEMMA PopNoneStep == ASSUME EngineInv, NEW th \in Thread, PopNone(th) PROVE Good
BY LookStep DEF PopNone

LEMMA TimeOutStep == ASSUME EngineInv, NEW th \in Thread, TimeOut(th) PROVE Good
BY LookStep DEF TimeOut

LEMMA AfterNoneStep == ASSUME EngineInv, NEW th \in Thread, AfterNone(th) PROVE Good
BY LookStep DEF AfterNone

(* pop takes the task out of its lane and into the hands of one thread. *)
LEMMA PopSomeStep ==
  ASSUME EngineInv, NEW th \in Thread, PopSome(th)
  PROVE  Good
<1>1. PICK t \in Queued : PopTask(t) /\ task' = [task EXCEPT ![th] = t]
  BY DEF PopSome
<1>2. /\ pc[th] = "popping"
      /\ pc' = [pc EXCEPT ![th] = "popped"]
      /\ UNCHANGED <<index, busy, desired, ops>>
  BY DEF PopSome
<1>3. /\ QueueInv' /\ Queued' = Queued \ {t} /\ ~shut
      /\ UNCHANGED <<focus, paused, shut, pushed>>
  BY <1>1, PopTaskStep DEF EngineInv
<1>4. pc \in [Thread -> PcValues] /\ task \in [Thread -> Task \cup {NoTask}]
  BY DEF EngineInv, TypeOK, PcValues
<1>5. t \in pushed /\ t \in Task
  BY <1>1 DEF EngineInv, TaskInOnePlace, QueueInv, QueueTypeOK
<1>6. TypeOK'
  <2>1. {x \in Thread : pc'[x] \in {"busy", "ran"}} = {x \in Thread : pc[x] \in {"busy", "ran"}}
    BY <1>2, <1>4
  <2> QED
    BY <1>1, <1>2, <1>3, <1>4, <1>5, <2>1 DEF EngineInv, TypeOK, QueueInv, PcValues
<1>7. /\ \A x \in Thread : Holds(x)' <=> x = th \/ Holds(x)
      /\ \A x \in Thread \ {th} : pc'[x] = pc[x] /\ task'[x] = task[x]
      /\ task'[th] = t /\ ~Holds(th)
  BY <1>1, <1>2, <1>4 DEF Holds
<1>8. TaskInOnePlace'
  <2>1. (Queued \subseteq pushed)'
    BY <1>3 DEF EngineInv, TaskInOnePlace
  <2>2. HeldNotQueued'
    BY <1>3, <1>5, <1>7 DEF EngineInv, TaskInOnePlace, HeldNotQueued
  <2>3. HeldOnce'
    BY <1>1, <1>7 DEF EngineInv, TaskInOnePlace, HeldOnce, HeldNotQueued
  <2>4. ChildrenAwaitParent'
    BY <1>1, <1>3, <1>7 DEF EngineInv, TaskInOnePlace, ChildrenAwaitParent
  <2> QED
    BY <2>1, <2>2, <2>3, <2>4 DEF TaskInOnePlace
<1>9. OneThreadPerIndex'
  BY <1>2, <1>4 DEF EngineInv, OneThreadPerIndex, Alive
<1>10. Pool!Take
  <2>1. Running' = Running \cup {t}
    BY <1>7 DEF Running
  <2> QED
    BY <1>1, <1>3, <2>1 DEF Pool!Take, Running
<1> QED
  BY <1>3, <1>6, <1>8, <1>9, <1>10 DEF Good, EngineInv, Pool!PoolNext

LEMMA WorkerBusyStep ==
  ASSUME EngineInv, NEW th \in Thread, WorkerBusy(th)
  PROVE  Good
<1>1. /\ pc[th] = "popped" /\ busy' = busy + 1
      /\ pc' = [pc EXCEPT ![th] = "busy"]
      /\ UNCHANGED <<queueVars, index, task, desired, ops>>
  BY DEF WorkerBusy
<1>2. QueueInv' /\ Queued' = Queued /\ UNCHANGED <<pushed, shut>>
  BY <1>1, QueueUnchanged DEF EngineInv, queueVars
<1>3. pc \in [Thread -> PcValues]
  BY DEF EngineInv, TypeOK, PcValues
<1>4. TypeOK'
  <2>1. BusyThreads' = BusyThreads \cup {th} /\ th \notin BusyThreads
    BY <1>1, <1>3 DEF BusyThreads
  <2>2. IsFiniteSet(BusyThreads)
    BY FiniteThreads DEF BusyThreads
  <2>3. Cardinality(BusyThreads') = Cardinality(BusyThreads) + 1
    BY <2>1, <2>2, FS_AddElement
  <2> QED
    BY <1>1, <1>2, <1>3, <2>3 DEF EngineInv, TypeOK, QueueInv, PcValues, BusyThreads
<1>5. \A x \in Thread : Holds(x)' = Holds(x)
  BY <1>1, <1>3 DEF Holds
<1>6. TaskInOnePlace'
  BY <1>1, <1>2, <1>3, <1>5
     DEF EngineInv, TaskInOnePlace, HeldNotQueued, HeldOnce, ChildrenAwaitParent
<1>7. OneThreadPerIndex'
  BY <1>1, <1>3 DEF EngineInv, OneThreadPerIndex, Alive
<1>8. UNCHANGED Pool!poolVars
  BY <1>1, <1>2, <1>5 DEF Pool!poolVars
<1> QED
  BY <1>2, <1>4, <1>6, <1>7, <1>8 DEF Good, EngineInv

(* Waking threads that sleep. *)
LEMMA WakeIsSafe ==
  ASSUME EngineInv, NEW W \in SUBSET Asleep
  PROVE  /\ Wake(W) \in [Thread -> PcValues]
         /\ \A x \in Thread : Wake(W)[x] # pc[x] => pc[x] = "asleep" /\ Wake(W)[x] = "popping"
<1>1. pc \in [Thread -> PcValues]
  BY DEF EngineInv, TypeOK, PcValues
<1> QED
  BY <1>1 DEF Wake, PcValues, Asleep

LEMMA WokenSleep ==
  ASSUME NEW n \in Nat, NEW W \in WokenByPush(n)
  PROVE  W \in SUBSET Asleep
BY DEF WokenByPush

(* The tasks a worker pushes are new, and its own task stays in its hands. *)
LEMMA ExecuteStep ==
  ASSUME EngineInv, NEW th \in Thread, Execute(th)
  PROVE  Good
<1> DEFINE t == task[th]
           ts == Children[t]
<1>1. /\ pc[th] = "busy" /\ PushMany(ts)
      /\ UNCHANGED <<index, task, busy, desired, ops>>
  BY DEF Execute
<1>2. PICK W \in WokenByPush(Len(ts)) : pc' = [Wake(W) EXCEPT ![th] = "ran"]
  BY DEF Execute
<1>3. pc \in [Thread -> PcValues] /\ task \in [Thread -> Task \cup {NoTask}]
  BY DEF EngineInv, TypeOK, PcValues
<1>4. t \in pushed \ Queued /\ t \in Task
  BY <1>1 DEF EngineInv, TaskInOnePlace, HeldNotQueued, Holds, QueueInv, QueueTypeOK
<1>5. ts \in Seq(Task) /\ Distinct(ts) /\ Len(ts) \in Nat
  BY <1>4, EngineAssumption, TaskCreatedOnce, LenProperties
<1>6. Elements(ts) \cap pushed = {} /\ Elements(ts) \cap Queued = {}
  <2>1. Elements(ts) \cap pushed = {}
    BY <1>1, <1>4 DEF EngineInv, TaskInOnePlace, ChildrenAwaitParent
  <2> QED
    BY <2>1 DEF EngineInv, TaskInOnePlace
<1>7. Elements(ts) \subseteq Task
  BY <1>5, ElementOfSeq, LenProperties DEF Elements
<1>8. /\ QueueInv' /\ Queued' = Queued \cup Elements(ts)
      /\ pushed' = pushed \cup Elements(ts) /\ shut' = shut
  <2>1. shut' = shut
    BY <1>1 DEF PushMany
  <2> QED
    BY <1>1, <1>5, <1>6, <2>1, PushManyStep DEF EngineInv
<1>9. /\ pc' \in [Thread -> PcValues] /\ pc'[th] = "ran"
      /\ \A x \in Thread \ {th} :
           pc'[x] # pc[x] => pc[x] = "asleep" /\ pc'[x] = "popping"
  BY <1>2, <1>5, WokenSleep, WakeIsSafe DEF PcValues
<1>10. TypeOK'
  <2>1. {x \in Thread : pc'[x] \in {"busy", "ran"}} = {x \in Thread : pc[x] \in {"busy", "ran"}}
    BY <1>1, <1>3, <1>9
  <2> QED
    BY <1>1, <1>8, <1>9, <2>1 DEF EngineInv, TypeOK, QueueInv, PcValues
<1>11. \A x \in Thread : Holds(x)' = Holds(x)
  BY <1>1, <1>3, <1>9 DEF Holds
<1>12. TaskInOnePlace'
  <2>1. (Queued \subseteq pushed)'
    BY <1>8 DEF EngineInv, TaskInOnePlace
  <2>2. HeldNotQueued'
    BY <1>1, <1>6, <1>8, <1>11 DEF EngineInv, TaskInOnePlace, HeldNotQueued
  <2>3. HeldOnce'
    BY <1>1, <1>11 DEF EngineInv, TaskInOnePlace, HeldOnce
  <2>4. ChildrenAwaitParent'
    <3>1. SUFFICES ASSUME NEW u \in Task, Elements(Children[u]) \cap pushed' # {}
                   PROVE  /\ u \in pushed' \ Queued'
                          /\ \A x \in Thread : task'[x] = u => pc'[x] \notin {"popped", "busy"}
      BY DEF ChildrenAwaitParent
    <3>2. CASE u = t
      <4>1. \A x \in Thread : task[x] = t /\ Holds(x) => x = th
        BY <1>1 DEF EngineInv, TaskInOnePlace, HeldOnce, Holds
      <4> QED
        BY <1>1, <1>4, <1>6, <1>8, <1>9, <1>11, <3>2, <4>1 DEF Holds
    <3>3. CASE u # t
      <4>1. Elements(Children[u]) \cap pushed # {}
        BY <1>4, <1>8, <3>1, <3>3, TaskCreatedOnce
      <4>2. u \in pushed \ Queued
        BY <4>1 DEF EngineInv, TaskInOnePlace, ChildrenAwaitParent
      <4>3. \A x \in Thread : task[x] = u => pc[x] \notin {"popped", "busy"}
        BY <4>1 DEF EngineInv, TaskInOnePlace, ChildrenAwaitParent
      <4> QED
        BY <1>1, <1>6, <1>8, <1>9, <4>2, <4>3
    <3> QED
      BY <3>2, <3>3
  <2> QED
    BY <2>1, <2>2, <2>3, <2>4 DEF TaskInOnePlace
<1>13. OneThreadPerIndex'
  BY <1>1, <1>3, <1>9 DEF EngineInv, OneThreadPerIndex, Alive
<1>14. Pool!Submit
  <2>1. Running' = Running
    BY <1>1, <1>11 DEF Running
  <2>2. Elements(ts) \in SUBSET (Task \ pushed)
    BY <1>6, <1>7
  <2> QED
    BY <1>8, <2>1, <2>2 DEF Pool!Submit, Running
<1> QED
  BY <1>8, <1>10, <1>12, <1>13, <1>14 DEF Good, EngineInv, Pool!PoolNext

LEMMA WorkerIdleStep ==
  ASSUME EngineInv, NEW th \in Thread, WorkerIdle(th)
  PROVE  Good
<1> DEFINE t == task[th]
<1>1. /\ pc[th] = "ran" /\ busy' = busy - 1
      /\ task' = [task EXCEPT ![th] = NoTask]
      /\ pc' = [pc EXCEPT ![th] = "check"]
      /\ UNCHANGED <<queueVars, index, desired, ops>>
  BY DEF WorkerIdle
<1>2. QueueInv' /\ Queued' = Queued /\ UNCHANGED <<pushed, shut>>
  BY <1>1, QueueUnchanged DEF EngineInv, queueVars
<1>3. pc \in [Thread -> PcValues] /\ task \in [Thread -> Task \cup {NoTask}]
  BY DEF EngineInv, TypeOK, PcValues
<1>4. TypeOK'
  <2>1. BusyThreads' = BusyThreads \ {th} /\ th \in BusyThreads
    BY <1>1, <1>3 DEF BusyThreads
  <2>2. IsFiniteSet(BusyThreads)
    BY FiniteThreads DEF BusyThreads
  <2>3. Cardinality(BusyThreads') = Cardinality(BusyThreads) - 1
    BY <2>1, <2>2, FS_RemoveElement
  <2> QED
    BY <1>1, <1>2, <1>3, <2>3 DEF EngineInv, TypeOK, QueueInv, PcValues, BusyThreads
<1>5. /\ \A x \in Thread : Holds(x)' <=> x # th /\ Holds(x)
      /\ \A x \in Thread \ {th} : task'[x] = task[x] /\ pc'[x] = pc[x]
      /\ Holds(th) /\ task'[th] = NoTask
  BY <1>1, <1>3 DEF Holds
<1>6. TaskInOnePlace'
  BY <1>2, <1>5, EngineAssumption
     DEF EngineInv, TaskInOnePlace, HeldNotQueued, HeldOnce, ChildrenAwaitParent
<1>7. OneThreadPerIndex'
  BY <1>1, <1>3 DEF EngineInv, OneThreadPerIndex, Alive
<1>8. Pool!Finish
  <2>1. \A x \in Thread : Holds(x) /\ task[x] = t => x = th
    BY <1>5 DEF EngineInv, TaskInOnePlace, HeldOnce
  <2>2. Running' = Running \ {t} /\ t \in Running
    BY <1>5, <2>1 DEF Running
  <2> QED
    BY <1>2, <2>2 DEF Pool!Finish, Running
<1> QED
  BY <1>2, <1>4, <1>6, <1>7, <1>8 DEF Good, EngineInv, Pool!PoolNext

LEMMA ThreadEndsStep ==
  ASSUME EngineInv, NEW th \in Thread, ThreadEnds(th)
  PROVE  Good
<1>1. /\ pc[th] = "leaving"
      /\ pc' = [pc EXCEPT ![th] = "off"]
      /\ index' = [index EXCEPT ![th] = 0]
      /\ UNCHANGED <<queueVars, task, busy, desired, ops>>
  BY DEF ThreadEnds
<1>2. QueueInv' /\ Queued' = Queued /\ UNCHANGED <<pushed, shut>>
  BY <1>1, QueueUnchanged DEF EngineInv, queueVars
<1>3. /\ pc \in [Thread -> PcValues] /\ index \in [Thread -> 0 .. MaxWorkers - 1]
      /\ desired \in 1 .. MaxWorkers /\ ops \in 0 .. MaxOps
  BY DEF EngineInv, TypeOK, PcValues
<1>4. pc' \in [Thread -> PcValues] /\ index' \in [Thread -> 0 .. MaxWorkers - 1]
  BY <1>1, <1>3, EngineAssumption DEF PcValues
<1>5. OneThreadPerIndex'
  BY <1>1, <1>3 DEF EngineInv, OneThreadPerIndex, Alive
<1>6. /\ \A x \in Thread : Holds(x)' = Holds(x)
      /\ \A x \in Thread : (pc'[x] \in {"popped", "busy"}) = (pc[x] \in {"popped", "busy"})
      /\ \A x \in Thread : (pc'[x] \in {"busy", "ran"}) = (pc[x] \in {"busy", "ran"})
  BY <1>1, <1>3 DEF Holds
<1> QED
  BY <1>1, <1>2, <1>3, <1>4, <1>5, <1>6, QuietStep

(* The tree owner submits a task of its own: new to the queue, child of    *)
(* nobody.                                                                 *)
LEMMA SubmitStep ==
  ASSUME EngineInv, NEW t \in Task, Submit(t)
  PROVE  Good
<1>1. /\ t \in Requests /\ t \notin pushed /\ PushMany(<<t>>)
      /\ UNCHANGED <<index, task, busy, desired, ops>>
  BY DEF Submit
<1>2. PICK W \in WokenByPush(1) : pc' = Wake(W)
  BY DEF Submit
<1>3. <<t>> \in Seq(Task) /\ Elements(<<t>>) = {t} /\ Distinct(<<t>>)
  BY SingletonMembers
<1>4. t \notin Queued
  BY <1>1 DEF EngineInv, TaskInOnePlace
<1>5. /\ QueueInv' /\ Queued' = Queued \cup {t} /\ pushed' = pushed \cup {t}
      /\ shut' = shut
  <2>1. shut' = shut
    BY <1>1 DEF PushMany
  <2>2. Elements(<<t>>) \cap Queued = {}
    BY <1>3, <1>4
  <2> QED
    BY <1>1, <1>3, <2>1, <2>2, PushManyStep DEF EngineInv
<1>6. /\ pc' \in [Thread -> PcValues]
      /\ \A x \in Thread : pc'[x] # pc[x] => pc[x] = "asleep" /\ pc'[x] = "popping"
  BY <1>2, WokenSleep, WakeIsSafe
<1>7. TypeOK'
  <2>1. {x \in Thread : pc'[x] \in {"busy", "ran"}} = {x \in Thread : pc[x] \in {"busy", "ran"}}
    BY <1>6
  <2> QED
    BY <1>1, <1>5, <1>6, <2>1 DEF EngineInv, TypeOK, QueueInv, PcValues
<1>8. \A x \in Thread : Holds(x)' = Holds(x)
  BY <1>6 DEF Holds
<1>9. TaskInOnePlace'
  <2>1. (Queued \subseteq pushed)'
    BY <1>5 DEF EngineInv, TaskInOnePlace
  <2>2. HeldNotQueued'
    BY <1>1, <1>5, <1>8 DEF EngineInv, TaskInOnePlace, HeldNotQueued
  <2>3. HeldOnce'
    BY <1>1, <1>8 DEF EngineInv, TaskInOnePlace, HeldOnce
  <2>4. ChildrenAwaitParent'
    <3>1. \A u \in Task : t \notin Elements(Children[u])
      BY <1>1, TaskCreatedOnce
    <3> QED
      BY <1>1, <1>5, <1>6, <3>1 DEF EngineInv, TaskInOnePlace, ChildrenAwaitParent
  <2> QED
    BY <2>1, <2>2, <2>3, <2>4 DEF TaskInOnePlace
<1>10. OneThreadPerIndex'
  BY <1>1, <1>6 DEF EngineInv, OneThreadPerIndex, Alive
<1>11. Pool!Submit
  <2>1. Running' = Running
    BY <1>1, <1>8 DEF Running
  <2>2. {t} \in SUBSET (Task \ pushed)
    BY <1>1
  <2> QED
    BY <1>5, <2>1, <2>2 DEF Pool!Submit, Running
<1> QED
  BY <1>5, <1>7, <1>9, <1>10, <1>11 DEF Good, EngineInv, Pool!PoolNext

(* A user operation that wakes every sleeper, or nobody. *)
LEMMA OpsBounded ==
  ASSUME EngineInv, NEW k, UserOp(k)
  PROVE  ops' \in 0 .. MaxOps
BY EngineAssumption DEF EngineInv, TypeOK, UserOp

LEMMA WakeAllStep ==
  ASSUME EngineInv, QueueInv', Queued' \subseteq Queued, pc' = Wake(Asleep),
         UNCHANGED <<pushed, index, task, busy, desired>>,
         shut' = shut \/ (shut' = TRUE /\ Queued' = {}),
         ops' \in 0 .. MaxOps
  PROVE  Good
<1>1. /\ pc' \in [Thread -> PcValues]
      /\ \A x \in Thread : pc'[x] # pc[x] => pc[x] = "asleep" /\ pc'[x] = "popping"
  BY WakeIsSafe
<1> QED
  BY <1>1, SameThreadsStep DEF PcValues

LEMMA ChangeFocusStep == ASSUME EngineInv, ChangeFocus PROVE Good
<1>1. PICK f \in Path \cup {NoFocus} : SetFocus(f)
  BY DEF ChangeFocus
<1>2. QueueInv' /\ Queued' = Queued /\ UNCHANGED <<paused, shut, pushed>>
  BY <1>1, SetFocusStep DEF EngineInv
<1>3. ops' \in 0 .. MaxOps
  BY OpsBounded DEF ChangeFocus
<1> QED
  BY <1>2, <1>3, WakeAllStep DEF ChangeFocus

LEMMA PauseOrResumeStep == ASSUME EngineInv, PauseOrResume PROVE Good
<1>1. SetBackgroundPaused(~paused)
  BY DEF PauseOrResume
<1>2. QueueInv' /\ Queued' = Queued /\ UNCHANGED <<focus, shut, pushed>>
  <2>1. (~paused) \in BOOLEAN
    BY Zenon
  <2> QED
    BY <1>1, <2>1, PauseStep DEF EngineInv
<1>3. ops' \in 0 .. MaxOps
  BY OpsBounded DEF PauseOrResume
<1> QED
  BY <1>2, <1>3, WakeAllStep DEF PauseOrResume

LEMMA WithdrawStep == ASSUME EngineInv, Withdraw PROVE Good
<1>1. PICK X : DiscardMatching(X)
  BY DEF Withdraw
<1>2. QueueInv' /\ Queued' = Queued \ X /\ UNCHANGED <<focus, paused, shut, pushed>>
  BY <1>1, DiscardStep DEF EngineInv
<1>3. /\ ops' \in 0 .. MaxOps
      /\ UNCHANGED <<pc, index, task, busy, desired>>
  BY OpsBounded DEF Withdraw, threadVars
<1>4. pc' \in [Thread -> PcValues]
  BY <1>3 DEF EngineInv, TypeOK, PcValues
<1> QED
  BY <1>2, <1>3, <1>4, SameThreadsStep

LEMMA StopEngineStep == ASSUME EngineInv, StopEngine PROVE Good
<1>1. QueueInv' /\ Queued' = {} /\ shut' = TRUE /\ UNCHANGED <<focus, paused, pushed>>
  BY ShutdownStep DEF EngineInv, StopEngine
<1>2. ops' \in 0 .. MaxOps
  BY OpsBounded DEF StopEngine
<1> QED
  BY <1>1, <1>2, WakeAllStep DEF StopEngine

(* New threads take indices that no live thread has, each its own. *)
LEMMA ChangeWorkersStep == ASSUME EngineInv, ChangeWorkers PROVE Good
<1>1. PICK n \in 1 .. MaxWorkers : SetWorkerCount(n)
  BY DEF ChangeWorkers
<1> DEFINE missing == MissingIndices(n)
           spawned == {th \in FreeThreads : \E i \in missing : SpawnedAs(missing, th, i)}
           new(th) == CHOOSE i \in missing : SpawnedAs(missing, th, i)
<1>2. /\ desired' = n
      /\ pc' = [th \in Thread |-> IF th \in spawned THEN "check" ELSE pc[th]]
      /\ index' = [th \in Thread |-> IF th \in spawned THEN new(th) ELSE index[th]]
      /\ UNCHANGED <<queueVars, task, busy>>
  BY <1>1 DEF SetWorkerCount
<1>3. ops' \in 0 .. MaxOps
  BY OpsBounded DEF ChangeWorkers
<1>4. /\ pc \in [Thread -> PcValues] /\ index \in [Thread -> 0 .. MaxWorkers - 1]
  BY DEF EngineInv, TypeOK, PcValues
<1>5. QueueInv' /\ Queued' = Queued /\ UNCHANGED <<pushed, shut>>
  BY <1>2, QueueUnchanged DEF EngineInv, queueVars
<1>6. \A th \in spawned : new(th) \in missing /\ SpawnedAs(missing, th, new(th))
  OBVIOUS
<1>7. missing \subseteq 0 .. MaxWorkers - 1
  BY EngineAssumption DEF MissingIndices
<1>8. spawned \subseteq Thread /\ \A th \in spawned : pc[th] = "off"
  BY DEF FreeThreads, Alive
<1>9. \A a, b \in spawned : new(a) = new(b) => a = b
  <2>1. SUFFICES ASSUME NEW a \in spawned, NEW b \in spawned, new(a) = new(b)
                 PROVE  a = b
    OBVIOUS
  <2>2. RankIn(FreeThreads, a) = RankIn(FreeThreads, b)
    BY <1>6, <2>1 DEF SpawnedAs
  <2>3. MaxThreads \in Nat /\ FreeThreads \in SUBSET (1 .. MaxThreads)
    BY EngineAssumption DEF FreeThreads, Thread
  <2>4. a \in FreeThreads /\ b \in FreeThreads
    OBVIOUS
  <2> QED
    BY <2>2, <2>3, <2>4, RankInjective
<1>10. \A th \in Thread, i \in missing : Alive(th) => index[th] # i
  BY DEF MissingIndices
<1> HIDE DEF new, spawned, missing
<1>11. index' \in [Thread -> 0 .. MaxWorkers - 1] /\ pc' \in [Thread -> PcValues]
  BY <1>2, <1>4, <1>6, <1>7 DEF PcValues
<1>12. OneThreadPerIndex'
  <2>1. SUFFICES ASSUME NEW a \in Thread, NEW b \in Thread,
                        pc'[a] # "off", pc'[b] # "off", index'[a] = index'[b]
                 PROVE  a = b
    BY DEF OneThreadPerIndex, Alive
  <2>2. CASE a \in spawned /\ b \in spawned
    BY <1>2, <1>9, <2>1, <2>2
  <2>3. CASE a \in spawned /\ b \notin spawned
    BY <1>2, <1>6, <1>10, <2>1, <2>3 DEF Alive
  <2>4. CASE a \notin spawned /\ b \in spawned
    BY <1>2, <1>6, <1>10, <2>1, <2>4 DEF Alive
  <2>5. CASE a \notin spawned /\ b \notin spawned
    BY <1>2, <2>1, <2>5 DEF Alive, EngineInv, OneThreadPerIndex
  <2> QED
    BY <2>2, <2>3, <2>4, <2>5
<1>13. /\ \A x \in Thread : Holds(x)' = Holds(x)
       /\ \A x \in Thread : (pc'[x] \in {"popped", "busy"}) = (pc[x] \in {"popped", "busy"})
       /\ \A x \in Thread : (pc'[x] \in {"busy", "ran"}) = (pc[x] \in {"busy", "ran"})
  BY <1>2, <1>8 DEF Holds
<1>14. desired' \in 1 .. MaxWorkers
  BY <1>2
<1> QED
  BY <1>2, <1>3, <1>5, <1>11, <1>12, <1>13, <1>14, QuietStep

LEMMA StutterStep == ASSUME EngineInv, UNCHANGED vars PROVE Good
<1>1. UNCHANGED <<queueVars, pc, index, task, busy, desired, ops>>
  BY DEF vars, threadVars
<1>2. QueueInv' /\ Queued' = Queued /\ UNCHANGED <<pushed, shut>>
  BY <1>1, QueueUnchanged DEF EngineInv, queueVars
<1>3. ops' \in 0 .. MaxOps /\ pc' \in [Thread -> PcValues]
  BY <1>1 DEF EngineInv, TypeOK, PcValues
<1> QED
  BY <1>1, <1>2, <1>3, SameThreadsStep

LEMMA EngineInit == Init => EngineInv /\ Pool!PoolInit
<1> SUFFICES ASSUME Init PROVE EngineInv /\ Pool!PoolInit
  OBVIOUS
<1> USE EngineAssumption
<1>1. /\ urgent = <<>> /\ focused = <<>> /\ background = <<>> /\ focus = NoFocus
      /\ paused = FALSE /\ shut = FALSE /\ pushed = {}
      /\ desired \in 1 .. MaxWorkers /\ busy = 0 /\ ops = 0
      /\ pc = [th \in Thread |-> IF th <= desired THEN "check" ELSE "off"]
      /\ index = [th \in Thread |-> IF th <= desired THEN th - 1 ELSE 0]
      /\ task = [th \in Thread |-> NoTask]
  BY DEF Init, QueueInit
<1>2. Queued = {} /\ QueueInv
  BY <1>1, EmptyLane DEF Queued, QueueInv, QueueTypeOK, LanesMatchFocus, NoTaskQueuedTwice
<1>3. \A th \in Thread : th \in 1 .. MaxThreads
  BY DEF Thread
<1>4. \A th \in Thread : pc[th] \in {"check", "off"}
  BY <1>1
<1>5. index \in [Thread -> 0 .. MaxWorkers - 1]
  BY <1>1, <1>3
<1>6. TypeOK
  <2>1. {th \in Thread : pc[th] \in {"busy", "ran"}} = {}
    BY <1>4
  <2>2. busy = Cardinality({th \in Thread : pc[th] \in {"busy", "ran"}})
    BY <1>1, <2>1, FS_EmptySet
  <2>3. pc \in [Thread -> PcValues] /\ task \in [Thread -> Task \cup {NoTask}]
    BY <1>1 DEF PcValues
  <2>4. ops \in 0 .. MaxOps
    BY <1>1
  <2> QED
    BY <1>1, <1>2, <1>5, <2>2, <2>3, <2>4 DEF TypeOK, QueueInv, PcValues
<1>7. \A th \in Thread : ~Holds(th)
  BY <1>4 DEF Holds
<1>8. TaskInOnePlace
  BY <1>1, <1>2, <1>4, <1>7
     DEF TaskInOnePlace, HeldNotQueued, HeldOnce, ChildrenAwaitParent
<1>9. OneThreadPerIndex
  BY <1>1, <1>3 DEF OneThreadPerIndex, Alive
<1>10. Pool!PoolInit
  BY <1>1, <1>2, <1>7 DEF Pool!PoolInit
<1> QED
  BY <1>2, <1>6, <1>8, <1>9, <1>10 DEF EngineInv

(* Every step keeps the invariant and is a step of the pool or a stutter.  *)
LEMMA EngineStep == EngineInv /\ [Next]_vars => Good
<1> SUFFICES ASSUME EngineInv, [Next]_vars PROVE Good
  OBVIOUS
<1>1. ASSUME NEW th \in Thread, Thread_(th) PROVE Good
  <2>1. CASE CheckIndex(th)  BY <2>1, CheckIndexStep
  <2>2. CASE PopSome(th)     BY <2>2, PopSomeStep
  <2>3. CASE PopNone(th)     BY <2>3, PopNoneStep
  <2>4. CASE TimeOut(th)     BY <2>4, TimeOutStep
  <2>5. CASE AfterNone(th)   BY <2>5, AfterNoneStep
  <2>6. CASE WorkerBusy(th)  BY <2>6, WorkerBusyStep
  <2>7. CASE Execute(th)     BY <2>7, ExecuteStep
  <2>8. CASE WorkerIdle(th)  BY <2>8, WorkerIdleStep
  <2>9. CASE ThreadEnds(th)  BY <2>9, ThreadEndsStep
  <2> QED
    BY <1>1, <2>1, <2>2, <2>3, <2>4, <2>5, <2>6, <2>7, <2>8, <2>9 DEF Thread_
<1>2. ASSUME NEW t \in Task, Submit(t) PROVE Good
  BY <1>2, SubmitStep
<1>3. CASE ChangeFocus    BY <1>3, ChangeFocusStep
<1>4. CASE PauseOrResume  BY <1>4, PauseOrResumeStep
<1>5. CASE Withdraw       BY <1>5, WithdrawStep
<1>6. CASE ChangeWorkers  BY <1>6, ChangeWorkersStep
<1>7. CASE StopEngine     BY <1>7, StopEngineStep
<1>8. CASE Joined         BY <1>8, StutterStep DEF Joined
<1>9. CASE UNCHANGED vars BY <1>9, StutterStep
<1> QED
  BY <1>1, <1>2, <1>3, <1>4, <1>5, <1>6, <1>7, <1>8, <1>9 DEF Next

(* The inductive invariant of the scanner threads holds in every state. *)
THEOREM EngineInvariant == Spec => []EngineInv
<1>1. Init => EngineInv
  BY EngineInit
<1>2. EngineInv /\ [Next]_vars => EngineInv'
  BY EngineStep DEF Good
<1> QED
  BY <1>1, <1>2, PTL DEF Spec

(* The type invariant, with the worker statistics: busy_workers counts     *)
(* exactly the threads between worker_busy() and worker_idle().            *)
THEOREM TypesCorrect == Spec => []TypeOK
<1>1. EngineInv => TypeOK
  BY DEF EngineInv
<1> QED
  BY <1>1, EngineInvariant, PTL

(* The lanes follow the focus, and no task waits twice: TaskQueue's own    *)
(* promises, under every interleaving of threads and user.                 *)
THEOREM LanesCorrect == Spec => [](LanesMatchFocus /\ NoTaskQueuedTwice)
<1>1. EngineInv => LanesMatchFocus /\ NoTaskQueuedTwice
  BY DEF EngineInv, QueueInv
<1> QED
  BY <1>1, EngineInvariant, PTL

(* No task waits at two places of the lanes, under every interleaving.     *)
THEOREM QueuedOnce == Spec => []NoTaskQueuedTwice
<1>1. LanesMatchFocus /\ NoTaskQueuedTwice => NoTaskQueuedTwice
  OBVIOUS
<1> QED
  BY <1>1, LanesCorrect, PTL

(* A task is in one place: never queued and held, never held twice, never  *)
(* pushed before its parent ran.                                           *)
THEOREM OnePlacePerTask == Spec => []TaskInOnePlace
<1>1. EngineInv => TaskInOnePlace
  BY DEF EngineInv
<1> QED
  BY <1>1, EngineInvariant, PTL

(* Any sequence of worker count changes leaves at most one live thread per *)
(* worker index.                                                           *)
THEOREM IndicesUnique == Spec => []OneThreadPerIndex
<1>1. EngineInv => OneThreadPerIndex
  BY DEF EngineInv
<1> QED
  BY <1>1, EngineInvariant, PTL

(* The queue with its threads implements the abstract pool: no task is     *)
(* lost, duplicated, taken twice or resurrected.                           *)
THEOREM EngineImplementsPool == Spec => ImplementsPool
<1>1. Init => Pool!PoolInit
  BY EngineInit
<1>2. EngineInv /\ [Next]_vars => [Pool!PoolNext]_(Pool!poolVars)
  BY EngineStep DEF Good
<1> QED
  BY <1>1, <1>2, EngineInvariant, PTL DEF Spec, ImplementsPool, Pool!PoolSpec

-----------------------------------------------------------------------------
(***************************************************************************)
(* No wakeup is lost, for every tree of tasks and every number of threads. *)
(*                                                                         *)
(* NoLostWakeup is not inductive: that one thread is on its way does not   *)
(* say why the next thread that goes to sleep may do so.  AwakeForEach     *)
(* does: while some thread sleeps, there are at least as many threads at   *)
(* the lanes as tasks that may run.  A push of one task adds one of each,  *)
(* a pop takes one of each, and what may add several tasks wakes everyone. *)
(***************************************************************************)

(* The tasks that pop may return now, and the threads about to pop. *)
Runnable ==
  Elements(urgent) \cup Elements(focused) \cup (IF paused THEN {} ELSE Elements(background))
Popping == {th \in Thread : pc[th] = "popping"}

AwakeForEach == Asleep # {} => Cardinality(Runnable) <= Cardinality(Popping)
NoneSleepsAfterShutdown == shut => Asleep = {}
WakeupInv == AwakeForEach /\ NoneSleepsAfterShutdown

-----------------------------------------------------------------------------
(* Counting. *)

LEMMA ElementsFinite ==
  ASSUME NEW S, NEW s \in Seq(S)
  PROVE  IsFiniteSet(Elements(s))
<1>1. DOMAIN s = 1 .. Len(s) /\ Len(s) \in Nat
  BY LenProperties
<1>2. IsFiniteSet(DOMAIN s)
  BY <1>1, FS_Interval
<1>3. s \in [DOMAIN s -> Elements(s)]
  <2>1. s = [i \in DOMAIN s |-> s[i]]
    BY <1>1
  <2>2. \A i \in DOMAIN s : s[i] \in Elements(s)
    BY DEF Elements
  <2> QED
    BY <2>1, <2>2
<1>4. s \in Surjection(DOMAIN s, Elements(s))
  BY <1>3 DEF Surjection, Elements
<1> QED
  BY <1>2, <1>4, FS_Surjection

LEMMA RunnableFinite ==
  ASSUME QueueTypeOK
  PROVE  IsFiniteSet(Runnable) /\ Cardinality(Runnable) \in Nat
<1>1. /\ IsFiniteSet(Elements(urgent)) /\ IsFiniteSet(Elements(focused))
      /\ IsFiniteSet(Elements(background)) /\ IsFiniteSet({})
  BY ElementsFinite, FS_EmptySet DEF QueueTypeOK
<1>2. IsFiniteSet(Elements(urgent) \cup Elements(focused))
  BY <1>1, FS_Union
<1>3. IsFiniteSet(IF paused THEN {} ELSE Elements(background))
  BY <1>1
<1>4. IsFiniteSet(Runnable)
  BY <1>2, <1>3, FS_Union DEF Runnable
<1> QED
  BY <1>4, FS_CardinalityType

LEMMA PoppingFinite == IsFiniteSet(Popping) /\ Cardinality(Popping) \in Nat
<1>1. Popping \in SUBSET Thread
  BY DEF Popping
<1> QED
  BY <1>1, FiniteThreads

LEMMA NoWorkNoneRunnable ==
  ASSUME QueueTypeOK, ~HasRunnableWork
  PROVE  Runnable = {} /\ Cardinality(Runnable) = 0
<1>1. Runnable = {}
  BY EmptyLane DEF HasRunnableWork, Runnable
<1> QED
  BY <1>1, FS_EmptySet

(* Work that may run makes Runnable non-empty. *)
LEMMA WorkIsRunnable ==
  ASSUME QueueTypeOK, HasRunnableWork
  PROVE  Runnable # {}
<1>1. \A s \in Seq(Task) : s # <<>> => Elements(s) # {}
  <2>1. SUFFICES ASSUME NEW s \in Seq(Task), s # <<>> PROVE Elements(s) # {}
    OBVIOUS
  <2>2. DOMAIN s = 1 .. Len(s) /\ Len(s) \in Nat /\ Len(s) # 0
    BY <2>1, LenProperties, EmptySeq
  <2>3. 1 \in DOMAIN s
    BY <2>2
  <2> QED
    BY <2>3 DEF Elements
<1> QED
  BY <1>1 DEF QueueTypeOK, HasRunnableWork, Runnable

(* Steps that add no work, no sleeper, and leave the threads at the lanes. *)
LEMMA QuietWakeup ==
  ASSUME EngineInv, EngineInv', WakeupInv, Runnable' \subseteq Runnable,
         Asleep' \subseteq Asleep, Popping \subseteq Popping', shut' = shut
  PROVE  WakeupInv'
<1>1. IsFiniteSet(Runnable) /\ Cardinality(Runnable) \in Nat
  BY RunnableFinite DEF EngineInv, TypeOK
<1>2. IsFiniteSet(Runnable') /\ Cardinality(Runnable') \in Nat
  BY <1>1, FS_Subset, FS_CardinalityType
<1>3. Cardinality(Runnable') <= Cardinality(Runnable)
  BY <1>1, FS_Subset
<1>4. IsFiniteSet(Popping) /\ Cardinality(Popping) \in Nat
  BY PoppingFinite
<1>5. IsFiniteSet(Popping') /\ Cardinality(Popping') \in Nat
  <2>1. Popping' \in SUBSET Thread
    BY DEF Popping
  <2> QED
    BY <2>1, FiniteThreads
<1>6. Cardinality(Popping) <= Cardinality(Popping')
  BY <1>5, FS_Subset
<1>7. AwakeForEach'
  <2>1. SUFFICES ASSUME Asleep' # {} PROVE Cardinality(Runnable') <= Cardinality(Popping')
    BY DEF AwakeForEach
  <2>2. Cardinality(Runnable) <= Cardinality(Popping)
    BY <2>1 DEF WakeupInv, AwakeForEach
  <2> QED
    BY <1>1, <1>2, <1>3, <1>4, <1>5, <1>6, <2>2
<1>8. NoneSleepsAfterShutdown'
  BY DEF WakeupInv, NoneSleepsAfterShutdown
<1> QED
  BY <1>7, <1>8 DEF WakeupInv

LEMMA AllAwake ==
  ASSUME EngineInv, pc' = Wake(Asleep)
  PROVE  WakeupInv'
<1>1. Asleep' = {}
  BY WakeIsSafe DEF Asleep, Wake
<1> QED
  BY <1>1 DEF WakeupInv, AwakeForEach, NoneSleepsAfterShutdown

-----------------------------------------------------------------------------
(* Pushes: no sleeper for no task, one for one, all of them for several.   *)

LEMMA PushRunnable ==
  ASSUME QueueInv, NEW ts \in Seq(Task), Distinct(ts),
         Elements(ts) \cap Queued = {}, PushMany(ts)
  PROVE  Runnable' \subseteq Runnable \cup Elements(ts)
<1>1. /\ urgent \in Seq(Task) /\ focused \in Seq(Task) /\ background \in Seq(Task)
      /\ Distinct(urgent) /\ Distinct(focused) /\ Distinct(background)
      /\ Elements(urgent) \cap Elements(ts) = {}
      /\ Elements(focused) \cap Elements(ts) = {}
      /\ Elements(background) \cap Elements(ts) = {}
  BY DEF QueueInv, QueueTypeOK, NoTaskQueuedTwice, Queued
<1>2. Elements(urgent') = Elements(urgent) \cup (Elements(ts) \cap Urgent)
  <2>1. Elements(urgent \o Retain(ts, Urgent)) =
          Elements(urgent) \cup (Elements(ts) \cap Urgent)
    BY <1>1, PushLane
  <2> QED
    BY <2>1 DEF PushMany
<1>3. Elements(focused') = Elements(focused) \cup (Elements(ts) \cap FocusLane(focus))
  <2>1. Elements(focused \o Retain(ts, FocusLane(focus))) =
          Elements(focused) \cup (Elements(ts) \cap FocusLane(focus))
    BY <1>1, PushLane
  <2> QED
    BY <2>1 DEF PushMany
<1>4. Elements(background') = Elements(background) \cup (Elements(ts) \cap BackgroundLane(focus))
  <2>1. Elements(background \o Retain(ts, BackgroundLane(focus))) =
          Elements(background) \cup (Elements(ts) \cap BackgroundLane(focus))
    BY <1>1, PushLane
  <2> QED
    BY <2>1 DEF PushMany
<1>5. paused' = paused
  BY DEF PushMany
<1> QED
  BY <1>2, <1>3, <1>4, <1>5 DEF Runnable

LEMMA FewElements ==
  ASSUME NEW ts \in Seq(Task)
  PROVE  /\ Len(ts) = 0 => Elements(ts) = {}
         /\ Len(ts) = 1 => Elements(ts) = {ts[1]}
<1>1. DOMAIN ts = 1 .. Len(ts)
  BY LenProperties
<1> QED
  BY <1>1 DEF Elements

LEMMA WokenPush ==
  ASSUME EngineInv, EngineInv', WakeupInv, NEW ts \in Seq(Task),
         NEW W \in WokenByPush(Len(ts)),
         Runnable' \subseteq Runnable \cup Elements(ts),
         Asleep' = Asleep \ W, Popping' = Popping \cup W, shut' = shut
  PROVE  WakeupInv'
<1>1. Len(ts) \in Nat
  BY LenProperties
<1>2. CASE Len(ts) = 0
  <2>1. Runnable' \subseteq Runnable
    BY <1>2, FewElements
  <2> QED
    BY <2>1, QuietWakeup
<1>3. CASE Asleep = {}
  BY <1>3 DEF WakeupInv, AwakeForEach, NoneSleepsAfterShutdown
<1>4. CASE Len(ts) = 1 /\ Asleep # {}
  <2>1. PICK th \in Asleep : W = {th}
    BY <1>4 DEF WokenByPush
  <2>2. /\ IsFiniteSet(Runnable) /\ Cardinality(Runnable) \in Nat
        /\ IsFiniteSet(Popping) /\ Cardinality(Popping) \in Nat
    BY RunnableFinite, PoppingFinite DEF EngineInv, TypeOK
  <2>3. th \notin Popping
    BY DEF Asleep, Popping
  <2>4. Cardinality(Popping') = Cardinality(Popping) + 1
    BY <2>1, <2>2, <2>3, FS_AddElement
  <2>5. /\ IsFiniteSet(Runnable \cup {ts[1]})
        /\ Cardinality(Runnable \cup {ts[1]}) \in Nat
        /\ Cardinality(Runnable \cup {ts[1]}) <= Cardinality(Runnable) + 1
    <3>1. /\ IsFiniteSet(Runnable \cup {ts[1]})
          /\ Cardinality(Runnable \cup {ts[1]}) =
               IF ts[1] \in Runnable THEN Cardinality(Runnable) ELSE Cardinality(Runnable) + 1
      BY <2>2, FS_AddElement
    <3> QED
      BY <2>2, <3>1
  <2>6. Runnable' \in SUBSET (Runnable \cup {ts[1]})
    BY <1>4, FewElements
  <2>7. /\ Cardinality(Runnable') \in Nat
        /\ Cardinality(Runnable') <= Cardinality(Runnable \cup {ts[1]})
    BY <2>5, <2>6, FS_Subset, FS_CardinalityType
  <2>8. Cardinality(Runnable) <= Cardinality(Popping)
    BY <1>4 DEF WakeupInv, AwakeForEach
  <2>9. AwakeForEach'
    BY <2>2, <2>4, <2>5, <2>7, <2>8 DEF AwakeForEach
  <2>10. NoneSleepsAfterShutdown'
    BY DEF WakeupInv, NoneSleepsAfterShutdown
  <2> QED
    BY <2>9, <2>10 DEF WakeupInv
<1>5. CASE Len(ts) # 0 /\ Len(ts) # 1 /\ Asleep # {}
  <2>1. W = Asleep
    BY <1>5 DEF WokenByPush
  <2>2. Asleep' = {}
    BY <2>1
  <2> QED
    BY <2>2 DEF WakeupInv, AwakeForEach, NoneSleepsAfterShutdown
<1> QED
  BY <1>2, <1>3, <1>4, <1>5

LEMMA SubmitWakes ==
  ASSUME EngineInv, EngineInv', WakeupInv, NEW t \in Task, Submit(t)
  PROVE  WakeupInv'
<1>1. t \notin pushed /\ PushMany(<<t>>)
  BY DEF Submit
<1>2. <<t>> \in Seq(Task) /\ Elements(<<t>>) = {t} /\ Distinct(<<t>>) /\ Len(<<t>>) = 1
  BY SingletonMembers
<1>3. PICK W \in WokenByPush(Len(<<t>>)) : pc' = Wake(W)
  BY <1>2 DEF Submit
<1>4. Runnable' \subseteq Runnable \cup Elements(<<t>>)
  <2>1. Elements(<<t>>) \cap Queued = {}
    BY <1>1, <1>2 DEF EngineInv, TaskInOnePlace
  <2> QED
    BY <1>1, <1>2, <2>1, PushRunnable DEF EngineInv
<1>5. W \in SUBSET Asleep
  BY <1>2, <1>3, WokenSleep
<1>6. Asleep' = Asleep \ W /\ Popping' = Popping \cup W
  BY <1>3, <1>5 DEF Wake, Asleep, Popping
<1>7. shut' = shut
  BY <1>1 DEF PushMany
<1> QED
  BY <1>2, <1>3, <1>4, <1>6, <1>7, WokenPush

LEMMA ExecuteWakes ==
  ASSUME EngineInv, EngineInv', WakeupInv, NEW th \in Thread, Execute(th)
  PROVE  WakeupInv'
<1> DEFINE t == task[th]
           ts == Children[t]
<1>1. pc[th] = "busy" /\ PushMany(ts)
  BY DEF Execute
<1>2. PICK W \in WokenByPush(Len(ts)) : pc' = [Wake(W) EXCEPT ![th] = "ran"]
  BY DEF Execute
<1>3. t \in pushed \ Queued /\ t \in Task
  BY <1>1 DEF EngineInv, TaskInOnePlace, HeldNotQueued, Holds, QueueInv, QueueTypeOK
<1>4. ts \in Seq(Task) /\ Distinct(ts) /\ Len(ts) \in Nat
  BY <1>3, EngineAssumption, TaskCreatedOnce, LenProperties
<1>5. Elements(ts) \cap Queued = {}
  <2>1. Elements(ts) \cap pushed = {}
    BY <1>1, <1>3 DEF EngineInv, TaskInOnePlace, ChildrenAwaitParent
  <2> QED
    BY <2>1 DEF EngineInv, TaskInOnePlace
<1>6. Runnable' \subseteq Runnable \cup Elements(ts)
  BY <1>1, <1>4, <1>5, PushRunnable DEF EngineInv
<1>7. W \in SUBSET Asleep
  BY <1>2, <1>4, WokenSleep
<1>8. Asleep' = Asleep \ W /\ Popping' = Popping \cup W
  BY <1>1, <1>2, <1>7 DEF Wake, Asleep, Popping
<1>9. shut' = shut
  BY <1>1 DEF PushMany
<1> HIDE DEF ts
<1> QED
  BY <1>2, <1>4, <1>6, <1>8, <1>9, WokenPush

-----------------------------------------------------------------------------
(* Pops. *)

LEMMA PopRunnable ==
  ASSUME QueueInv, NEW t, PopTask(t)
  PROVE  t \in Runnable /\ Runnable' = Runnable \ {t}
<1>1. /\ urgent \in Seq(Task) /\ focused \in Seq(Task) /\ background \in Seq(Task)
      /\ Distinct(urgent) /\ Distinct(focused) /\ Distinct(background)
      /\ Elements(urgent) \subseteq Urgent
      /\ Elements(focused) \subseteq FocusLane(focus)
      /\ Elements(background) \subseteq BackgroundLane(focus)
  BY DEF QueueInv, QueueTypeOK, NoTaskQueuedTwice, LanesMatchFocus
<1>2. paused' = paused
  BY DEF PopTask
<1>3. CASE PopUrgent(t)
  <2>1. /\ t \in Elements(urgent) /\ Elements(urgent') = Elements(urgent) \ {t}
        /\ focused' = focused /\ background' = background
    BY <1>1, <1>3, HeadMembers DEF PopUrgent
  <2>2. t \notin Elements(focused) /\ t \notin Elements(background)
    BY <1>1, <2>1, LanesDisjoint
  <2> QED
    BY <1>2, <2>1, <2>2 DEF Runnable
<1>4. CASE PopFocused(t)
  <2>1. /\ t \in Elements(focused) /\ Elements(focused') = Elements(focused) \ {t}
        /\ urgent' = urgent /\ background' = background
    BY <1>1, <1>4, LastMembers DEF PopFocused
  <2>2. t \notin Elements(urgent) /\ t \notin Elements(background)
    BY <1>1, <2>1, LanesDisjoint
  <2> QED
    BY <1>2, <2>1, <2>2 DEF Runnable
<1>5. CASE PopBackground(t)
  <2>1. /\ t \in Elements(background) /\ Elements(background') = Elements(background) \ {t}
        /\ urgent' = urgent /\ focused' = focused /\ ~paused
    BY <1>1, <1>5, LastMembers DEF PopBackground
  <2>2. t \notin Elements(urgent) /\ t \notin Elements(focused)
    BY <1>1, <2>1, LanesDisjoint
  <2> QED
    BY <1>2, <2>1, <2>2 DEF Runnable
<1> QED
  BY <1>3, <1>4, <1>5 DEF PopTask

LEMMA PopSomeWakes ==
  ASSUME EngineInv, EngineInv', WakeupInv, NEW th \in Thread, PopSome(th)
  PROVE  WakeupInv'
<1>1. PICK t \in Queued : PopTask(t)
  BY DEF PopSome
<1>2. t \in Runnable /\ Runnable' = Runnable \ {t} /\ shut' = shut
  BY <1>1, PopRunnable DEF EngineInv, PopTask
<1>3. th \in Popping /\ Popping' = Popping \ {th} /\ Asleep' = Asleep
  BY DEF EngineInv, TypeOK, PopSome, Popping, Asleep
<1>4. /\ IsFiniteSet(Runnable) /\ Cardinality(Runnable) \in Nat
      /\ IsFiniteSet(Popping) /\ Cardinality(Popping) \in Nat
  BY RunnableFinite, PoppingFinite DEF EngineInv, TypeOK
<1>5. /\ Cardinality(Runnable') = Cardinality(Runnable) - 1
      /\ Cardinality(Popping') = Cardinality(Popping) - 1
  BY <1>2, <1>3, <1>4, FS_RemoveElement
<1>6. AwakeForEach'
  BY <1>3, <1>4, <1>5 DEF WakeupInv, AwakeForEach
<1>7. NoneSleepsAfterShutdown'
  BY <1>2, <1>3 DEF WakeupInv, NoneSleepsAfterShutdown
<1> QED
  BY <1>6, <1>7 DEF WakeupInv

(* A thread goes to sleep only when nothing may run. *)
LEMMA PopNoneWakes ==
  ASSUME EngineInv, EngineInv', WakeupInv, NEW th \in Thread, PopNone(th)
  PROVE  WakeupInv'
<1>1. pc[th] = "popping" /\ UNCHANGED queueVars /\ pc \in [Thread -> PcValues]
  BY DEF PopNone, EngineInv, TypeOK, PcValues
<1>2. shut' = shut /\ paused' = paused
  BY <1>1 DEF queueVars
<1>3. CASE shut /\ pc' = [pc EXCEPT ![th] = "empty"]
  <2>1. Asleep' = {}
    BY <1>1, <1>3 DEF WakeupInv, NoneSleepsAfterShutdown, Asleep
  <2> QED
    BY <2>1 DEF WakeupInv, AwakeForEach, NoneSleepsAfterShutdown
<1>4. CASE ~shut /\ ~HasRunnableWork
  <2>1. Runnable' = Runnable
    BY <1>1 DEF queueVars, Runnable
  <2>2. Cardinality(Runnable') = 0
    BY <1>4, <2>1, NoWorkNoneRunnable DEF EngineInv, TypeOK
  <2>3. Cardinality(Popping') \in Nat
    <3>1. Popping' \in SUBSET Thread
      BY DEF Popping
    <3> QED
      BY <3>1, FiniteThreads
  <2> QED
    BY <1>2, <1>4, <2>2, <2>3 DEF WakeupInv, AwakeForEach, NoneSleepsAfterShutdown
<1> QED
  BY <1>3, <1>4 DEF PopNone

-----------------------------------------------------------------------------
(* Every other step of a thread is quiet, and so is a change of their      *)
(* number; the user's other operations wake everyone or only shrink the    *)
(* lanes.                                                                  *)

LEMMA QuietThread ==
  ASSUME EngineInv, EngineInv', WakeupInv, NEW th \in Thread,
         NEW from \in PcValues \ {"popping"}, NEW to \in PcValues \ {"asleep"},
         pc[th] = from, pc' = [pc EXCEPT ![th] = to], UNCHANGED queueVars
  PROVE  WakeupInv'
<1>1. pc \in [Thread -> PcValues]
  BY DEF EngineInv, TypeOK, PcValues
<1>2. Asleep' \subseteq Asleep /\ Popping \subseteq Popping'
  BY <1>1 DEF Asleep, Popping
<1>3. Runnable' = Runnable /\ shut' = shut
  BY DEF queueVars, Runnable
<1> QED
  BY <1>2, <1>3, QuietWakeup

LEMMA ThreadWakes ==
  ASSUME EngineInv, EngineInv', WakeupInv, NEW th \in Thread, Thread_(th)
  PROVE  WakeupInv'
<1>1. CASE CheckIndex(th)
  BY <1>1, QuietThread DEF CheckIndex, PcValues
<1>2. CASE PopSome(th)  BY <1>2, PopSomeWakes
<1>3. CASE PopNone(th)  BY <1>3, PopNoneWakes
<1>4. CASE TimeOut(th)
  BY <1>4, QuietThread DEF TimeOut, PcValues
<1>5. CASE AfterNone(th)
  BY <1>5, QuietThread DEF AfterNone, PcValues
<1>6. CASE WorkerBusy(th)
  BY <1>6, QuietThread DEF WorkerBusy, PcValues
<1>7. CASE Execute(th)  BY <1>7, ExecuteWakes
<1>8. CASE WorkerIdle(th)
  BY <1>8, QuietThread DEF WorkerIdle, PcValues
<1>9. CASE ThreadEnds(th)
  BY <1>9, QuietThread DEF ThreadEnds, PcValues
<1> QED
  BY <1>1, <1>2, <1>3, <1>4, <1>5, <1>6, <1>7, <1>8, <1>9 DEF Thread_

LEMMA WithdrawWakes ==
  ASSUME EngineInv, EngineInv', WakeupInv, Withdraw
  PROVE  WakeupInv'
<1>1. PICK X : DiscardMatching(X)
  BY DEF Withdraw
<1>2. /\ urgent \in Seq(Task) /\ focused \in Seq(Task) /\ background \in Seq(Task)
      /\ Distinct(urgent) /\ Distinct(focused) /\ Distinct(background)
  BY DEF EngineInv, QueueInv, QueueTypeOK, NoTaskQueuedTwice
<1>3. /\ Elements(urgent') \subseteq Elements(urgent)
      /\ Elements(focused') \subseteq Elements(focused)
      /\ Elements(background') \subseteq Elements(background)
  BY <1>1, <1>2, RetainLane DEF DiscardMatching
<1>4. paused' = paused /\ shut' = shut /\ pc' = pc
  BY <1>1 DEF DiscardMatching, Withdraw, threadVars
<1>5. Runnable' \subseteq Runnable
  BY <1>3, <1>4 DEF Runnable
<1>6. Asleep' = Asleep /\ Popping' = Popping
  BY <1>4 DEF Asleep, Popping
<1> QED
  BY <1>4, <1>5, <1>6, QuietWakeup

LEMMA ChangeWorkersWakes ==
  ASSUME EngineInv, EngineInv', WakeupInv, ChangeWorkers
  PROVE  WakeupInv'
<1>1. PICK n \in 1 .. MaxWorkers : SetWorkerCount(n)
  BY DEF ChangeWorkers
<1>2. PICK spawned \in SUBSET FreeThreads :
        pc' = [th \in Thread |-> IF th \in spawned THEN "check" ELSE pc[th]]
  BY <1>1 DEF SetWorkerCount
<1>3. UNCHANGED queueVars
  BY <1>1 DEF SetWorkerCount
<1>4. \A th \in spawned : th \in Thread /\ pc[th] = "off"
  BY DEF FreeThreads, Alive
<1>5. Asleep' \subseteq Asleep /\ Popping \subseteq Popping'
  BY <1>2, <1>4 DEF Asleep, Popping
<1>6. Runnable' = Runnable /\ shut' = shut
  BY <1>3 DEF queueVars, Runnable
<1> QED
  BY <1>5, <1>6, QuietWakeup

LEMMA StutterWakes ==
  ASSUME WakeupInv, UNCHANGED vars
  PROVE  WakeupInv'
BY DEF vars, queueVars, threadVars, WakeupInv, AwakeForEach, NoneSleepsAfterShutdown,
       Asleep, Popping, Runnable

LEMMA WakeupStep ==
  EngineInv /\ EngineInv' /\ WakeupInv /\ [Next]_vars => WakeupInv'
<1> SUFFICES ASSUME EngineInv, EngineInv', WakeupInv, [Next]_vars PROVE WakeupInv'
  OBVIOUS
<1>1. ASSUME NEW th \in Thread, Thread_(th) PROVE WakeupInv'
  BY <1>1, ThreadWakes
<1>2. ASSUME NEW t \in Task, Submit(t) PROVE WakeupInv'
  BY <1>2, SubmitWakes
<1>3. CASE ChangeFocus    BY <1>3, AllAwake DEF ChangeFocus
<1>4. CASE PauseOrResume  BY <1>4, AllAwake DEF PauseOrResume
<1>5. CASE Withdraw       BY <1>5, WithdrawWakes
<1>6. CASE ChangeWorkers  BY <1>6, ChangeWorkersWakes
<1>7. CASE StopEngine     BY <1>7, AllAwake DEF StopEngine
<1>8. CASE Joined         BY <1>8, StutterWakes DEF Joined
<1>9. CASE UNCHANGED vars BY <1>9, StutterWakes
<1> QED
  BY <1>1, <1>2, <1>3, <1>4, <1>5, <1>6, <1>7, <1>8, <1>9 DEF Next

LEMMA WakeupInit == Init => WakeupInv
<1> SUFFICES ASSUME Init PROVE WakeupInv
  OBVIOUS
<1>1. Asleep = {}
  BY DEF Init, Asleep
<1> QED
  BY <1>1 DEF WakeupInv, AwakeForEach, NoneSleepsAfterShutdown

(* While some thread sleeps, every task that may run has a thread at the   *)
(* lanes, and nobody sleeps once the engine is shut down.                  *)
THEOREM AwakeForEachTask == Spec => []WakeupInv
<1>1. Init => WakeupInv
  BY WakeupInit
<1>2. EngineInv /\ EngineInv' /\ WakeupInv /\ [Next]_vars => WakeupInv'
  BY WakeupStep
<1> QED
  BY <1>1, <1>2, EngineInvariant, PTL DEF Spec

(* Work that may run is never left to threads that all sleep until their   *)
(* timeout: the choice between notify_one and notify_all never loses a     *)
(* wakeup.                                                                 *)
THEOREM NoWakeupLost == Spec => []NoLostWakeup
<1>1. EngineInv /\ WakeupInv => NoLostWakeup
  <2>1. SUFFICES ASSUME EngineInv, WakeupInv, HasRunnableWork, Asleep # {}
                 PROVE  \E th \in Thread : WillServe(th)
    BY DEF NoLostWakeup
  <2>2. Runnable # {} /\ IsFiniteSet(Runnable) /\ Cardinality(Runnable) \in Nat
    BY <2>1, WorkIsRunnable, RunnableFinite DEF EngineInv, TypeOK
  <2>3. Cardinality(Runnable) # 0
    BY <2>2, FS_EmptySet
  <2>4. Cardinality(Popping) # 0
    BY <2>1, <2>2, <2>3, PoppingFinite DEF WakeupInv, AwakeForEach
  <2>5. Popping # {}
    BY <2>4, FS_EmptySet
  <2> QED
    BY <2>5 DEF Popping, WillServe
<1> QED
  BY <1>1, EngineInvariant, AwakeForEachTask, PTL
=============================================================================
