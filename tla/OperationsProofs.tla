-------------------------- MODULE OperationsProofs ---------------------------
(***************************************************************************)
(* What the interface thread, the thread of a run, the scanner threads and *)
(* the other programs keep, whatever they do and in whatever order, while  *)
(* marked items are deleted and targets cleaned.                           *)
(*                                                                         *)
(* The invariant has four parts: the list of targets, with the searches    *)
(* that feed it (ListInv); the run, from the messages that are on their    *)
(* way back to the entries on the disk (RunInv); the numbers by which      *)
(* plans and reports name targets (NumbersInv); and the tree (TreeInv).    *)
(* A second invariant (FoundInv) follows the walks of the searches, from   *)
(* the tasks that are left to the reports that have not arrived.           *)
(***************************************************************************)
EXTENDS Operations, DataLemmas

-----------------------------------------------------------------------------
(* Folds over what has grown by one. *)

LEMMA AppendParts ==
  ASSUME NEW S, NEW s \in Seq(S), NEW x
  PROVE  /\ DOMAIN Append(s, x) = 1 .. (Len(s) + 1) /\ DOMAIN s = 1 .. Len(s)
         /\ Len(s) \in Nat /\ Len(Append(s, x)) = Len(s) + 1
         /\ \A i \in 1 .. Len(s) : Append(s, x)[i] = s[i]
         /\ Append(s, x)[Len(s) + 1] = x
         /\ x \in S => Append(s, x) \in Seq(S)
  OBVIOUS

LEMMA LastOfRange ==
  ASSUME NEW n \in Nat
  PROVE  /\ PickLast(1 .. (n + 1)) = n + 1
         /\ (1 .. (n + 1)) \ {n + 1} = 1 .. n
         /\ IsFiniteSet(1 .. (n + 1)) /\ IsFiniteSet(1 .. n)
         /\ \A t \in SUBSET (1 .. (n + 1)) : t # {} => PickLast(t) \in t
         /\ \A t \in SUBSET (1 .. n) : t # {} => PickLast(t) \in t
<1>1. PickLast(1 .. (n + 1)) = n + 1
  <2>1. \E i \in 1 .. (n + 1) : \A j \in 1 .. (n + 1) : i >= j
    OBVIOUS
  <2>2. PickLast(1 .. (n + 1)) \in 1 .. (n + 1)
          /\ \A j \in 1 .. (n + 1) : PickLast(1 .. (n + 1)) >= j
    BY <2>1 DEF PickLast
  <2> QED BY <2>2
<1>2. n + 1 \in Nat
  OBVIOUS
<1>3. IsFiniteSet(1 .. (n + 1)) /\ IsFiniteSet(1 .. n)
  BY <1>2, FS_Interval
<1>4. (1 .. (n + 1)) \ {n + 1} = 1 .. n
  OBVIOUS
<1>5. \A t \in SUBSET (1 .. (n + 1)) : t # {} => PickLast(t) \in t
  <2> DEFINE k == n + 1
  <2>1. k \in Nat
    OBVIOUS
  <2> HIDE DEF k
  <2>2. \A t \in SUBSET (1 .. k) : t # {} => PickLast(t) \in t
    BY <2>1, PickLastPicks
  <2> QED BY <2>2 DEF k
<1>6. \A t \in SUBSET (1 .. n) : t # {} => PickLast(t) \in t
  BY PickLastPicks
<1> QED BY <1>1, <1>3, <1>4, <1>5, <1>6

FieldOp(p, n, i) == n + p.of[i][p.field]
FieldGood(p, s, n) == (\A i \in DOMAIN p.of : p.of[i][p.field] \in Nat) /\ s \subseteq DOMAIN p.of => n \in Nat
MessageOp(p, r, i) == ApplyMessage(r, p[i])
AnyGood(p, s, r) == TRUE

SumFold == INSTANCE FoldLemmas WITH Op <- FieldOp, Pick <- PickLast, Good <- FieldGood
MessageFold == INSTANCE FoldLemmas WITH Op <- MessageOp, Pick <- PickLast, Good <- AnyGood

LEMMA SumIsFold ==
  ASSUME NEW s, NEW field
  PROVE  SumOf(s, field) = SumFold!Fold([of |-> s, field |-> field], 0, DOMAIN s)
BY ZenonT(60) DEF SumOf, FoldLeft, MapThenFoldSet, SumFold!Fold, SumFold!Step, FieldOp, PickLast, Max

LEMMA SumOfNone ==
  ASSUME NEW field
  PROVE  SumOf(<<>>, field) = 0
<1> DEFINE p == [of |-> <<>>, field |-> field]
<1>1. SumOf(<<>>, field) = SumFold!Fold(p, 0, {})
  BY SumIsFold
<1>2. SumFold!Inductive({})
  BY FiniteInductive, FS_EmptySet DEF SumFold!Inductive
<1>3. PICK g : SumFold!Folds(p, 0, g, {}) /\ SumFold!Fold(p, 0, {}) = g[{}]
  <2> HIDE DEF p
  <2> QED BY <1>2, SumFold!FoldUnfolds
<1>4. g[{}] = SumFold!Step(p, 0, g, {})
  BY <1>3 DEF SumFold!Folds
<1> QED BY <1>1, <1>3, <1>4 DEF SumFold!Step

LEMMA SumOfAppend ==
  ASSUME NEW S, NEW s \in Seq(S), NEW x, NEW field
  PROVE  SumOf(Append(s, x), field) = SumOf(s, field) + x[field]
<1> DEFINE n == Len(s)
           t == Append(s, x)
           p == [of |-> s, field |-> field]
           q == [of |-> t, field |-> field]
<1>1. /\ DOMAIN t = 1 .. (n + 1) /\ DOMAIN s = 1 .. n /\ n \in Nat
      /\ \A i \in 1 .. n : t[i] = s[i]
      /\ t[n + 1] = x
  BY AppendParts
<1>2. SumOf(t, field) = SumFold!Fold(q, 0, 1 .. (n + 1)) /\ SumOf(s, field) = SumFold!Fold(p, 0, 1 .. n)
  BY <1>1, SumIsFold
<1>3. \A a : FieldOp(q, a, n + 1) = a + x[field]
  BY <1>1 DEF FieldOp
<1>4. \A i \in 1 .. n : \A a : FieldOp(q, a, i) = FieldOp(p, a, i)
  BY <1>1 DEF FieldOp
<1> HIDE DEF n, t, p, q
<1>5. SumFold!Inductive(1 .. (n + 1)) /\ SumFold!Inductive(1 .. n)
  <2>1. IsFiniteSet(1 .. (n + 1)) /\ IsFiniteSet(1 .. n)
    BY <1>1, LastOfRange
  <2>2. SumFold!Inductive(1 .. (n + 1))
    BY ZenonT(40), <2>1, FiniteInductive DEF SumFold!Inductive
  <2>3. SumFold!Inductive(1 .. n)
    BY ZenonT(40), <2>1, FiniteInductive DEF SumFold!Inductive
  <2> QED BY <2>2, <2>3
<1>6. SumFold!Fold(q, 0, 1 .. (n + 1)) = FieldOp(q, SumFold!Fold(q, 0, 1 .. n), n + 1)
  <2> DEFINE D == 1 .. (n + 1)
  <2>1. D \ {PickLast(D)} = 1 .. n /\ PickLast(D) = n + 1 /\ D # {}
    <3>1. PickLast(1 .. (n + 1)) = n + 1 /\ (1 .. (n + 1)) \ {n + 1} = 1 .. n
      BY <1>1, LastOfRange
    <3>2. n + 1 \in 1 .. (n + 1)
      BY <1>1
    <3> QED BY <3>1, <3>2
  <2>2. \A k \in SUBSET D : k # {} => PickLast(k) \in k
    BY <1>1, LastOfRange
  <2>3. SumFold!Inductive(D) /\ SumFold!Inductive(D \ {PickLast(D)})
    BY <1>5, <2>1
  <2> HIDE DEF D
  <2>4. SumFold!Fold(q, 0, D) = FieldOp(q, SumFold!Fold(q, 0, D \ {PickLast(D)}), PickLast(D))
    BY <2>1, <2>2, <2>3, SumFold!FoldStep
  <2> QED BY <2>1, <2>4 DEF D
<1>7. SumFold!Fold(q, 0, 1 .. n) = SumFold!Fold(p, 0, 1 .. n)
  <2> DEFINE D == 1 .. n
  <2>1. \A k \in SUBSET D : k # {} => PickLast(k) \in k
    BY <1>1, LastOfRange
  <2>2. SumFold!Inductive(D) /\ \A i \in D : \A a : FieldOp(q, a, i) = FieldOp(p, a, i)
    BY <1>4, <1>5
  <2> HIDE DEF D
  <2>3. SumFold!Fold(q, 0, D) = SumFold!Fold(p, 0, D)
    BY <2>1, <2>2, SumFold!FoldSame
  <2> QED BY <2>3 DEF D
<1> QED BY <1>2, <1>3, <1>6, <1>7 DEF t

LEMMA SumOfType ==
  ASSUME NEW S, NEW s \in Seq(S), NEW field, \A x \in S : x[field] \in Nat
  PROVE  SumOf(s, field) \in Nat
<1> DEFINE p == [of |-> s, field |-> field]
           D == DOMAIN s
<1>1. SumOf(s, field) = SumFold!Fold(p, 0, D)
  BY SumIsFold
<1>2. D = 1 .. Len(s) /\ Len(s) \in Nat /\ \A i \in D : s[i] \in S
  BY ElementOfSeq, LenProperties
<1>3. \A i \in DOMAIN p.of : p.of[i][p.field] \in Nat
  BY <1>2
<1>4. p.of = s
  OBVIOUS
<1> HIDE DEF p
<1>5. SumFold!Inductive(D) /\ \A k \in SUBSET D : k # {} => PickLast(k) \in k
  <2> DEFINE n == Len(s)
  <2>1. D = 1 .. n /\ n \in Nat
    BY <1>2
  <2> HIDE DEF n, D
  <2>2. IsFiniteSet(D) /\ \A k \in SUBSET D : k # {} => PickLast(k) \in k
    BY <2>1, LastOfRange
  <2> QED BY <2>2, FiniteInductive DEF SumFold!Inductive
<1>6. FieldGood(p, {}, 0)
  BY DEF FieldGood
<1>7. \A k \in SUBSET D : k # {} =>
        \A a : FieldGood(p, k \ {PickLast(k)}, a) => FieldGood(p, k, FieldOp(p, a, PickLast(k)))
  BY <1>3, <1>4, <1>5 DEF FieldGood, FieldOp
<1> HIDE DEF D
<1>8. FieldGood(p, D, SumFold!Fold(p, 0, D))
  BY <1>5, <1>6, <1>7, SumFold!FoldKeeps
<1> QED BY <1>1, <1>3, <1>4, <1>8 DEF FieldGood, D

(* The modal of run r when the messages of s have arrived. *)
Applied(r, s) == FoldLeft(ApplyMessage, r, s)

LEMMA MessagesAreFold ==
  ASSUME NEW s, NEW r
  PROVE  Applied(r, s) = MessageFold!Fold(s, r, DOMAIN s)
BY Zenon DEF Applied, FoldLeft, MapThenFoldSet, MessageFold!Fold, MessageFold!Step, MessageOp, PickLast, Max

LEMMA NoMessages ==
  ASSUME NEW r
  PROVE  Applied(r, <<>>) = r
<1>1. Applied(r, <<>>) = MessageFold!Fold(<<>>, r, {})
  BY MessagesAreFold
<1>2. MessageFold!Inductive({})
  BY FiniteInductive, FS_EmptySet DEF MessageFold!Inductive
<1>3. PICK g : MessageFold!Folds(<<>>, r, g, {}) /\ MessageFold!Fold(<<>>, r, {}) = g[{}]
  BY <1>2, MessageFold!FoldUnfolds
<1>4. g[{}] = MessageFold!Step(<<>>, r, g, {})
  BY <1>3 DEF MessageFold!Folds
<1> QED BY <1>1, <1>3, <1>4 DEF MessageFold!Step

LEMMA OneMoreMessage ==
  ASSUME NEW S, NEW s \in Seq(S), NEW m, NEW r
  PROVE  Applied(r, Append(s, m)) = ApplyMessage(Applied(r, s), m)
<1> DEFINE n == Len(s)
           t == Append(s, m)
<1>1. /\ DOMAIN t = 1 .. (n + 1) /\ DOMAIN s = 1 .. n /\ n \in Nat
      /\ \A i \in 1 .. n : t[i] = s[i]
      /\ t[n + 1] = m
  BY AppendParts
<1>2. /\ Applied(r, t) = MessageFold!Fold(t, r, 1 .. (n + 1))
      /\ Applied(r, s) = MessageFold!Fold(s, r, 1 .. n)
  BY <1>1, MessagesAreFold
<1>3. \A a : MessageOp(t, a, n + 1) = ApplyMessage(a, m)
  BY <1>1 DEF MessageOp
<1>4. \A i \in 1 .. n : \A a : MessageOp(t, a, i) = MessageOp(s, a, i)
  BY <1>1 DEF MessageOp
<1> HIDE DEF n, t
<1>5. MessageFold!Inductive(1 .. (n + 1)) /\ MessageFold!Inductive(1 .. n)
  <2>1. IsFiniteSet(1 .. (n + 1)) /\ IsFiniteSet(1 .. n)
    BY <1>1, LastOfRange
  <2>2. MessageFold!Inductive(1 .. (n + 1))
    BY <2>1, FiniteInductive DEF MessageFold!Inductive
  <2>3. MessageFold!Inductive(1 .. n)
    BY <2>1, FiniteInductive DEF MessageFold!Inductive
  <2> QED BY <2>2, <2>3
<1>6. MessageFold!Fold(t, r, 1 .. (n + 1)) = MessageOp(t, MessageFold!Fold(t, r, 1 .. n), n + 1)
  <2> DEFINE D == 1 .. (n + 1)
  <2>1. D \ {PickLast(D)} = 1 .. n /\ PickLast(D) = n + 1 /\ D # {}
    <3>1. PickLast(1 .. (n + 1)) = n + 1 /\ (1 .. (n + 1)) \ {n + 1} = 1 .. n
      BY <1>1, LastOfRange
    <3>2. n + 1 \in 1 .. (n + 1)
      BY <1>1
    <3> QED BY <3>1, <3>2
  <2>2. \A k \in SUBSET D : k # {} => PickLast(k) \in k
    BY <1>1, LastOfRange
  <2>3. MessageFold!Inductive(D) /\ MessageFold!Inductive(D \ {PickLast(D)})
    BY <1>5, <2>1
  <2> HIDE DEF D
  <2>4. MessageFold!Fold(t, r, D) = MessageOp(t, MessageFold!Fold(t, r, D \ {PickLast(D)}), PickLast(D))
    BY <2>1, <2>2, <2>3, MessageFold!FoldStep
  <2> QED BY <2>1, <2>4 DEF D
<1>7. MessageFold!Fold(t, r, 1 .. n) = MessageFold!Fold(s, r, 1 .. n)
  <2> DEFINE D == 1 .. n
  <2>1. \A k \in SUBSET D : k # {} => PickLast(k) \in k
    BY <1>1, LastOfRange
  <2>2. MessageFold!Inductive(D) /\ \A i \in D : \A a : MessageOp(t, a, i) = MessageOp(s, a, i)
    BY <1>4, <1>5
  <2> HIDE DEF D
  <2>3. MessageFold!Fold(t, r, D) = MessageFold!Fold(s, r, D)
    BY <2>1, <2>2, MessageFold!FoldSame
  <2> QED BY <2>3 DEF D
<1> QED BY <1>2, <1>3, <1>6, <1>7 DEF t

-----------------------------------------------------------------------------
(* The invariant, part one: the thread of a run and the modal. *)

Statuses == {"cancelled", "needs privileges", "failed", "removed", "refused"}
Errors == {"none", "not found", "denied", "failed", "cancelled"}
Obstacles == {"none", "denied", "failed", "unlistable"}
Kinds == {"delete", "clean"}

Paths == Entry \cup ToSet(Images) \cup {NoPath}
Candidates ==
  [id : Nat, category : {k.category : k \in Target}, what : Way, path : Paths, size : Nat,
   protected : BOOLEAN, selected : BOOLEAN, node : BOOLEAN]
DeletionItems == [what : {"path"}, path : Entry, size : Nat, node : Nat, id : {0}]
Items == Candidates \cup DeletionItems
OutcomeRecords ==
  [item : Items, status : Statuses, entries : Nat, bytes : Nat, reclaimed : Nat]
Messages ==
  {ItemStarted} \cup [type : {"progress"}, entries : Nat, bytes : Nat]
    \cup [type : {"finished"}, outcome : OutcomeRecords]
    \cup [type : {"report"}, outcomes : Seq(OutcomeRecords)]

JobFields ==
  {"whole", "todo", "stack", "files", "since", "first", "failed", "at", "entries", "bytes"}
IsJob(j) ==
  /\ DOMAIN j = JobFields
  /\ j.at \in {"next", "walk", "result", "done"} /\ j.first \in Errors
  /\ j.entries \in Nat /\ j.bytes \in Nat

IsWorker(w) ==
  /\ DOMAIN w = {"at", "kind", "mode", "plan", "outcomes", "job"} /\ w.at = "item"
  /\ w.kind \in Kinds /\ w.plan \in Seq(Items) /\ w.outcomes \in Seq(OutcomeRecords)
  /\ w.job = NoJob \/ IsJob(w.job)
  /\ Len(w.outcomes) <= Len(w.plan) /\ (w.job # NoJob => Len(w.outcomes) < Len(w.plan))

RunRecords ==
  [kind : Kinds, total : Nat, finishedCount : Nat, current : BOOLEAN, entries : Nat,
   bytes : Nat, finishedEntries : Nat, finishedBytes : Nat, recent : Seq(Statuses),
   finished : BOOLEAN, report : Seq(OutcomeRecords)]
IsRun(r) ==
  /\ r \in RunRecords
  /\ r.finishedCount <= r.total /\ Len(r.recent) <= RecentCapacity

(* The run as it will be when the messages under way have arrived. *)
Caught == Applied(run, channel)

(* What the observer has counted of the item in hand. *)
InHand(w) == IF w.job = NoJob THEN 0 ELSE w.job.entries
Removed(w) == SumOf(w.outcomes, "entries") + InHand(w)

(* The messages of the thread w lead to what it has done. *)
UnderWay(r, w) ==
  /\ ~r.finished /\ r.kind = w.kind /\ r.total = Len(w.plan)
  /\ r.finishedCount = Len(w.outcomes)
  /\ r.finishedEntries = SumOf(w.outcomes, "entries")
  /\ r.finishedBytes = SumOf(w.outcomes, "reclaimed")
  /\ r.entries <= InHand(w) /\ (w.job = NoJob => r.bytes = 0)

Untouched(outcomes) ==
  \A i, j \in DOMAIN outcomes : i < j /\ outcomes[i].status = "cancelled" =>
    outcomes[j].status = "cancelled" /\ outcomes[j].entries = 0

(* Once an item was cancelled, the request stands and no item is in hand. *)
Stopped(w, flag) ==
  /\ Untouched(w.outcomes)
  /\ (\E i \in DOMAIN w.outcomes : w.outcomes[i].status = "cancelled") => flag /\ w.job = NoJob
  /\ w.job # NoJob /\ w.job.first = "cancelled" => flag

Concluded(r) ==
  /\ r.finished /\ r.finishedCount = r.total /\ Len(r.report) = r.total
  /\ r.finishedEntries = SumOf(r.report, "entries") /\ r.entries = 0
  /\ r.finishedBytes = SumOf(r.report, "reclaimed") /\ r.bytes = 0
  /\ Untouched(r.report)

DiskInv ==
  /\ disk \subseteq Entry /\ before \subseteq Entry /\ disk \subseteq before /\ disk \cap lost = {}
  /\ obstacles \in [Entry -> Obstacles] /\ cancel \in BOOLEAN /\ scenario \in Scenarios

LinkInv ==
  /\ channel \in Seq(Messages)
  /\ worker = NoWorker \/ IsWorker(worker)
  /\ run = NoRun => worker = NoWorker /\ channel = <<>>
  /\ run # NoRun => IsRun(run) /\ IsRun(Caught) /\ Caught.kind = run.kind
  /\ run # NoRun /\ run.finished => worker = NoWorker /\ channel = <<>>
  /\ run # NoRun /\ worker = NoWorker => Concluded(Caught)
  /\ worker # NoWorker =>
       /\ UnderWay(Caught, worker) /\ Stopped(worker, cancel)
       /\ run.finishedEntries + run.entries <= Removed(worker)
       /\ worker.mode = IF worker.kind = "delete" THEN scenario.mode ELSE "permanent"

(* The entries that are gone are those that were counted. *)
CountInv ==
  run # NoRun /\ (scenario.mode = "permanent" \/ run.kind = "clean") =>
    Cardinality(before \ (disk \cup lost))
      = IF worker = NoWorker THEN SumOf(Caught.report, "entries") ELSE Removed(worker)

-----------------------------------------------------------------------------
(* The invariant, part two: the list of targets. *)

Tasks == [search : Nat, place : Place, origin : Place, depth : Nat]
Activities ==
  {AtRest} \cup [at : {"read"}, task : Tasks] \cup [at : {"push"}, tasks : SUBSET Tasks]
Reports == [search : Nat, found : Seq(Place), spawned : Nat]
SearchRecords == [found : Seq(Place), consumed : Nat, outstanding : Nat, finished : BOOLEAN]

IsSearches(s) ==
  /\ DOMAIN s = {"known", "next", "tasks"}
  /\ s.next \in Nat /\ s.tasks \subseteq Tasks
  /\ \A q \in DOMAIN s.known : s.known[q] \in SearchRecords

IsRoots(roots) ==
  \A p \in DOMAIN roots : p \in Entry /\ roots[p] \in [counted : SUBSET Entry, busy : BOOLEAN]

(* What must never be selected, as long as the rules stay. *)
Shielded == "rules" \notin scenario.may
Guarded(x) ==
  \/ x.node /\ Protects(scenario.protected, x.path)
  \/ x.path \in ToSet(Images) /\ x.path \in scenario.protected
  \/ Cardinality(scenario.used) = 1 /\ x.path \in UNION scenario.used

(* One target, in the list c. *)
InList(c, x) ==
  /\ x.id < c.next
  /\ x.path \in Entry => x.path \in c.known
  /\ x.path \in ToSet(Images) => c.docker = "available"
  /\ x.what # "external" => x.path \in Entry
  /\ x.node => x.path \in Entry
  /\ x.selected => ~x.protected
  /\ Shielded /\ Guarded(x) => x.protected

(* Two targets of a list. *)
Apart(x, y) == (x.id = y.id => x = y) /\ (x.path # NoPath /\ x.path = y.path => x = y)

IsList(c) ==
  /\ DOMAIN c = {"candidates", "next", "known", "search", "docker"}
  /\ c.candidates \in Seq(Candidates) /\ Distinct(c.candidates)
  /\ c.next \in Nat \ {0} /\ c.known \subseteq Entry
  /\ \A x \in Elements(c.candidates) : InList(c, x)
  /\ \A x, y \in Elements(c.candidates) : Apart(x, y)

IsState(s) ==
  /\ DOMAIN s = {"cleaner", "roots", "rules", "searches", "enabled"}
  /\ IsList(s.cleaner) /\ IsRoots(s.roots) /\ IsSearches(s.searches)
  /\ s.cleaner.search \in DOMAIN s.searches.known \cup {NoSearch}
  /\ Shielded => s.rules = scenario.protected

ListInv ==
  /\ DOMAIN list = {"cleaner", "roots", "rules"}
  /\ IsState(State)
  /\ finds \in Seq(Reports) /\ scout \in [Scout -> Activities]
  /\ inventory.status \in {"pending", "unavailable", "available"}
  /\ inventory.status = "available" => inventory.used \in scenario.used

-----------------------------------------------------------------------------
(* The invariant, part three: plans, reports, their numbers, and the tree. *)

OverlayInv == overlay.type = "confirm" => overlay.plan \in Seq(Items)
ForegroundInv == foreground # NoAction => foreground.plan \in Seq(Items)

(* The number of an item stands for its target or for none. *)
Names(c, item) ==
  item.id < c.next /\ \A x \in Elements(c.candidates) : x.id = item.id => x.path = item.path

ReportedItems == IF worker = NoWorker THEN ItemsOf(Caught.report) ELSE worker.plan

NumbersInv ==
  /\ run # NoRun /\ run.kind = "clean" =>
       \A item \in Elements(ReportedItems) : Names(list.cleaner, item)
  /\ worker # NoWorker =>
       \A o \in Elements(worker.outcomes) : o.item \in Elements(worker.plan)
  /\ overlay.type = "confirm" /\ overlay.action \in {"clean", "elevate clean"} =>
       \A item \in Elements(overlay.plan) : Names(list.cleaner, item)

IsNodes(T) == DOMAIN T \subseteq Directory /\ \A d \in DOMAIN T : T[d] \in [node : Nat, total : Nat]
IsReading(r) ==
  DOMAIN r \subseteq Directory /\ \A d \in DOMAIN r : r[d] # Unread => r[d] \subseteq Entry
IsMarks(m) == DOMAIN m \subseteq Entry /\ \A e \in DOMAIN m : m[e] \in [size : Nat, node : Nat]
TreeInv ==
  IsNodes(tree) /\ made \in Nat /\ IsReading(rescans) /\ IsMarks(marks) /\ counted \subseteq Entry

OperationsInv ==
  /\ DiskInv /\ LinkInv /\ CountInv /\ ListInv /\ OverlayInv /\ ForegroundInv
  /\ NumbersInv /\ TreeInv

-----------------------------------------------------------------------------
(* The remover: one step of a job removes no more than one entry, counts   *)
(* it, and ends as cancelled only when that was requested.                 *)

StepOK(j, step) ==
  /\ IsJob(step[1]) /\ step[2] \subseteq disk
  /\ \/ step[2] = {} /\ step[1].entries = j.entries
     \/ \E e : step[2] = {e} /\ step[1].entries = j.entries + 1
  /\ step[1].first = "cancelled" => cancel \/ j.first = "cancelled"

LEMMA JobTypes ==
  ASSUME NEW j, IsJob(j)
  PROVE  /\ j.at \in {"next", "walk", "result", "done"} /\ j.first \in Errors
         /\ j.entries \in Nat /\ j.bytes \in Nat /\ j # NoJob
BY DEF IsJob, JobFields, NoJob

LEMMA JobEnded ==
  ASSUME NEW j, IsJob(j), NEW err \in Errors
  PROVE  /\ IsJob(Ended(j, err)) /\ Ended(j, err).entries = j.entries
         /\ Ended(j, err).first = err /\ Ended(j, err).at = "done"
BY DEF IsJob, JobFields, Ended

LEMMA JobNoted ==
  ASSUME NEW j, IsJob(j), NEW err \in Errors \ {"cancelled"}
  PROVE  /\ IsJob(Noted(j, err)) /\ Noted(j, err).entries = j.entries
         /\ (Noted(j, err).first = "cancelled" => j.first = "cancelled")
         /\ Noted(j, err).at = j.at
BY DEF IsJob, JobFields, Noted, Errors

LEMMA JobGone ==
  ASSUME NEW j, IsJob(j), NEW e, NEW b \in Nat
  PROVE  /\ IsJob(Gone(j, e, b)) /\ Gone(j, e, b).entries = j.entries + 1
         /\ Gone(j, e, b).first = j.first
BY DEF IsJob, JobFields, Gone

LEMMA UnlinkErrors ==
  ASSUME DiskInv, NEW e
  PROVE  /\ UnlinkError(e) \in Errors \ {"cancelled"}
         /\ UnlinkError(e) = "none" => e \in disk /\ e \in Entry /\ Weight[e] \in Nat
<1>1. e \in disk => e \in Entry /\ obstacles[e] \in Obstacles /\ Weight[e] \in Nat
  BY RemovalAssumption DEF DiskInv
<1> QED BY <1>1 DEF UnlinkError, Errors, Obstacles

LEMMA StepKeeps ==
  ASSUME NEW j, NEW k, IsJob(k), k.entries = j.entries,
         k.first = "cancelled" => cancel \/ j.first = "cancelled"
  PROVE  StepOK(j, <<k, {}>>)
BY DEF StepOK

LEMMA StepRemoves ==
  ASSUME NEW j, NEW k, NEW e \in disk, IsJob(k), k.entries = j.entries + 1,
         k.first = "cancelled" => cancel \/ j.first = "cancelled"
  PROVE  StepOK(j, <<k, {e}>>)
BY DEF StepOK

LEMMA StartPathOK ==
  ASSUME DiskInv, NEW j, IsJob(j)
  PROVE  StepOK(j, StartPath(j))
<1> DEFINE e == Head(j.todo)
           n == [j EXCEPT !.todo = Tail(@), !.since = 0, !.first = "none"]
<1>1. IsJob(n) /\ n.entries = j.entries /\ n.first = "none"
  BY DEF IsJob, JobFields, Errors
<1> HIDE DEF n
<1>2. UnlinkError(e) \in Errors \ {"cancelled"} /\ (UnlinkError(e) = "none" => e \in disk /\ Weight[e] \in Nat)
  BY UnlinkErrors
<1> HIDE DEF e
<1>3. CASE ~j.whole /\ cancel
  <2>1. StartPath(j) = <<Ended(j, "cancelled"), {}>>
    BY <1>3 DEF StartPath
  <2>2. "cancelled" \in Errors
    BY DEF Errors
  <2> QED BY <1>3, <2>1, <2>2, JobEnded DEF StepOK
<1>4. CASE ~(~j.whole /\ cancel) /\ e \notin disk
  <2>1. StartPath(j) = <<[n EXCEPT !.at = "result", !.first = "not found"], {}>>
    BY <1>4 DEF StartPath, e, n
  <2> DEFINE k == [n EXCEPT !.at = "result", !.first = "not found"]
  <2>2. IsJob(k) /\ k.entries = j.entries /\ k.first = "not found"
    BY <1>1 DEF IsJob, JobFields, Errors
  <2> HIDE DEF k
  <2>3. StepOK(j, <<k, {}>>)
    BY <2>2, StepKeeps
  <2> QED BY <2>1, <2>3 DEF k
<1>5. CASE ~(~j.whole /\ cancel) /\ e \in disk /\ e \in Directory
  <2>1. StartPath(j) = <<[n EXCEPT !.at = "walk", !.stack = <<[dir |-> e, done |-> FALSE]>>], {}>>
    BY <1>5 DEF StartPath, e, n
  <2> DEFINE k == [n EXCEPT !.at = "walk", !.stack = <<[dir |-> e, done |-> FALSE]>>]
  <2>2. IsJob(k) /\ k.entries = j.entries /\ k.first = "none"
    BY <1>1 DEF IsJob, JobFields, Errors
  <2> HIDE DEF k
  <2>3. StepOK(j, <<k, {}>>)
    BY <2>2, StepKeeps
  <2> QED BY <2>1, <2>3 DEF k
<1>6. CASE ~(~j.whole /\ cancel) /\ e \in disk /\ e \notin Directory /\ UnlinkError(e) # "none"
  <2>1. StartPath(j) = <<[n EXCEPT !.at = "result", !.first = UnlinkError(e)], {}>>
    BY <1>6 DEF StartPath, e, n
  <2> DEFINE k == [n EXCEPT !.at = "result", !.first = UnlinkError(e)]
  <2>2. IsJob(k) /\ k.entries = j.entries /\ k.first # "cancelled"
    <3> DEFINE err == UnlinkError(e)
    <3>1. err \in Errors /\ err # "cancelled"
      BY <1>2
    <3> HIDE DEF err
    <3>2. k = [n EXCEPT !.at = "result", !.first = err]
      BY DEF err
    <3> HIDE DEF k
    <3> QED BY <1>1, <3>1, <3>2 DEF IsJob, JobFields
  <2> HIDE DEF k
  <2>3. StepOK(j, <<k, {}>>)
    BY <2>2, StepKeeps
  <2> QED BY <2>1, <2>3 DEF k
<1>7. CASE ~(~j.whole /\ cancel) /\ e \in disk /\ e \notin Directory /\ UnlinkError(e) = "none"
  <2>1. StartPath(j) = <<[Gone(n, e, Weight[e]) EXCEPT !.at = "result"], {e}>>
    BY <1>7 DEF StartPath, e, n
  <2>2. IsJob(Gone(n, e, Weight[e])) /\ Gone(n, e, Weight[e]).entries = j.entries + 1
          /\ Gone(n, e, Weight[e]).first = "none"
    BY <1>1, <1>2, <1>7, JobGone
  <2> QED BY <1>2, <1>7, <2>1, <2>2 DEF StepOK, IsJob, JobFields
<1> QED BY <1>3, <1>4, <1>5, <1>6, <1>7

LEMMA RemoveDirectoryOK ==
  ASSUME DiskInv, NEW j, IsJob(j)
  PROVE  StepOK(j, RemoveDirectory(j))
<1> DEFINE e == j.stack[Len(j.stack)].dir
           n == [j EXCEPT !.stack = Front(@)]
           err == UnlinkError(e)
<1>1. IsJob(n) /\ n.entries = j.entries /\ n.first = j.first
  BY DEF IsJob, JobFields, Errors
<1>2. err \in Errors \ {"cancelled"} /\ (err = "none" => e \in disk)
  BY UnlinkErrors
<1>3. RemoveDirectory(j) = IF err = "none" THEN <<Gone(n, e, 0), {e}>>
                           ELSE IF err = "not found" THEN <<n, {}>> ELSE <<Noted(n, err), {}>>
  BY DEF RemoveDirectory
<1> HIDE DEF e, n, err
<1>4. IsJob(Gone(n, e, 0)) /\ Gone(n, e, 0).entries = j.entries + 1 /\ Gone(n, e, 0).first = j.first
  BY <1>1, JobGone
<1>5. /\ IsJob(Noted(n, err)) /\ Noted(n, err).entries = j.entries
      /\ (Noted(n, err).first = "cancelled" => j.first = "cancelled")
  BY <1>1, <1>2, JobNoted
<1>6. CASE err = "none"
  <2>1. StepOK(j, <<Gone(n, e, 0), {e}>>)
    BY <1>2, <1>4, <1>6, StepRemoves
  <2> QED BY <1>3, <1>6, <2>1
<1>7. CASE err = "not found"
  <2>1. StepOK(j, <<n, {}>>)
    BY <1>1, StepKeeps
  <2> QED BY <1>3, <1>7, <2>1
<1>8. CASE err \notin {"none", "not found"}
  <2>1. StepOK(j, <<Noted(n, err), {}>>)
    BY <1>5, StepKeeps
  <2> QED BY <1>3, <1>8, <2>1
<1> QED BY <1>6, <1>7, <1>8

LEMMA VisitDirectoryOK ==
  ASSUME DiskInv, NEW j, IsJob(j)
  PROVE  StepOK(j, VisitDirectory(j))
<1> DEFINE e == j.stack[Len(j.stack)].dir
           rest == Front(j.stack)
           subdirs == Retain(ReadDir(e), Directory)
           n == [j EXCEPT !.stack = rest]
           v == [j EXCEPT !.stack = Append(rest, [dir |-> e, done |-> TRUE])
                                   \o [i \in DOMAIN subdirs |-> [dir |-> subdirs[i], done |-> FALSE]],
                          !.files = Retain(ReadDir(e), Entry \ Directory)]
<1>1. IsJob(n) /\ n.entries = j.entries /\ n.first = j.first
  <2> HIDE DEF rest
  <2> QED BY DEF IsJob, JobFields, Errors
<1>2. IsJob(v) /\ v.entries = j.entries /\ v.first = j.first
  <2> DEFINE s == Append(rest, [dir |-> e, done |-> TRUE])
                    \o [i \in DOMAIN subdirs |-> [dir |-> subdirs[i], done |-> FALSE]]
             f == Retain(ReadDir(e), Entry \ Directory)
  <2>1. v = [j EXCEPT !.stack = s, !.files = f]
    OBVIOUS
  <2> HIDE DEF s, f, v
  <2> QED BY <2>1 DEF IsJob, JobFields, Errors
<1>3. VisitDirectory(j) = IF cancel THEN <<Ended(j, "cancelled"), {}>>
                          ELSE IF e \notin disk THEN <<Noted(n, "not found"), {}>>
                          ELSE IF obstacles[e] = "unlistable" THEN <<Noted(n, "denied"), {}>>
                          ELSE <<v, {}>>
  BY DEF VisitDirectory
<1> HIDE DEF e, n, v
<1>4. "cancelled" \in Errors /\ "not found" \in Errors \ {"cancelled"} /\ "denied" \in Errors \ {"cancelled"}
  BY DEF Errors
<1>5. /\ IsJob(Noted(n, "not found")) /\ Noted(n, "not found").entries = j.entries
      /\ (Noted(n, "not found").first = "cancelled" => j.first = "cancelled")
  BY <1>1, <1>4, JobNoted
<1>6. /\ IsJob(Noted(n, "denied")) /\ Noted(n, "denied").entries = j.entries
      /\ (Noted(n, "denied").first = "cancelled" => j.first = "cancelled")
  BY <1>1, <1>4, JobNoted
<1>7. IsJob(Ended(j, "cancelled")) /\ Ended(j, "cancelled").entries = j.entries
  BY <1>4, JobEnded
<1>8. StepOK(j, <<Noted(n, "not found"), {}>>)
  BY <1>5, StepKeeps
<1>9. StepOK(j, <<Noted(n, "denied"), {}>>)
  BY <1>6, StepKeeps
<1>10. cancel => StepOK(j, <<Ended(j, "cancelled"), {}>>)
  BY <1>7, StepKeeps
<1>11. StepOK(j, <<v, {}>>)
  BY <1>2, StepKeeps
<1> QED BY <1>3, <1>8, <1>9, <1>10, <1>11

LEMMA RemoveFileOK ==
  ASSUME DiskInv, NEW j, IsJob(j)
  PROVE  StepOK(j, RemoveFile(j))
<1> DEFINE e == Head(j.files)
           err == UnlinkError(e)
           n == [j EXCEPT !.files = Tail(@), !.since = (@ + 1) % CancelEvery]
           m == IF err = "none" THEN Gone(n, e, Weight[e])
                ELSE IF err = "not found" THEN n ELSE Noted(n, err)
<1>1. IsJob(n) /\ n.entries = j.entries /\ n.first = j.first
  BY DEF IsJob, JobFields, Errors
<1>2. err \in Errors \ {"cancelled"} /\ (err = "none" => e \in disk /\ Weight[e] \in Nat)
  BY UnlinkErrors
<1>3. RemoveFile(j) = <<IF m.since = 0 /\ cancel THEN Ended(m, "cancelled") ELSE m,
                        IF err = "none" THEN {e} ELSE {}>>
  BY DEF RemoveFile
<1>4. /\ IsJob(m) /\ (m.first = "cancelled" => j.first = "cancelled")
      /\ m.entries = IF err = "none" THEN j.entries + 1 ELSE j.entries
  <2> HIDE DEF e, n, err
  <2>1. CASE err = "none"
    BY <1>1, <1>2, <2>1, JobGone
  <2>2. CASE err # "none"
    BY <1>1, <1>2, <2>2, JobNoted
  <2> QED BY <2>1, <2>2
<1> HIDE DEF e, n, err, m
<1>5. IsJob(Ended(m, "cancelled")) /\ Ended(m, "cancelled").entries = m.entries
  BY <1>4, JobEnded DEF Errors
<1> QED BY <1>2, <1>3, <1>4, <1>5 DEF StepOK

LEMMA RemoverStepOK ==
  ASSUME DiskInv, NEW j, IsJob(j), j.at # "done"
  PROVE  StepOK(j, RemoverStep(j))
<1>1. "none" \in Errors /\ j.first \in Errors
  BY DEF Errors, IsJob
<1>2. StepOK(j, <<Ended(j, "none"), {}>>)
  BY <1>1, JobEnded DEF StepOK
<1>3. StepOK(j, PathResult(j))
  <2>1. StepOK(j, <<Ended(j, j.first), {}>>)
    BY <1>1, JobEnded DEF StepOK
  <2> DEFINE f == IF j.first \in {"none", "not found"} THEN j.failed ELSE j.failed \cup {j.first}
  <2>2. StepOK(j, <<[j EXCEPT !.at = "next", !.failed = f], {}>>)
    <3> HIDE DEF f
    <3> QED BY DEF StepOK, IsJob, JobFields
  <2> QED BY <2>1, <2>2 DEF PathResult
<1>4. StepOK(j, <<[j EXCEPT !.at = "result"], {}>>)
  BY DEF StepOK, IsJob, JobFields
<1> QED BY <1>2, <1>3, <1>4, StartPathOK, RemoveFileOK, RemoveDirectoryOK, VisitDirectoryOK
        DEF RemoverStep

-----------------------------------------------------------------------------
(* The modal: what each message makes of it. *)

LEMMA RecentType ==
  ASSUME NEW recent \in Seq(Statuses), Len(recent) <= RecentCapacity, NEW status \in Statuses
  PROVE  PushRecent(recent, status) \in Seq(Statuses) /\ Len(PushRecent(recent, status)) <= RecentCapacity
<1> DEFINE all == Append(recent, status)
<1>1. all \in Seq(Statuses) /\ Len(all) = Len(recent) + 1 /\ Len(recent) \in Nat
  BY AppendParts
<1>2. RecentCapacity \in Nat
  BY OperationsAssumption
<1>3. CASE Len(all) > RecentCapacity
  <2>1. all # <<>>
    BY <1>1
  <2>2. Tail(all) \in Seq(Statuses) /\ Len(Tail(all)) = Len(all) - 1
    <3> HIDE DEF all
    <3> QED BY <1>1, <2>1
  <2> QED BY <1>1, <1>2, <1>3, <2>2 DEF PushRecent
<1>4. CASE ~(Len(all) > RecentCapacity)
  BY <1>1, <1>2, <1>4 DEF PushRecent
<1> QED BY <1>3, <1>4

LEMMA CountersReset ==
  ASSUME NEW r \in RunRecords
  PROVE  [r EXCEPT !.entries = 0, !.bytes = 0] \in RunRecords
<1>1. PICK z \in Nat : z = 0
  OBVIOUS
<1>2. [r EXCEPT !.entries = z, !.bytes = z] \in RunRecords
  BY DEF RunRecords
<1> QED BY <1>1, <1>2

LEMMA StartedArrives ==
  ASSUME NEW r, IsRun(r), NEW d, d = ApplyMessage(r, ItemStarted)
  PROVE  /\ IsRun(d) /\ d.entries = 0 /\ d.bytes = 0
         /\ d.kind = r.kind /\ d.total = r.total /\ d.finishedCount = r.finishedCount
         /\ d.finishedEntries = r.finishedEntries /\ d.finishedBytes = r.finishedBytes
         /\ d.finished = r.finished
<1>1. d = [r EXCEPT !.current = TRUE, !.entries = 0, !.bytes = 0]
  BY DEF ApplyMessage, ItemStarted
<1>2. r \in RunRecords /\ r.finishedCount <= r.total /\ Len(r.recent) <= RecentCapacity
  BY DEF IsRun
<1>3. d \in RunRecords
  <2>1. [r EXCEPT !.current = TRUE] \in RunRecords
    BY <1>2 DEF RunRecords
  <2>2. d = [[r EXCEPT !.current = TRUE] EXCEPT !.entries = 0, !.bytes = 0]
    BY <1>1
  <2> QED BY <2>1, <2>2, CountersReset
<1>4. d.finishedCount = r.finishedCount /\ d.total = r.total /\ d.recent = r.recent
  BY <1>1, <1>2 DEF RunRecords
<1> QED BY <1>1, <1>2, <1>3, <1>4 DEF IsRun, RunRecords

LEMMA ProgressArrives ==
  ASSUME NEW r, IsRun(r), NEW j, IsJob(j), NEW d, d = ApplyMessage(r, ItemProgress(j))
  PROVE  /\ IsRun(d) /\ d.entries = j.entries
         /\ d.kind = r.kind /\ d.total = r.total /\ d.finishedCount = r.finishedCount
         /\ d.finishedEntries = r.finishedEntries /\ d.finishedBytes = r.finishedBytes
         /\ d.finished = r.finished
<1>1. d = [r EXCEPT !.entries = j.entries, !.bytes = j.bytes]
  BY DEF ApplyMessage, ItemProgress
<1>2. j.entries \in Nat /\ j.bytes \in Nat
  BY JobTypes
<1>3. r \in RunRecords /\ r.finishedCount <= r.total /\ Len(r.recent) <= RecentCapacity
  BY DEF IsRun
<1>4. d \in RunRecords
  BY <1>1, <1>2, <1>3 DEF RunRecords
<1>5. d.finishedCount = r.finishedCount /\ d.total = r.total /\ d.recent = r.recent
  BY <1>1, <1>3 DEF RunRecords
<1> QED BY <1>1, <1>3, <1>4, <1>5 DEF IsRun, RunRecords

LEMMA FinishedArrives ==
  ASSUME NEW r, IsRun(r), NEW o \in OutcomeRecords, NEW d, d = ApplyMessage(r, ItemFinished(o)),
         r.finishedCount < r.total
  PROVE  /\ IsRun(d) /\ d.entries = 0 /\ d.bytes = 0
         /\ d.kind = r.kind /\ d.total = r.total /\ d.finishedCount = r.finishedCount + 1
         /\ d.finishedEntries = r.finishedEntries + o.entries
         /\ d.finishedBytes = r.finishedBytes + o.reclaimed
         /\ d.finished = r.finished
<1> DEFINE recent == PushRecent(r.recent, o.status)
<1>1. d = [r EXCEPT !.finishedCount = r.finishedCount + 1,
                    !.finishedEntries = r.finishedEntries + o.entries,
                    !.finishedBytes = r.finishedBytes + o.reclaimed,
                    !.recent = recent, !.current = FALSE, !.entries = 0, !.bytes = 0]
  BY DEF ApplyMessage, ItemFinished, FinishCurrent, IsRun, RunRecords
<1>2. recent \in Seq(Statuses) /\ Len(recent) <= RecentCapacity
  <2>1. r.recent \in Seq(Statuses) /\ Len(r.recent) <= RecentCapacity /\ o.status \in Statuses
    BY DEF IsRun, RunRecords, OutcomeRecords
  <2> QED BY <2>1, RecentType
<1>3. o.entries \in Nat /\ o.reclaimed \in Nat
  BY DEF OutcomeRecords
<1> HIDE DEF recent
<1>4. r \in RunRecords /\ r.finishedCount <= r.total
  BY DEF IsRun
<1>5. d \in RunRecords
  <2>0. r.finishedCount \in Nat /\ r.finishedEntries \in Nat /\ r.finishedBytes \in Nat
    BY ZenonT(30), <1>4 DEF RunRecords
  <2>1. r.finishedCount + 1 \in Nat /\ r.finishedEntries + o.entries \in Nat
          /\ r.finishedBytes + o.reclaimed \in Nat
    BY ONLY <1>3, <2>0
  <2> DEFINE a == [r EXCEPT !.finishedCount = r.finishedCount + 1,
                           !.finishedEntries = r.finishedEntries + o.entries]
             b == [a EXCEPT !.finishedBytes = r.finishedBytes + o.reclaimed, !.recent = recent]
             c == [b EXCEPT !.current = FALSE]
  <2>2. a \in RunRecords
    BY <1>4, <2>1 DEF RunRecords
  <2>3. d = [c EXCEPT !.entries = 0, !.bytes = 0]
    BY <1>1
  <2> HIDE DEF a
  <2>4. b \in RunRecords
    BY <1>2, <2>1, <2>2 DEF RunRecords
  <2> HIDE DEF b
  <2>5. c \in RunRecords
    BY <2>4 DEF RunRecords
  <2> HIDE DEF c
  <2> QED BY <2>3, <2>5, CountersReset
<1>6. d.finishedCount = r.finishedCount + 1 /\ d.total = r.total /\ d.recent = recent
  BY <1>1, <1>4 DEF RunRecords
<1>7. r.finishedCount + 1 <= r.total
  BY <1>4 DEF RunRecords
<1>8. IsRun(d)
  BY <1>2, <1>5, <1>6, <1>7 DEF IsRun
<1> QED BY <1>1, <1>4, <1>8 DEF RunRecords

LEMMA ReportArrives ==
  ASSUME NEW r, IsRun(r), NEW os \in Seq(OutcomeRecords), NEW d, d = ApplyMessage(r, RunFinished(os))
  PROVE  /\ IsRun(d) /\ d.entries = r.entries /\ d.bytes = r.bytes
         /\ d.kind = r.kind /\ d.total = r.total /\ d.finishedCount = r.total
         /\ d.finishedEntries = r.finishedEntries /\ d.finishedBytes = r.finishedBytes
         /\ d.finished /\ d.report = os
<1>1. d = [r EXCEPT !.finished = TRUE, !.finishedCount = r.total, !.report = os]
  BY DEF ApplyMessage, RunFinished
<1>2. r \in RunRecords /\ Len(r.recent) <= RecentCapacity
  BY DEF IsRun
<1>3. d \in RunRecords
  BY <1>1, <1>2 DEF RunRecords
<1>4. d.finishedCount = r.total /\ d.total = r.total /\ d.recent = r.recent /\ r.total \in Nat
  BY <1>1, <1>2 DEF RunRecords
<1> QED BY <1>1, <1>2, <1>3, <1>4 DEF IsRun, RunRecords

-----------------------------------------------------------------------------
(* The thread. *)

LEMMA Catches ==
  ASSUME channel \in Seq(Messages), NEW m, channel' = Append(channel, m), run' = run
  PROVE  Caught' = ApplyMessage(Caught, m)
<1>1. Applied(run, Append(channel, m)) = ApplyMessage(Applied(run, channel), m)
  BY OneMoreMessage
<1> QED BY <1>1 DEF Caught

LEMMA MessageTypes ==
  /\ ItemStarted \in Messages
  /\ \A o \in OutcomeRecords : ItemFinished(o) \in Messages
  /\ \A os \in Seq(OutcomeRecords) : RunFinished(os) \in Messages
  /\ \A j : IsJob(j) => ItemProgress(j) \in Messages
BY JobTypes DEF Messages, ItemFinished, RunFinished, ItemProgress

LEMMA OutcomeType ==
  ASSUME NEW item \in Items, NEW status \in Statuses, NEW e \in Nat, NEW b \in Nat,
         NEW o, o = Outcome(item, status, e, b)
  PROVE  o \in OutcomeRecords /\ o.item = item /\ o.status = status /\ o.entries = e
<1>1. item.size \in Nat
  BY DEF Items, Candidates, DeletionItems
<1> QED BY <1>1 DEF Outcome, OutcomeRecords

LEMMA ItemType ==
  ASSUME IsWorker(worker), Len(worker.outcomes) < Len(worker.plan)
  PROVE  Item \in Items /\ Item \in Elements(worker.plan)
<1>1. worker.plan \in Seq(Items) /\ Len(worker.outcomes) \in Nat /\ Len(worker.plan) \in Nat
  BY DEF IsWorker
<1>2. Len(worker.outcomes) + 1 \in 1 .. Len(worker.plan)
  BY <1>1
<1>3. Len(worker.outcomes) + 1 \in DOMAIN worker.plan
  BY <1>1, <1>2
<1> QED BY <1>1, <1>2, <1>3 DEF Item, Elements

(* The messages of an end of an item: the modal follows. *)
LEMMA EndArrives ==
  ASSUME NEW r, IsRun(r), NEW o \in OutcomeRecords, r.finishedCount < r.total,
         NEW ch \in Seq(Messages), NEW base,
         r = Applied(base, ch),
         NEW d, NEW ch2,
         ch2 = Append(ch, ItemFinished(o)) \/ ch2 = Append(Append(ch, ItemStarted), ItemFinished(o)),
         d = Applied(base, ch2)
  PROVE  /\ ch2 \in Seq(Messages)
         /\ IsRun(d) /\ d.entries = 0 /\ d.bytes = 0
         /\ d.kind = r.kind /\ d.total = r.total /\ d.finishedCount = r.finishedCount + 1
         /\ d.finishedEntries = r.finishedEntries + o.entries
         /\ d.finishedBytes = r.finishedBytes + o.reclaimed
         /\ d.finished = r.finished
<1>1. ItemStarted \in Messages /\ ItemFinished(o) \in Messages
  BY MessageTypes
<1>2. PICK mid \in {ch, Append(ch, ItemStarted)} : ch2 = Append(mid, ItemFinished(o))
  OBVIOUS
<1>3. mid \in Seq(Messages)
  BY <1>1
<1> DEFINE h == Applied(base, mid)
<1>4. /\ IsRun(h) /\ h.kind = r.kind /\ h.total = r.total /\ h.finishedCount = r.finishedCount
      /\ h.finishedEntries = r.finishedEntries /\ h.finishedBytes = r.finishedBytes
      /\ h.finished = r.finished
  <2>1. CASE mid = Append(ch, ItemStarted)
    <3>1. h = ApplyMessage(r, ItemStarted)
      BY <2>1, OneMoreMessage
    <3> HIDE DEF h
    <3> QED BY <3>1, StartedArrives
  <2>2. CASE mid = ch
    BY <2>2
  <2> QED BY <1>2, <2>1, <2>2
<1>5. d = ApplyMessage(h, ItemFinished(o))
  BY <1>2, <1>3, OneMoreMessage
<1>6. ch2 \in Seq(Messages)
  BY <1>1, <1>2, <1>3
<1> HIDE DEF h
<1>7. /\ IsRun(d) /\ d.entries = 0 /\ d.bytes = 0
      /\ d.kind = h.kind /\ d.total = h.total /\ d.finishedCount = h.finishedCount + 1
      /\ d.finishedEntries = h.finishedEntries + o.entries
      /\ d.finishedBytes = h.finishedBytes + o.reclaimed
      /\ d.finished = h.finished
  BY <1>4, <1>5, FinishedArrives
<1> QED BY <1>4, <1>6, <1>7

LEMMA WorkerTypes ==
  ASSUME LinkInv, worker # NoWorker
  PROVE  /\ IsWorker(worker) /\ worker.at = "item" /\ run # NoRun /\ ~run.finished
         /\ IsRun(run) /\ IsRun(Caught)
         /\ Caught.kind = run.kind /\ UnderWay(Caught, worker) /\ Stopped(worker, cancel)
         /\ channel \in Seq(Messages)
         /\ worker.plan \in Seq(Items) /\ worker.outcomes \in Seq(OutcomeRecords)
         /\ Len(worker.outcomes) \in Nat /\ Len(worker.plan) \in Nat
         /\ SumOf(worker.outcomes, "entries") \in Nat /\ SumOf(worker.outcomes, "reclaimed") \in Nat
         /\ InHand(worker) \in Nat
         /\ run.finishedEntries + run.entries <= Removed(worker)
         /\ run.finishedEntries \in Nat /\ run.entries \in Nat
<1>1. IsWorker(worker)
  BY DEF LinkInv
<1>2. worker.outcomes \in Seq(OutcomeRecords) /\ worker.plan \in Seq(Items)
  BY <1>1 DEF IsWorker
<1>3. \A x \in OutcomeRecords : x["entries"] \in Nat /\ x["reclaimed"] \in Nat
  BY DEF OutcomeRecords
<1>4. SumOf(worker.outcomes, "entries") \in Nat
  BY <1>2, <1>3, SumOfType
<1>5. SumOf(worker.outcomes, "reclaimed") \in Nat
  BY <1>2, <1>3, SumOfType
<1>6. InHand(worker) \in Nat
  BY <1>1, JobTypes DEF InHand, IsWorker
<1>7. run # NoRun /\ IsRun(run) /\ ~run.finished
  BY DEF LinkInv
<1>8. run.finishedEntries \in Nat /\ run.entries \in Nat
  BY <1>7 DEF IsRun, RunRecords
<1>9. Len(worker.outcomes) \in Nat /\ Len(worker.plan) \in Nat /\ worker.at = "item"
  BY <1>1, <1>2 DEF IsWorker
<1> QED BY <1>1, <1>2, <1>4, <1>5, <1>6, <1>7, <1>8, <1>9 DEF LinkInv

LEMMA UntouchedAppend ==
  ASSUME NEW os \in Seq(OutcomeRecords), Untouched(os), NEW o,
         (\E i \in DOMAIN os : os[i].status = "cancelled") => o.status = "cancelled" /\ o.entries = 0
  PROVE  Untouched(Append(os, o))
<1> DEFINE n == Len(os)
           t == Append(os, o)
<1>1. /\ DOMAIN t = 1 .. (n + 1) /\ DOMAIN os = 1 .. n /\ n \in Nat
      /\ \A i \in 1 .. n : t[i] = os[i]
      /\ t[n + 1] = o
  BY AppendParts
<1> HIDE DEF n, t
<1> SUFFICES ASSUME NEW i \in 1 .. (n + 1), NEW j \in 1 .. (n + 1), i < j, t[i].status = "cancelled"
             PROVE  t[j].status = "cancelled" /\ t[j].entries = 0
  BY <1>1 DEF Untouched, t
<1>2. i \in 1 .. n /\ os[i].status = "cancelled"
  BY <1>1
<1>3. CASE j \in 1 .. n
  BY <1>1, <1>2, <1>3 DEF Untouched
<1>4. CASE j = n + 1
  BY <1>1, <1>2, <1>4
<1> QED BY <1>1, <1>3, <1>4

(* The thread concludes an item: the modal will know, and the other items  *)
(* stay as they are.                                                       *)
LEMMA EndOfItem ==
  ASSUME LinkInv, worker # NoWorker, Len(worker.outcomes) < Len(worker.plan),
         NEW o \in OutcomeRecords, NEW started \in BOOLEAN, Conclude(o, started),
         run' = run, cancel' = cancel, scenario' = scenario,
         InHand(worker) <= o.entries,
         o.status = "cancelled" => cancel,
         (\E i \in DOMAIN worker.outcomes : worker.outcomes[i].status = "cancelled")
            => o.status = "cancelled" /\ o.entries = 0
  PROVE  /\ LinkInv' /\ worker' # NoWorker
         /\ Removed(worker') = SumOf(worker.outcomes, "entries") + o.entries
<1> DEFINE os == worker.outcomes
<1>1. /\ IsWorker(worker) /\ run # NoRun /\ ~run.finished /\ IsRun(run) /\ IsRun(Caught)
      /\ Caught.kind = run.kind /\ UnderWay(Caught, worker) /\ Stopped(worker, cancel)
      /\ channel \in Seq(Messages) /\ worker.plan \in Seq(Items) /\ os \in Seq(OutcomeRecords)
      /\ Len(os) \in Nat /\ Len(worker.plan) \in Nat
      /\ SumOf(os, "entries") \in Nat /\ InHand(worker) \in Nat
      /\ run.finishedEntries + run.entries <= Removed(worker)
      /\ run.finishedEntries \in Nat /\ run.entries \in Nat
  BY WorkerTypes
<1>2. /\ worker' = [worker EXCEPT !.job = NoJob, !.outcomes = Append(os, o)]
      /\ channel' = channel \o (IF started THEN <<ItemStarted>> ELSE <<>>) \o <<ItemFinished(o)>>
  BY DEF Conclude
<1>3. /\ DOMAIN worker' = DOMAIN worker /\ worker'.at = worker.at /\ worker'.kind = worker.kind
      /\ worker'.mode = worker.mode /\ worker'.plan = worker.plan
      /\ worker'.outcomes = Append(os, o) /\ worker'.job = NoJob
  BY <1>1, <1>2 DEF IsWorker
<1>4. /\ Append(os, o) \in Seq(OutcomeRecords) /\ Len(Append(os, o)) = Len(os) + 1
      /\ SumOf(Append(os, o), "entries") = SumOf(os, "entries") + o.entries
      /\ SumOf(Append(os, o), "reclaimed") = SumOf(os, "reclaimed") + o.reclaimed
  BY <1>1, AppendParts, SumOfAppend
<1>5. IsWorker(worker') /\ worker' # NoWorker
  BY <1>1, <1>3, <1>4 DEF IsWorker, NoWorker
<1>6. /\ channel' \in Seq(Messages)
      /\ IsRun(Caught') /\ Caught'.entries = 0 /\ Caught'.bytes = 0
      /\ Caught'.kind = Caught.kind /\ Caught'.total = Caught.total
      /\ Caught'.finishedCount = Caught.finishedCount + 1
      /\ Caught'.finishedEntries = Caught.finishedEntries + o.entries
      /\ Caught'.finishedBytes = Caught.finishedBytes + o.reclaimed
      /\ Caught'.finished = Caught.finished
  <2>1. Caught.finishedCount < Caught.total
    BY <1>1 DEF UnderWay
  <2>2. Caught = Applied(run, channel) /\ Caught' = Applied(run, channel')
    BY DEF Caught
  <2>3. PICK r, d, c, c2 : r = Caught /\ d = Caught' /\ c = channel /\ c2 = channel'
    OBVIOUS
  <2>4. IsRun(r) /\ r.finishedCount < r.total /\ c \in Seq(Messages)
    BY <1>1, <2>1, <2>3
  <2>5. r = Applied(run, c) /\ d = Applied(run, c2)
    BY <2>2, <2>3
  <2>6. c2 = Append(c, ItemFinished(o)) \/ c2 = Append(Append(c, ItemStarted), ItemFinished(o))
    <3>1. ItemStarted \in Messages /\ ItemFinished(o) \in Messages
      BY MessageTypes
    <3>2. CASE started
      BY <1>2, <2>3, <2>4, <3>1, <3>2
    <3>3. CASE ~started
      BY <1>2, <2>3, <2>4, <3>1, <3>3
    <3> QED BY <3>2, <3>3
  <2>7. /\ c2 \in Seq(Messages)
        /\ IsRun(d) /\ d.entries = 0 /\ d.bytes = 0
        /\ d.kind = r.kind /\ d.total = r.total /\ d.finishedCount = r.finishedCount + 1
        /\ d.finishedEntries = r.finishedEntries + o.entries
        /\ d.finishedBytes = r.finishedBytes + o.reclaimed
        /\ d.finished = r.finished
    BY <2>4, <2>5, <2>6, EndArrives
  <2> QED BY <2>3, <2>7
<1>7. InHand(worker') = 0 /\ Removed(worker') = SumOf(os, "entries") + o.entries
  <2>1. o.entries \in Nat
    BY DEF OutcomeRecords
  <2> QED BY <1>1, <1>3, <1>4, <2>1 DEF InHand, Removed
<1>8. UnderWay(Caught', worker')
  BY <1>1, <1>3, <1>4, <1>6, <1>7 DEF UnderWay
<1>9. Stopped(worker', cancel')
  <2>1. Untouched(Append(os, o))
    BY <1>1, UntouchedAppend DEF Stopped
  <2>2. ASSUME NEW i \in DOMAIN Append(os, o), Append(os, o)[i].status = "cancelled"
        PROVE  cancel
    <3>1. /\ DOMAIN Append(os, o) = 1 .. (Len(os) + 1) /\ DOMAIN os = 1 .. Len(os)
          /\ \A k \in 1 .. Len(os) : Append(os, o)[k] = os[k]
          /\ Append(os, o)[Len(os) + 1] = o
      BY <1>1, AppendParts
    <3>2. CASE i \in 1 .. Len(os)
      <4>1. os[i].status = "cancelled" /\ i \in DOMAIN os
        BY <2>2, <3>1, <3>2
      <4> QED BY <1>1, <4>1 DEF Stopped
    <3>3. CASE i = Len(os) + 1
      BY <2>2, <3>1, <3>3
    <3>4. i \in 1 .. Len(os) \/ i = Len(os) + 1
      BY <1>1, <3>1
    <3> QED BY <3>2, <3>3, <3>4
  <2> QED BY <1>3, <2>1, <2>2 DEF Stopped
<1>10. run'.finishedEntries + run'.entries <= Removed(worker')
  <2>1. o.entries \in Nat
    BY DEF OutcomeRecords
  <2>2. Removed(worker) = SumOf(os, "entries") + InHand(worker)
    BY DEF Removed
  <2> QED BY <1>1, <1>7, <2>1, <2>2
<1>11. worker'.mode = IF worker'.kind = "delete" THEN scenario'.mode ELSE "permanent"
  BY <1>3 DEF LinkInv
<1> QED BY <1>1, <1>5, <1>6, <1>7, <1>8, <1>9, <1>10, <1>11 DEF LinkInv

RunInv == DiskInv /\ LinkInv /\ CountInv

LEMMA AtItemTypes ==
  ASSUME LinkInv, AtItem
  PROVE  /\ worker # NoWorker /\ Len(worker.outcomes) < Len(worker.plan) /\ Item \in Items
         /\ worker.job = NoJob /\ InHand(worker) = 0
<1>1. worker # NoWorker
  BY DEF AtItem, NoWorker
<1>2. IsWorker(worker)
  BY <1>1, WorkerTypes
<1> QED BY <1>1, <1>2, ItemType DEF AtItem, InHand

LEMMA CountStays ==
  ASSUME CountInv, worker # NoWorker, worker' # NoWorker, Removed(worker') = Removed(worker),
         UNCHANGED <<disk, before, lost, run, scenario>>
  PROVE  CountInv'
BY DEF CountInv

LEMMA DiskStays ==
  ASSUME DiskInv, UNCHANGED <<disk, before, lost, obstacles, cancel, scenario>>
  PROVE  DiskInv'
BY DEF DiskInv

LEMMA SkipItemKeeps ==
  ASSUME RunInv, SkipItem, UNCHANGED <<discoveryVars, uiVars, worldVars>>
  PROVE  RunInv'
<1> DEFINE o == Outcome(Item, "cancelled", 0, 0)
<1>1. DiskInv /\ LinkInv /\ CountInv /\ AtItem /\ cancel
      /\ Conclude(o, FALSE) /\ UNCHANGED <<disk, obstacles, cancel, before, lost, run, scenario>>
  BY DEF RunInv, SkipItem, uiVars, worldVars
<1>2. /\ worker # NoWorker /\ Len(worker.outcomes) < Len(worker.plan) /\ Item \in Items
      /\ InHand(worker) = 0
  BY <1>1, AtItemTypes
<1>3. o \in OutcomeRecords /\ o.status = "cancelled" /\ o.entries = 0 /\ InHand(worker) <= o.entries
  <2>1. "cancelled" \in Statuses /\ 0 \in Nat
    BY DEF Statuses
  <2>2. o \in OutcomeRecords /\ o.status = "cancelled" /\ o.entries = 0
    BY <1>2, <2>1, OutcomeType
  <2> QED BY <1>2, <2>2
<1> HIDE DEF o
<1>4. LinkInv' /\ worker' # NoWorker /\ Removed(worker') = SumOf(worker.outcomes, "entries") + o.entries
  BY <1>1, <1>2, <1>3, EndOfItem
<1>5. Removed(worker') = Removed(worker)
  BY <1>2, <1>3, <1>4 DEF Removed
<1>6. CountInv' /\ DiskInv'
  BY <1>1, <1>2, <1>4, <1>5, CountStays, DiskStays
<1> QED BY <1>4, <1>6 DEF RunInv

LEMMA NoneCancelled ==
  ASSUME LinkInv, worker # NoWorker, ~cancel
  PROVE  ~\E i \in DOMAIN worker.outcomes : worker.outcomes[i].status = "cancelled"
BY WorkerTypes DEF Stopped

LEMMA ItemNotRemoved ==
  ASSUME RunInv, AtItem, ~cancel, NEW status \in Statuses \ {"cancelled"},
         Conclude(Outcome(Item, status, 0, 0), TRUE),
         UNCHANGED <<disk, obstacles, cancel, before, lost, run, scenario>>
  PROVE  RunInv'
<1> DEFINE o == Outcome(Item, status, 0, 0)
<1>1. DiskInv /\ LinkInv /\ CountInv
  BY DEF RunInv
<1>2. /\ worker # NoWorker /\ Len(worker.outcomes) < Len(worker.plan) /\ Item \in Items
      /\ InHand(worker) = 0
  BY <1>1, AtItemTypes
<1>3. o \in OutcomeRecords /\ o.status # "cancelled" /\ o.entries = 0 /\ InHand(worker) <= o.entries
  <2>1. o \in OutcomeRecords /\ o.status # "cancelled" /\ o.entries = 0
    BY <1>2, OutcomeType
  <2> QED BY <1>2, <2>1
<1> HIDE DEF o
<1>4. ~\E i \in DOMAIN worker.outcomes : worker.outcomes[i].status = "cancelled"
  BY <1>1, <1>2, NoneCancelled
<1>5. Conclude(o, TRUE)
  BY DEF o
<1>6. LinkInv' /\ worker' # NoWorker /\ Removed(worker') = SumOf(worker.outcomes, "entries") + o.entries
  BY <1>1, <1>2, <1>3, <1>4, <1>5, EndOfItem
<1>7. Removed(worker') = Removed(worker)
  BY <1>2, <1>3, <1>6 DEF Removed
<1>8. CountInv' /\ DiskInv'
  BY <1>1, <1>2, <1>6, <1>7, CountStays, DiskStays
<1> QED BY <1>6, <1>8 DEF RunInv

LEMMA RefuseItemKeeps ==
  ASSUME RunInv, RefuseItem, UNCHANGED <<discoveryVars, uiVars, worldVars>>
  PROVE  RunInv'
<1>1. AtItem /\ ~cancel /\ Conclude(Outcome(Item, "refused", 0, 0), TRUE)
      /\ UNCHANGED <<disk, obstacles, cancel, before, lost, run, scenario>>
  BY DEF RefuseItem, uiVars, worldVars
<1>2. "refused" \in Statuses \ {"cancelled"}
  BY DEF Statuses
<1> QED BY <1>1, <1>2, ItemNotRemoved

LEMMA RunExternalKeeps ==
  ASSUME RunInv, RunExternal, UNCHANGED <<discoveryVars, uiVars, worldVars>>
  PROVE  RunInv'
<1>1. AtItem /\ ~cancel /\ UNCHANGED <<disk, obstacles, cancel, before, lost, run, scenario>>
  BY DEF RunExternal, uiVars, worldVars
<1>2. PICK status \in {"removed", "failed"} : Conclude(Outcome(Item, status, 0, 0), TRUE)
  BY DEF RunExternal
<1>3. status \in Statuses \ {"cancelled"}
  BY DEF Statuses
<1> QED BY <1>1, <1>2, <1>3, ItemNotRemoved

LEMMA TrashOutcome ==
  ASSUME NEW item \in Items, NEW o,
         \/ o = Outcome(item, "removed", 0, 0) \/ o = Outcome(item, "needs privileges", 0, 0)
         \/ o = Outcome(item, "failed", 0, 0) \/ o = Outcome(item, "removed", 1, 0)
  PROVE  o \in OutcomeRecords /\ o.status # "cancelled"
<1>1. item.size \in Nat
  BY DEF Items, Candidates, DeletionItems
<1>2. CASE o = Outcome(item, "removed", 0, 0)
  BY <1>1, <1>2 DEF Outcome, OutcomeRecords, Statuses
<1>3. CASE o = Outcome(item, "needs privileges", 0, 0)
  BY <1>1, <1>3 DEF Outcome, OutcomeRecords, Statuses
<1>4. CASE o = Outcome(item, "failed", 0, 0)
  BY <1>1, <1>4 DEF Outcome, OutcomeRecords, Statuses
<1>5. CASE o = Outcome(item, "removed", 1, 0)
  BY <1>1, <1>5 DEF Outcome, OutcomeRecords, Statuses
<1> QED BY <1>2, <1>3, <1>4, <1>5

LEMMA MoveToTrashKeeps ==
  ASSUME RunInv, MoveToTrash, UNCHANGED <<discoveryVars, uiVars, worldVars>>
  PROVE  RunInv'
<1> DEFINE e == Item.path
           o == CASE e \notin disk -> Outcome(Item, "removed", 0, 0)
                  [] e \in disk /\ obstacles[e] = "denied" -> Outcome(Item, "needs privileges", 0, 0)
                  [] e \in disk /\ obstacles[e] = "failed" -> Outcome(Item, "failed", 0, 0)
                  [] OTHER -> Outcome(Item, "removed", 1, 0)
<1>1. /\ DiskInv /\ LinkInv /\ AtItem /\ ~cancel /\ worker.mode = "trash" /\ Conclude(o, TRUE)
      /\ disk' \subseteq disk
      /\ UNCHANGED <<obstacles, cancel, before, lost, run, scenario>>
  BY DEF RunInv, MoveToTrash, uiVars, worldVars
<1>2. /\ worker # NoWorker /\ Len(worker.outcomes) < Len(worker.plan) /\ Item \in Items
      /\ InHand(worker) = 0
  BY <1>1, AtItemTypes
<1>3. o \in OutcomeRecords /\ o.status # "cancelled"
  <2>1. \/ o = Outcome(Item, "removed", 0, 0) \/ o = Outcome(Item, "needs privileges", 0, 0)
        \/ o = Outcome(Item, "failed", 0, 0) \/ o = Outcome(Item, "removed", 1, 0)
    <3> HIDE DEF e
    <3> QED BY Zenon
  <2> HIDE DEF o
  <2> QED BY <1>2, <2>1, TrashOutcome
<1> HIDE DEF o
<1>4. ~\E i \in DOMAIN worker.outcomes : worker.outcomes[i].status = "cancelled"
  BY <1>1, <1>2, NoneCancelled
<1>5. InHand(worker) <= o.entries
  BY <1>2, <1>3 DEF OutcomeRecords
<1>6. LinkInv'
  BY <1>1, <1>2, <1>3, <1>4, <1>5, EndOfItem
<1>7. scenario.mode = "trash" /\ run.kind = "delete"
  BY <1>1, <1>2, WorkerTypes DEF LinkInv, UnderWay
<1>8. CountInv'
  BY <1>1, <1>7 DEF CountInv
<1>9. DiskInv'
  BY <1>1 DEF DiskInv
<1> QED BY <1>6, <1>8, <1>9 DEF RunInv

(* The job of the item in hand goes on: its messages tell of no more than  *)
(* it has counted.                                                         *)
SameItem(d, r) ==
  /\ d.kind = r.kind /\ d.total = r.total /\ d.finishedCount = r.finishedCount
  /\ d.finishedEntries = r.finishedEntries /\ d.finishedBytes = r.finishedBytes
  /\ d.finished = r.finished

LEMMA JobOfItem ==
  ASSUME LinkInv, worker # NoWorker, Len(worker.outcomes) < Len(worker.plan),
         NEW k, IsJob(k), worker' = [worker EXCEPT !.job = k],
         run' = run, cancel' = cancel, scenario' = scenario,
         channel' \in Seq(Messages), IsRun(Caught'), SameItem(Caught', Caught),
         Caught'.entries <= k.entries, InHand(worker) <= k.entries,
         k.first = "cancelled" => cancel,
         ~\E i \in DOMAIN worker.outcomes : worker.outcomes[i].status = "cancelled"
  PROVE  /\ LinkInv' /\ worker' # NoWorker
         /\ Removed(worker') = SumOf(worker.outcomes, "entries") + k.entries
<1>1. /\ IsWorker(worker) /\ run # NoRun /\ ~run.finished /\ IsRun(run) /\ IsRun(Caught)
      /\ Caught.kind = run.kind /\ UnderWay(Caught, worker) /\ Stopped(worker, cancel)
      /\ SumOf(worker.outcomes, "entries") \in Nat /\ InHand(worker) \in Nat
      /\ run.finishedEntries + run.entries <= Removed(worker)
      /\ run.finishedEntries \in Nat /\ run.entries \in Nat
  BY WorkerTypes
<1>2. /\ DOMAIN worker' = DOMAIN worker /\ worker'.at = worker.at /\ worker'.kind = worker.kind
      /\ worker'.mode = worker.mode /\ worker'.plan = worker.plan
      /\ worker'.outcomes = worker.outcomes /\ worker'.job = k
  BY <1>1 DEF IsWorker
<1>3. k.entries \in Nat /\ k # NoJob
  BY JobTypes
<1>4. IsWorker(worker') /\ worker' # NoWorker
  BY <1>1, <1>2 DEF IsWorker, NoWorker
<1>5. InHand(worker') = k.entries /\ Removed(worker') = SumOf(worker.outcomes, "entries") + k.entries
  BY <1>2, <1>3 DEF InHand, Removed
<1>6. UnderWay(Caught', worker')
  BY <1>1, <1>2, <1>3, <1>5 DEF UnderWay, SameItem
<1>7. Stopped(worker', cancel')
  BY <1>1, <1>2 DEF Stopped
<1>8. run'.finishedEntries + run'.entries <= Removed(worker')
  BY <1>1, <1>3, <1>5 DEF Removed
<1>9. worker'.mode = IF worker'.kind = "delete" THEN scenario'.mode ELSE "permanent"
  BY <1>2 DEF LinkInv
<1> QED BY <1>1, <1>4, <1>5, <1>6, <1>7, <1>8, <1>9 DEF LinkInv, SameItem

LEMMA NewJobs ==
  ASSUME NEW todo, NEW whole
  PROVE  LET j == NewJob(whole, todo)
         IN  /\ IsJob(j) /\ j.entries = 0 /\ j.first = "none"
             /\ \A err \in Errors : Ended(j, err).entries = 0 /\ Ended(j, err).first = err
                                      /\ IsJob(Ended(j, err))
<1> DEFINE j == NewJob(whole, todo)
<1>1. IsJob(j) /\ j.entries = 0 /\ j.first = "none"
  BY DEF IsJob, JobFields, NewJob, Errors
<1> HIDE DEF j
<1>2. \A err \in Errors : IsJob(Ended(j, err)) /\ Ended(j, err).entries = 0 /\ Ended(j, err).first = err
  BY <1>1, JobEnded
<1> QED BY <1>1, <1>2 DEF j

LEMMA StartItemKeeps ==
  ASSUME RunInv, StartItem, UNCHANGED <<discoveryVars, uiVars, worldVars>>
  PROVE  RunInv'
<1> DEFINE e == Item.path
           k == IF Item.what = "path" THEN NewJob(TRUE, <<e>>)
                ELSE IF e \notin disk THEN Ended(NewJob(FALSE, <<>>), "not found")
                ELSE IF e \notin Directory THEN Ended(NewJob(FALSE, <<>>), "failed")
                ELSE IF obstacles[e] = "unlistable" THEN Ended(NewJob(FALSE, <<>>), "denied")
                ELSE NewJob(FALSE, ReadDir(e))
<1>1. /\ DiskInv /\ LinkInv /\ CountInv /\ AtItem /\ ~cancel
      /\ worker' = [worker EXCEPT !.job = k] /\ channel' = Append(channel, ItemStarted)
      /\ UNCHANGED <<disk, obstacles, cancel, before, lost, run, scenario>>
  BY DEF RunInv, StartItem, uiVars, worldVars
<1>2. /\ worker # NoWorker /\ Len(worker.outcomes) < Len(worker.plan) /\ InHand(worker) = 0
  BY <1>1, AtItemTypes
<1>3. IsJob(k) /\ k.entries = 0 /\ k.first # "cancelled"
  <2>1. "not found" \in Errors /\ "denied" \in Errors /\ "failed" \in Errors
    BY DEF Errors
  <2>2. /\ k \in {NewJob(TRUE, <<e>>), NewJob(FALSE, ReadDir(e)),
                 Ended(NewJob(FALSE, <<>>), "not found"), Ended(NewJob(FALSE, <<>>), "denied"),
                 Ended(NewJob(FALSE, <<>>), "failed")}
    <3> HIDE DEF e
    <3> QED OBVIOUS
  <2> HIDE DEF k
  <2>3. CASE k = NewJob(TRUE, <<e>>)
    BY <2>3, NewJobs
  <2>4. CASE k = NewJob(FALSE, ReadDir(e))
    BY <2>4, NewJobs
  <2>5. CASE k = Ended(NewJob(FALSE, <<>>), "not found")
    BY ZenonT(40), <2>1, <2>5, NewJobs
  <2>6. CASE k = Ended(NewJob(FALSE, <<>>), "denied")
    BY ZenonT(40), <2>1, <2>6, NewJobs
  <2>7. CASE k = Ended(NewJob(FALSE, <<>>), "failed")
    BY ZenonT(40), <2>1, <2>7, NewJobs
  <2> QED BY <2>2, <2>3, <2>4, <2>5, <2>6, <2>7
<1> HIDE DEF k
<1>4. IsRun(Caught) /\ channel \in Seq(Messages) /\ SumOf(worker.outcomes, "entries") \in Nat
  BY <1>1, <1>2, WorkerTypes
<1>5. ItemStarted \in Messages
  BY MessageTypes
<1>6. channel' \in Seq(Messages)
  BY <1>1, <1>4, <1>5
<1>7. IsRun(Caught') /\ SameItem(Caught', Caught) /\ Caught'.entries = 0
  <2>1. Caught' = ApplyMessage(Caught, ItemStarted)
    BY <1>1, <1>4, Catches
  <2> QED BY <1>4, <2>1, StartedArrives DEF SameItem
<1>8. ~\E i \in DOMAIN worker.outcomes : worker.outcomes[i].status = "cancelled"
  BY <1>1, <1>2, NoneCancelled
<1>9. Caught'.entries <= k.entries /\ InHand(worker) <= k.entries /\ (k.first = "cancelled" => cancel)
  BY <1>2, <1>3, <1>7
<1>10. LinkInv' /\ worker' # NoWorker /\ Removed(worker') = SumOf(worker.outcomes, "entries") + k.entries
  BY <1>1, <1>2, <1>3, <1>6, <1>7, <1>8, <1>9, JobOfItem
<1>11. Removed(worker') = Removed(worker)
  BY <1>2, <1>3, <1>4, <1>10 DEF Removed
<1>12. CountInv' /\ DiskInv'
  BY <1>1, <1>2, <1>10, <1>11, CountStays, DiskStays
<1> QED BY <1>10, <1>12 DEF RunInv

(* What one entry less on the disk makes of the number of those gone. *)
LEMMA OneGone ==
  ASSUME DiskInv, NEW e \in disk
  PROVE  Cardinality(before \ ((disk \ {e}) \cup lost)) = Cardinality(before \ (disk \cup lost)) + 1
<1> DEFINE S == before \ (disk \cup lost)
<1>1. IsFiniteSet(before)
  BY RemovalAssumption, FS_Subset DEF DiskInv
<1>2. IsFiniteSet(S)
  BY <1>1, FS_Subset
<1>3. e \notin S /\ before \ ((disk \ {e}) \cup lost) = S \cup {e}
  BY DEF DiskInv
<1>4. Cardinality(S \cup {e}) = Cardinality(S) + 1
  <2> HIDE DEF S
  <2> QED BY <1>2, <1>3, FS_AddElement
<1> QED BY <1>3, <1>4

LEMMA FinishItemKeeps ==
  ASSUME RunInv, FinishItem, UNCHANGED <<discoveryVars, uiVars, worldVars>>
  PROVE  RunInv'
<1> DEFINE j == worker.job
           o == Outcome(Item, StatusOf(j.first, j.failed), j.entries, j.bytes)
<1>1. /\ DiskInv /\ LinkInv /\ CountInv /\ worker # NoWorker /\ j # NoJob /\ Conclude(o, FALSE)
      /\ UNCHANGED <<disk, obstacles, cancel, before, lost, run, scenario>>
  <2>1. worker.at = "item" /\ j # NoJob /\ Conclude(o, FALSE) /\ UNCHANGED <<disk, obstacles, cancel>>
    BY Zenon DEF FinishItem
  <2>2. worker # NoWorker
    BY <2>1 DEF NoWorker
  <2>3. UNCHANGED <<before, lost, run, scenario>>
    BY DEF uiVars, worldVars
  <2> HIDE DEF j, o
  <2> QED BY <2>1, <2>2, <2>3 DEF RunInv
<1>2. IsWorker(worker) /\ Stopped(worker, cancel) /\ SumOf(worker.outcomes, "entries") \in Nat
  BY <1>1, WorkerTypes
<1>3. IsJob(j) /\ Len(worker.outcomes) < Len(worker.plan)
  BY <1>1, <1>2 DEF IsWorker
<1>4. Item \in Items
  BY <1>2, <1>3, ItemType
<1>5. /\ j.first \in Errors /\ j.entries \in Nat /\ j.bytes \in Nat /\ InHand(worker) = j.entries
  BY <1>1, <1>3, JobTypes DEF InHand
<1>6. StatusOf(j.first, j.failed) \in Statuses /\ (StatusOf(j.first, j.failed) = "cancelled" => j.first = "cancelled")
  <2> DEFINE err == j.first
             fs == j.failed
  <2> HIDE DEF err, fs
  <2>1. StatusOf(err, fs) \in Statuses /\ (StatusOf(err, fs) = "cancelled" => err = "cancelled")
    BY DEF StatusOf, Statuses
  <2> QED BY <2>1 DEF err, fs
<1>7. o \in OutcomeRecords /\ o.status = StatusOf(j.first, j.failed) /\ o.entries = j.entries
  BY <1>4, <1>5, <1>6, OutcomeType
<1> HIDE DEF o
<1>8. o.status = "cancelled" => cancel
  BY <1>1, <1>2, <1>6, <1>7 DEF Stopped
<1>9. ~\E i \in DOMAIN worker.outcomes : worker.outcomes[i].status = "cancelled"
  BY <1>1, <1>2 DEF Stopped
<1>10. InHand(worker) <= o.entries
  BY <1>5, <1>7
<1>11. LinkInv' /\ worker' # NoWorker /\ Removed(worker') = SumOf(worker.outcomes, "entries") + o.entries
  BY <1>1, <1>3, <1>7, <1>8, <1>9, <1>10, EndOfItem
<1>12. Removed(worker') = Removed(worker)
  BY <1>5, <1>7, <1>11 DEF Removed
<1>13. CountInv' /\ DiskInv'
  BY <1>1, <1>11, <1>12, CountStays, DiskStays
<1> QED BY <1>11, <1>13 DEF RunInv

LEMMA WorkOnItemKeeps ==
  ASSUME RunInv, WorkOnItem, UNCHANGED <<discoveryVars, uiVars, worldVars>>
  PROVE  RunInv'
<1> DEFINE j == worker.job
           step == RemoverStep(j)
           k == step[1]
<1>1. /\ DiskInv /\ LinkInv /\ CountInv /\ worker # NoWorker /\ j # NoJob /\ j.at # "done"
      /\ worker' = [worker EXCEPT !.job = k] /\ disk' = disk \ step[2]
      /\ channel' = channel \/ channel' = Append(channel, ItemProgress(k))
      /\ UNCHANGED <<obstacles, cancel, before, lost, run, scenario>>
  <2>1. /\ worker.at = "item" /\ j # NoJob /\ j.at # "done"
        /\ worker' = [worker EXCEPT !.job = k] /\ disk' = disk \ step[2]
        /\ channel' = channel \/ channel' = Append(channel, ItemProgress(k))
        /\ UNCHANGED <<obstacles, cancel>>
    BY Zenon DEF WorkOnItem
  <2>2. worker # NoWorker
    BY <2>1 DEF NoWorker
  <2>3. UNCHANGED <<before, lost, run, scenario>>
    BY DEF uiVars, worldVars
  <2> HIDE DEF j, step, k
  <2> QED BY <2>1, <2>2, <2>3 DEF RunInv
<1>2. /\ IsWorker(worker) /\ Stopped(worker, cancel) /\ SumOf(worker.outcomes, "entries") \in Nat
      /\ IsRun(Caught) /\ UnderWay(Caught, worker) /\ channel \in Seq(Messages)
  BY <1>1, WorkerTypes
<1>3. IsJob(j) /\ Len(worker.outcomes) < Len(worker.plan)
  BY <1>1, <1>2 DEF IsWorker
<1>4. StepOK(j, step)
  BY <1>1, <1>3, RemoverStepOK
<1>5. j.entries \in Nat /\ InHand(worker) = j.entries
  BY <1>1, <1>3, JobTypes DEF InHand
<1> HIDE DEF step
<1>6. /\ IsJob(k) /\ step[2] \subseteq disk
      /\ \/ step[2] = {} /\ k.entries = j.entries
         \/ \E e : step[2] = {e} /\ k.entries = j.entries + 1
      /\ k.first = "cancelled" => cancel \/ j.first = "cancelled"
  BY <1>4 DEF StepOK
<1>7. k.first = "cancelled" => cancel
  BY <1>1, <1>2, <1>6 DEF Stopped
<1>8. ~\E i \in DOMAIN worker.outcomes : worker.outcomes[i].status = "cancelled"
  BY <1>1, <1>2 DEF Stopped
<1>9. Caught.entries <= j.entries /\ Caught.entries \in Nat
  BY <1>2, <1>5 DEF UnderWay, IsRun, RunRecords
<1> HIDE DEF j, k
<1>10. InHand(worker) <= k.entries /\ k.entries \in Nat
  BY <1>5, <1>6
<1>11. channel' \in Seq(Messages) /\ IsRun(Caught') /\ SameItem(Caught', Caught) /\ Caught'.entries <= k.entries
  <2>1. CASE channel' = channel
    <3>1. Caught' = Caught
      BY <1>1, <2>1 DEF Caught
    <3> QED BY <1>2, <1>5, <1>9, <1>10, <2>1, <3>1 DEF SameItem
  <2>2. CASE channel' = Append(channel, ItemProgress(k))
    <3>1. Caught' = ApplyMessage(Caught, ItemProgress(k))
      BY <1>1, <1>2, <2>2, Catches
    <3>2. IsRun(Caught') /\ SameItem(Caught', Caught) /\ Caught'.entries = k.entries
      BY <1>2, <1>6, <3>1, ProgressArrives DEF SameItem
    <3>3. ItemProgress(k) \in Messages
      BY <1>6, MessageTypes
    <3> QED BY <1>2, <1>10, <2>2, <3>2, <3>3
  <2> QED BY <1>1, <2>1, <2>2
<1>12. LinkInv' /\ worker' # NoWorker /\ Removed(worker') = SumOf(worker.outcomes, "entries") + k.entries
  BY <1>1, <1>3, <1>6, <1>7, <1>8, <1>10, <1>11, JobOfItem
<1>13. DiskInv'
  BY <1>1 DEF DiskInv
<1>14. CountInv'
  <2> DEFINE gone == before \ (disk \cup lost)
             now == before \ ((disk \ step[2]) \cup lost)
  <2>1. Cardinality(gone) = Removed(worker) => Cardinality(now) = Removed(worker')
    <3>1. Removed(worker) = SumOf(worker.outcomes, "entries") + j.entries
      BY <1>5 DEF Removed
    <3>2. CASE step[2] = {} /\ k.entries = j.entries
      BY <1>12, <3>1, <3>2
    <3>3. ASSUME NEW e, step[2] = {e}, k.entries = j.entries + 1
          PROVE  Cardinality(gone) = Removed(worker) => Cardinality(now) = Removed(worker')
      <4>1. e \in disk
        BY <1>6, <3>3
      <4>2. Cardinality(before \ ((disk \ {e}) \cup lost)) = Cardinality(before \ (disk \cup lost)) + 1
        BY <1>1, <4>1, OneGone
      <4>3. Cardinality(now) = Cardinality(gone) + 1
        BY <3>3, <4>2
      <4> HIDE DEF now, gone
      <4> QED BY <1>2, <1>5, <1>12, <3>1, <3>3, <4>3
    <3> QED BY <1>6, <3>2, <3>3
  <2> HIDE DEF gone
  <2>2. before' \ (disk' \cup lost') = now
    BY <1>1
  <2> HIDE DEF now
  <2> QED BY <1>1, <1>12, <2>1, <2>2 DEF CountInv, gone
<1> QED BY <1>12, <1>13, <1>14 DEF RunInv

LEMMA FinishRunKeeps ==
  ASSUME RunInv, FinishRun, UNCHANGED <<discoveryVars, uiVars, worldVars>>
  PROVE  /\ RunInv' /\ worker' = NoWorker /\ Caught'.report = worker.outcomes
         /\ worker # NoWorker
<1> DEFINE os == worker.outcomes
<1>1. /\ DiskInv /\ LinkInv /\ CountInv /\ worker # NoWorker /\ worker.job = NoJob /\ worker' = NoWorker
      /\ Len(os) = Len(worker.plan)
      /\ channel' = Append(channel, RunFinished(os))
      /\ UNCHANGED <<disk, obstacles, cancel, before, lost, run, scenario>>
  BY DEF RunInv, FinishRun, uiVars, worldVars, NoWorker
<1>2. /\ IsWorker(worker) /\ Stopped(worker, cancel) /\ SumOf(os, "entries") \in Nat
      /\ IsRun(Caught) /\ UnderWay(Caught, worker) /\ channel \in Seq(Messages)
      /\ os \in Seq(OutcomeRecords) /\ IsRun(run) /\ ~run.finished /\ run # NoRun
      /\ Caught.kind = run.kind
  BY <1>1, WorkerTypes
<1>3. Caught' = ApplyMessage(Caught, RunFinished(os))
  BY <1>1, <1>2, Catches
<1>4. /\ IsRun(Caught') /\ Caught'.entries = Caught.entries /\ Caught'.bytes = Caught.bytes
      /\ Caught'.kind = Caught.kind /\ Caught'.total = Caught.total
      /\ Caught'.finishedCount = Caught.total
      /\ Caught'.finishedEntries = Caught.finishedEntries
      /\ Caught'.finishedBytes = Caught.finishedBytes
      /\ Caught'.finished /\ Caught'.report = os
  BY <1>2, <1>3, ReportArrives
<1>5. channel' \in Seq(Messages)
  BY <1>1, <1>2, MessageTypes
<1>6. InHand(worker) = 0 /\ Removed(worker) = SumOf(os, "entries")
  BY <1>1, <1>2 DEF InHand, Removed
<1>7. Concluded(Caught')
  <2>1. Caught.entries = 0 /\ Caught.bytes = 0
    BY <1>1, <1>2, <1>6, SMTT(30) DEF UnderWay, IsRun, RunRecords
  <2> QED BY <1>1, <1>2, <1>4, <2>1 DEF Concluded, UnderWay, Stopped
<1>8. LinkInv'
  BY <1>1, <1>2, <1>4, <1>5, <1>7 DEF LinkInv
<1>9. CountInv'
  BY <1>1, <1>2, <1>4, <1>6 DEF CountInv
<1>10. DiskInv'
  BY <1>1, DiskStays
<1> QED BY <1>1, <1>4, <1>8, <1>9, <1>10 DEF RunInv

-----------------------------------------------------------------------------
(* The run, under what the others do. *)

LEMMA RunKept ==
  ASSUME RunInv, UNCHANGED <<disk, obstacles, cancel, worker, channel, before, lost, run, scenario>>
  PROVE  RunInv' /\ Caught' = Caught
<1>1. Caught' = Caught
  BY DEF Caught
<1>2. DiskInv'
  BY DiskStays DEF RunInv
<1>3. CountInv'
  BY <1>1 DEF RunInv, CountInv
<1>4. LinkInv'
  BY <1>1 DEF RunInv, LinkInv
<1> QED BY <1>1, <1>2, <1>3, <1>4 DEF RunInv

LEMMA IsRunProper ==
  ASSUME NEW r, IsRun(r)
  PROVE  r # NoRun
BY DEF IsRun, RunRecords, NoRun, Kinds

LEMMA NewRunType ==
  ASSUME NEW kind \in Kinds, NEW n \in Nat, NEW r, r = NewRun(kind, n)
  PROVE  /\ IsRun(r) /\ r.kind = kind /\ r.total = n /\ r.finishedCount = 0 /\ r.finishedEntries = 0
         /\ r.finishedBytes = 0 /\ r.entries = 0 /\ r.bytes = 0 /\ ~r.finished
<1>1. PICK z \in Nat : z = 0
  OBVIOUS
<1>2. <<>> \in Seq(Statuses) /\ <<>> \in Seq(OutcomeRecords) /\ Len(<<>>) = 0
  OBVIOUS
<1>3. r = [kind |-> kind, total |-> n, finishedCount |-> z, current |-> FALSE,
           entries |-> z, bytes |-> z, finishedEntries |-> z, finishedBytes |-> z,
           recent |-> <<>>, finished |-> FALSE, report |-> <<>>]
  BY <1>1 DEF NewRun
<1>4. r \in RunRecords
  BY <1>2, <1>3 DEF RunRecords
<1>5. r.finishedCount <= r.total /\ Len(r.recent) <= RecentCapacity
  BY <1>1, <1>2, <1>3, OperationsAssumption
<1> QED BY <1>1, <1>3, <1>4, <1>5 DEF IsRun

LEMMA ConfirmRunKeeps ==
  ASSUME RunInv, OverlayInv, ConfirmRun
  PROVE  RunInv' /\ Caught' = run' /\ run' # NoRun /\ worker' # NoWorker
<1> DEFINE kind == overlay.action
           plan == overlay.plan
           mode == IF kind = "delete" THEN scenario.mode ELSE "permanent"
<1>1. /\ run' = NewRun(kind, Len(plan))
      /\ worker' = [at |-> "item", kind |-> kind, mode |-> mode, plan |-> plan,
                    outcomes |-> <<>>, job |-> NoJob]
      /\ channel' = <<>> /\ cancel' = FALSE /\ before' = disk
      /\ kind \in Kinds /\ plan \in Seq(Items)
      /\ UNCHANGED <<disk, obstacles, lost, scenario>>
  BY DEF ConfirmRun, Press, Launch, OverlayInv, Kinds
<1> HIDE DEF kind, plan, mode
<1>2. Len(plan) \in Nat
  BY <1>1
<1>3. /\ IsRun(run') /\ run'.kind = kind /\ run'.total = Len(plan) /\ run'.finishedCount = 0
      /\ run'.finishedEntries = 0 /\ run'.finishedBytes = 0 /\ run'.entries = 0 /\ run'.bytes = 0
      /\ ~run'.finished
  BY <1>1, <1>2, NewRunType
<1>4. Caught' = run'
  BY <1>1, NoMessages DEF Caught
<1>5. /\ worker'.at = "item" /\ worker'.kind = kind /\ worker'.mode = mode /\ worker'.plan = plan
      /\ worker'.outcomes = <<>> /\ worker'.job = NoJob
      /\ DOMAIN worker' = {"at", "kind", "mode", "plan", "outcomes", "job"}
  BY <1>1
<1>6. <<>> \in Seq(OutcomeRecords) /\ <<>> \in Seq(Messages) /\ Len(<<>>) = 0 /\ DOMAIN <<>> = {}
  OBVIOUS
<1>7. IsWorker(worker') /\ worker' # NoWorker
  BY <1>1, <1>2, <1>5, <1>6 DEF IsWorker, NoWorker
<1>8. InHand(worker') = 0 /\ Removed(worker') = 0 /\ SumOf(worker'.outcomes, "entries") = 0
        /\ SumOf(worker'.outcomes, "reclaimed") = 0
  BY <1>5, SumOfNone DEF InHand, Removed
<1>9. UnderWay(Caught', worker')
  BY <1>3, <1>4, <1>5, <1>6, <1>8 DEF UnderWay
<1>10. Stopped(worker', cancel')
  BY <1>5, <1>6 DEF Stopped, Untouched
<1>11. worker'.mode = IF worker'.kind = "delete" THEN scenario'.mode ELSE "permanent"
  BY <1>1, <1>5 DEF mode
<1>12. run'.finishedEntries + run'.entries <= Removed(worker')
  BY <1>3, <1>8
<1>13. run' # NoRun
  BY <1>3, IsRunProper
<1>14. LinkInv'
  BY <1>1, <1>3, <1>4, <1>6, <1>7, <1>9, <1>10, <1>11, <1>12, <1>13 DEF LinkInv
<1>15. DiskInv'
  BY <1>1 DEF RunInv, DiskInv
<1>16. CountInv'
  <2>1. before' \ (disk' \cup lost') = {}
    BY <1>1
  <2>2. Cardinality({}) = 0
    BY FS_EmptySet
  <2> QED BY <1>7, <1>8, <2>1, <2>2 DEF CountInv
<1> QED BY <1>4, <1>7, <1>13, <1>14, <1>15, <1>16 DEF RunInv

LEMMA RequestCancelKeeps ==
  ASSUME RunInv, RequestCancel
  PROVE  RunInv' /\ Caught' = Caught
<1>1. cancel' = TRUE /\ UNCHANGED <<disk, obstacles, worker, channel, before, lost, run, scenario>>
  BY DEF RequestCancel, Press, uiVars
<1>2. Caught' = Caught
  BY <1>1 DEF Caught
<1>3. DiskInv'
  BY <1>1 DEF RunInv, DiskInv
<1>4. CountInv'
  BY <1>1, <1>2 DEF RunInv, CountInv
<1>5. worker # NoWorker => Stopped(worker', cancel')
  BY <1>1, WorkerTypes DEF RunInv, Stopped
<1>6. LinkInv'
  BY <1>1, <1>2, <1>5 DEF RunInv, LinkInv
<1> QED BY <1>2, <1>3, <1>4, <1>6 DEF RunInv

LEMMA DismissOperationKeeps ==
  ASSUME RunInv, DismissOperation
  PROVE  RunInv' /\ worker = NoWorker /\ run # NoRun /\ Caught = run
<1>1. /\ run' = NoRun /\ run # NoRun /\ run.finished
      /\ UNCHANGED <<disk, obstacles, cancel, worker, channel, before, lost, scenario>>
  BY DEF DismissOperation, Press, removalVars
<1>2. worker = NoWorker /\ channel = <<>>
  BY <1>1 DEF RunInv, LinkInv
<1>3. DiskInv'
  BY <1>1 DEF RunInv, DiskInv
<1>4. CountInv'
  BY <1>1 DEF CountInv
<1>5. LinkInv'
  BY <1>1, <1>2 DEF RunInv, LinkInv
<1>6. Caught = run
  BY <1>2, NoMessages DEF Caught
<1> QED BY <1>1, <1>2, <1>3, <1>4, <1>5, <1>6 DEF RunInv

LEMMA TickRun ==
  ASSUME Tick
  PROVE  /\ run' = IF run = NoRun THEN run ELSE Caught
         /\ channel' = IF run = NoRun THEN channel ELSE <<>>
         /\ UNCHANGED <<disk, obstacles, cancel, worker, before, lost, scenario, overlay, foreground>>
<1>1. run' = IF run = NoRun THEN run ELSE FoldLeft(ApplyMessage, run, channel)
  BY Zenon DEF Tick
<1>2. /\ channel' = IF run = NoRun THEN channel ELSE <<>>
      /\ UNCHANGED <<disk, obstacles, cancel, worker, before, lost, scenario, overlay, foreground>>
  BY Zenon DEF Tick
<1> QED BY <1>1, <1>2 DEF Caught, Applied

LEMMA TickKeepsRun ==
  ASSUME RunInv, Tick
  PROVE  RunInv' /\ (run # NoRun => Caught' = Caught /\ run' = Caught /\ run' # NoRun)
<1>1. /\ run' = IF run = NoRun THEN run ELSE Caught
      /\ channel' = IF run = NoRun THEN channel ELSE <<>>
      /\ UNCHANGED <<disk, obstacles, cancel, worker, before, lost, scenario>>
  BY TickRun
<1>2. DiskInv'
  BY <1>1 DEF RunInv, DiskInv
<1>3. CASE run = NoRun
  <2>1. CountInv'
    BY <1>1, <1>3 DEF CountInv
  <2>2. LinkInv'
    BY <1>1, <1>3 DEF RunInv, LinkInv
  <2> QED BY <1>2, <1>3, <2>1, <2>2 DEF RunInv
<1>4. CASE run # NoRun
  <2>1. Caught' = Caught /\ run' = Caught /\ channel' = <<>>
    BY <1>1, <1>4, NoMessages DEF Caught
  <2>2. IsRun(Caught) /\ Caught.kind = run.kind
    BY <1>4 DEF RunInv, LinkInv
  <2>3. run' # NoRun
    BY <2>1, <2>2, IsRunProper
  <2>4. CountInv'
    BY <1>1, <1>4, <2>1, <2>2 DEF RunInv, CountInv
  <2>5. worker # NoWorker => ~Caught.finished /\ Caught.finishedEntries + Caught.entries <= Removed(worker)
    <3>1. ASSUME worker # NoWorker
          PROVE  /\ UnderWay(Caught, worker) /\ InHand(worker) \in Nat /\ Caught.entries \in Nat
                 /\ SumOf(worker.outcomes, "entries") \in Nat
      BY <2>2, <3>1, WorkerTypes DEF RunInv, IsRun, RunRecords
    <3> QED BY <3>1 DEF UnderWay, Removed
  <2>6. <<>> \in Seq(Messages)
    OBVIOUS
  <2>7. LinkInv'
    BY <1>1, <1>4, <2>1, <2>2, <2>3, <2>5, <2>6 DEF RunInv, LinkInv
  <2> QED BY <1>2, <2>1, <2>3, <2>4, <2>7 DEF RunInv
<1> QED BY <1>3, <1>4

LEMMA VanishKeeps ==
  ASSUME RunInv, Vanish
  PROVE  RunInv' /\ Caught' = Caught
<1>1. UNCHANGED <<obstacles, cancel, worker, channel, before, run, scenario>>
  BY DEF Vanish, uiVars
<1>2. PICK e : disk' = disk \ Under(e) /\ lost' = lost \cup (Under(e) \cap disk)
  BY DEF Vanish
<1>3. Caught' = Caught
  BY <1>1 DEF Caught
<1>4. DiskInv'
  BY <1>1, <1>2 DEF RunInv, DiskInv
<1>5. before' \ (disk' \cup lost') = before \ (disk \cup lost)
  BY <1>1, <1>2
<1>6. CountInv'
  BY <1>1, <1>3, <1>5 DEF RunInv, CountInv
<1>7. LinkInv'
  BY <1>1, <1>3 DEF RunInv, LinkInv
<1> QED BY <1>3, <1>4, <1>6, <1>7 DEF RunInv

LEMMA RunForegroundKeeps ==
  ASSUME RunInv, RunForeground
  PROVE  RunInv' /\ Caught' = Caught
<1>1. UNCHANGED <<obstacles, cancel, worker, channel, run, before, scenario>>
  BY Zenon DEF RunForeground
<1>2. PICK gone : /\ disk' = disk \ gone
                  /\ lost' = lost \/ lost' = lost \cup (gone \cap disk)
                  /\ run # NoRun => lost' = lost \cup (gone \cap disk)
  BY Zenon DEF RunForeground
<1>3. Caught' = Caught
  BY <1>1 DEF Caught
<1>4. DiskInv'
  BY <1>1, <1>2 DEF RunInv, DiskInv
<1>5. run # NoRun => before' \ (disk' \cup lost') = before \ (disk \cup lost)
  BY <1>1, <1>2 DEF RunInv, DiskInv
<1>6. CountInv'
  BY <1>1, <1>3, <1>5 DEF RunInv, CountInv
<1>7. LinkInv'
  BY <1>1, <1>3 DEF RunInv, LinkInv
<1> QED BY <1>3, <1>4, <1>6, <1>7 DEF RunInv

-----------------------------------------------------------------------------
(* The list of targets.  What an operation makes of a list keeps the       *)
(* targets under their numbers, and numbers new ones from where the list   *)
(* was.                                                                    *)

Grows(c, d) ==
  /\ c.next <= d.next
  /\ \A x \in Elements(d.candidates) :
       \/ x.id >= c.next
       \/ \E y \in Elements(c.candidates) : y.id = x.id /\ y.path = x.path

LEMMA GrowsFromItself ==
  ASSUME NEW c, IsList(c)
  PROVE  Grows(c, c)
BY DEF Grows, IsList

LEMMA MemberTypes ==
  ASSUME NEW c, IsList(c), NEW x \in Elements(c.candidates)
  PROVE  x \in Candidates /\ x.id \in Nat /\ InList(c, x)
<1>1. c.candidates \in Seq(Candidates)
  BY DEF IsList
<1>2. x \in Candidates
  BY <1>1 DEF Elements
<1> QED BY <1>2 DEF IsList, Candidates

LEMMA GrowsOn ==
  ASSUME NEW c, NEW d, NEW e, IsList(c), IsList(d), IsList(e), Grows(c, d), Grows(d, e)
  PROVE  Grows(c, e)
<1>1. c.next \in Nat /\ d.next \in Nat /\ e.next \in Nat
  BY DEF IsList
<1>2. c.next <= e.next
  BY <1>1 DEF Grows
<1>3. ASSUME NEW x \in Elements(e.candidates), ~(x.id >= c.next)
      PROVE  \E y \in Elements(c.candidates) : y.id = x.id /\ y.path = x.path
  <2>1. x.id \in Nat
    BY MemberTypes
  <2>2. ~(x.id >= d.next)
    BY <1>1, <1>3, <2>1 DEF Grows
  <2>3. PICK y \in Elements(d.candidates) : y.id = x.id /\ y.path = x.path
    BY <2>2 DEF Grows
  <2>4. PICK z \in Elements(c.candidates) : z.id = y.id /\ z.path = y.path
    BY <1>3, <2>3 DEF Grows
  <2> QED BY <2>3, <2>4
<1> QED BY <1>2, <1>3 DEF Grows

LEMMA NamesOn ==
  ASSUME NEW c, NEW d, IsList(c), IsList(d), Grows(c, d), NEW item, item.id \in Nat, Names(c, item)
  PROVE  Names(d, item)
<1>1. c.next \in Nat /\ d.next \in Nat /\ item.id < c.next /\ c.next <= d.next
  BY DEF IsList, Names, Grows
<1>2. ASSUME NEW x \in Elements(d.candidates), x.id = item.id
      PROVE  x.path = item.path
  <2>1. ~(x.id >= c.next)
    BY <1>1, <1>2
  <2>2. PICK y \in Elements(c.candidates) : y.id = x.id /\ y.path = x.path
    BY <2>1 DEF Grows
  <2> QED BY <1>2, <2>2 DEF Names
<1> QED BY <1>1, <1>2 DEF Names

(* A new target at the end of the list. *)
LEMMA ListWithOneMore ==
  ASSUME NEW c, IsList(c), NEW x \in Candidates, x.id = c.next, NEW d,
         DOMAIN d = DOMAIN c, d.candidates = Append(c.candidates, x), d.next = c.next + 1,
         d.known \subseteq Entry, c.known \subseteq d.known, d.docker = c.docker,
         InList(d, x),
         \A y \in Elements(c.candidates) : x.path # NoPath => y.path # x.path
  PROVE  IsList(d) /\ Grows(c, d) /\ Elements(d.candidates) = Elements(c.candidates) \cup {x}
<1>1. /\ c.candidates \in Seq(Candidates) /\ Distinct(c.candidates) /\ c.next \in Nat \ {0}
      /\ \A y \in Elements(c.candidates) : InList(c, y)
      /\ \A y, z \in Elements(c.candidates) : Apart(y, z)
      /\ DOMAIN c = {"candidates", "next", "known", "search", "docker"}
  BY DEF IsList
<1>2. /\ DOMAIN d.candidates = 1 .. (Len(c.candidates) + 1)
      /\ DOMAIN c.candidates = 1 .. Len(c.candidates)
      /\ Len(c.candidates) \in Nat
      /\ \A i \in 1 .. Len(c.candidates) : d.candidates[i] = c.candidates[i]
      /\ d.candidates[Len(c.candidates) + 1] = x
      /\ d.candidates \in Seq(Candidates)
  BY <1>1, AppendParts
<1>3. Elements(d.candidates) = Elements(c.candidates) \cup {x}
  BY <1>2 DEF Elements
<1>4. \A y \in Elements(c.candidates) : y.id \in Nat /\ y.id < c.next
  <2>1. \A y \in Elements(c.candidates) : y.id \in Nat /\ InList(c, y)
    BY MemberTypes
  <2> QED BY <2>1 DEF InList
<1>5. Distinct(d.candidates)
  <2> SUFFICES ASSUME NEW i \in 1 .. (Len(c.candidates) + 1), NEW j \in 1 .. (Len(c.candidates) + 1),
                      d.candidates[i] = d.candidates[j]
               PROVE  i = j
    BY <1>2 DEF Distinct
  <2>1. ASSUME NEW k \in 1 .. Len(c.candidates)
        PROVE  d.candidates[k] # x /\ c.candidates[k] = d.candidates[k]
    <3>1. d.candidates[k] \in Elements(c.candidates)
      BY <1>2 DEF Elements
    <3> QED BY <1>1, <1>2, <1>4, <3>1
  <2>2. i = Len(c.candidates) + 1 \/ i \in 1 .. Len(c.candidates)
    BY <1>2
  <2>3. j = Len(c.candidates) + 1 \/ j \in 1 .. Len(c.candidates)
    BY <1>2
  <2>4. CASE i \in 1 .. Len(c.candidates) /\ j \in 1 .. Len(c.candidates)
    BY <1>1, <1>2, <2>1, <2>4 DEF Distinct
  <2> QED BY <1>2, <2>1, <2>2, <2>3, <2>4
<1>6. \A y \in Elements(d.candidates) : InList(d, y)
  <2> SUFFICES ASSUME NEW y \in Elements(c.candidates)
               PROVE  InList(d, y)
    BY <1>3
  <2>1. InList(c, y) /\ y.id \in Nat /\ c.next \in Nat
    BY <1>1, <1>4
  <2> QED BY <2>1 DEF InList
<1>7. \A y, z \in Elements(d.candidates) : Apart(y, z)
  <2>1. \A y \in Elements(c.candidates) : y.id # x.id /\ (x.path # NoPath => y.path # x.path)
    BY <1>1, <1>4
  <2> QED BY <1>1, <1>3, <2>1 DEF Apart
<1>8. IsList(d)
  BY <1>1, <1>2, <1>5, <1>6, <1>7 DEF IsList
<1>9. Grows(c, d)
  <2>1. c.next <= d.next /\ x.id >= c.next
    BY <1>1
  <2> QED BY <1>3, <2>1 DEF Grows
<1> QED BY <1>3, <1>8, <1>9

(* The same targets with other sizes, or another selection. *)
LEMMA ListChanged ==
  ASSUME NEW c, IsList(c), NEW g \in Seq(Candidates), DOMAIN g = DOMAIN c.candidates,
         \A i \in DOMAIN g :
           /\ g[i].id = c.candidates[i].id /\ g[i].path = c.candidates[i].path
           /\ g[i].what = c.candidates[i].what /\ g[i].node = c.candidates[i].node
           /\ g[i].protected = c.candidates[i].protected
           /\ g[i].selected => ~g[i].protected,
         NEW d, d = [c EXCEPT !.candidates = g]
  PROVE  IsList(d) /\ Grows(c, d)
<1>1. /\ c.candidates \in Seq(Candidates) /\ Distinct(c.candidates) /\ c.next \in Nat \ {0}
      /\ \A y \in Elements(c.candidates) : InList(c, y)
      /\ \A y, z \in Elements(c.candidates) : Apart(y, z)
      /\ DOMAIN c = {"candidates", "next", "known", "search", "docker"}
      /\ c.known \subseteq Entry
  BY DEF IsList
<1>2. /\ DOMAIN d = DOMAIN c /\ d.candidates = g /\ d.next = c.next /\ d.known = c.known
      /\ d.docker = c.docker /\ d.search = c.search
  BY <1>1
<1>3. \A i \in DOMAIN g : c.candidates[i] \in Elements(c.candidates)
  BY DEF Elements
<1>4. \A i, j \in DOMAIN g : g[i].id = g[j].id => i = j
  <2> SUFFICES ASSUME NEW i \in DOMAIN g, NEW j \in DOMAIN g, g[i].id = g[j].id
               PROVE  i = j
    OBVIOUS
  <2>1. Apart(c.candidates[i], c.candidates[j])
    BY <1>1, <1>3
  <2>2. c.candidates[i] = c.candidates[j]
    BY <2>1 DEF Apart
  <2> QED BY <1>1, <2>2 DEF Distinct
<1>5. \A i, j \in DOMAIN g : g[i].path # NoPath /\ g[i].path = g[j].path => i = j
  <2> SUFFICES ASSUME NEW i \in DOMAIN g, NEW j \in DOMAIN g, g[i].path # NoPath, g[i].path = g[j].path
               PROVE  i = j
    OBVIOUS
  <2>1. Apart(c.candidates[i], c.candidates[j])
    BY <1>1, <1>3
  <2>2. c.candidates[i] = c.candidates[j]
    BY <2>1 DEF Apart
  <2> QED BY <1>1, <2>2 DEF Distinct
<1>6. Distinct(g)
  BY <1>4 DEF Distinct
<1>7. \A x \in Elements(g) : InList(d, x)
  <2> SUFFICES ASSUME NEW i \in DOMAIN g
               PROVE  InList(d, g[i])
    BY DEF Elements
  <2>1. InList(c, c.candidates[i])
    BY <1>1, <1>3
  <2> QED BY <1>2, <2>1 DEF InList, Guarded
<1>8. \A x, y \in Elements(g) : Apart(x, y)
  BY <1>4, <1>5 DEF Elements, Apart
<1>9. IsList(d)
  BY <1>1, <1>2, <1>6, <1>7, <1>8 DEF IsList
<1>10. Grows(c, d)
  <2>1. c.next <= d.next
    BY <1>1, <1>2
  <2>2. ASSUME NEW x \in Elements(d.candidates)
        PROVE  \E y \in Elements(c.candidates) : y.id = x.id /\ y.path = x.path
    <3>1. PICK i \in DOMAIN g : x = g[i]
      BY <1>2 DEF Elements
    <3> QED BY <1>3, <3>1
  <2> QED BY <2>1, <2>2 DEF Grows
<1> QED BY <1>9, <1>10

(* Part of the targets. *)
LEMMA ListRetained ==
  ASSUME NEW c, IsList(c), NEW X, NEW d, d = [c EXCEPT !.candidates = Retain(@, X)]
  PROVE  IsList(d) /\ Grows(c, d)
<1>1. /\ c.candidates \in Seq(Candidates) /\ Distinct(c.candidates) /\ c.next \in Nat \ {0}
      /\ \A y \in Elements(c.candidates) : InList(c, y)
      /\ \A y, z \in Elements(c.candidates) : Apart(y, z)
      /\ DOMAIN c = {"candidates", "next", "known", "search", "docker"}
      /\ c.known \subseteq Entry
  BY DEF IsList
<1>2. /\ DOMAIN d = DOMAIN c /\ d.candidates = Retain(c.candidates, X) /\ d.next = c.next
      /\ d.known = c.known /\ d.docker = c.docker /\ d.search = c.search
  BY <1>1
<1>3. /\ Retain(c.candidates, X) \in Seq(Candidates \cap X)
      /\ Elements(Retain(c.candidates, X)) = Elements(c.candidates) \cap X
  BY <1>1, RetainMembers
<1>4. Distinct(Retain(c.candidates, X))
  BY <1>1, RetainDistinct
<1>5. d.candidates \in Seq(Candidates)
  <2>1. \A S, T : S \subseteq T => Seq(S) \subseteq Seq(T)
    OBVIOUS
  <2> QED BY <1>2, <1>3, <2>1
<1>6. \A x \in Elements(d.candidates) : x \in Elements(c.candidates)
  BY <1>2, <1>3
<1>7. \A x \in Elements(d.candidates) : InList(d, x)
  BY <1>1, <1>2, <1>6 DEF InList
<1>8. IsList(d)
  BY <1>1, <1>2, <1>4, <1>5, <1>6, <1>7 DEF IsList
<1>9. Grows(c, d)
  BY <1>1, <1>2, <1>6 DEF Grows
<1> QED BY <1>8, <1>9

(* What a target is listed from. *)
IsTarget(k) ==
  /\ k.category \in {m.category : m \in Target} /\ k.what \in Way /\ k.default \in BOOLEAN
  /\ k.path \in Entry \cup {NoPath} /\ (k.what # "external" => k.path \in Entry)

LEMMA TargetsAreTargets ==
  /\ \A k \in Target : /\ DOMAIN k = {"category", "what", "path", "default"}
                       /\ k.category \in {m.category : m \in Target} /\ k.what \in Way
                       /\ k.default \in BOOLEAN /\ (k.what = "external" => k.path = NoPath)
  /\ \A k \in ToSet(Known) \cup ToSet(Prunes) : IsTarget(k)
<1>1. ASSUME NEW k \in Target
      PROVE  /\ DOMAIN k = {"category", "what", "path", "default"}
             /\ k.category \in {m.category : m \in Target} /\ k.what \in Way
             /\ k.default \in BOOLEAN /\ (k.what = "external" => k.path = NoPath)
  <2>1. /\ k = [category |-> k.category, what |-> k.what, path |-> k.path, default |-> k.default]
        /\ k.default \in BOOLEAN /\ k.what \in Way /\ (k.what = "external" => k.path = NoPath)
    BY TargetAssumption
  <2>2. PICK a, b, c, d : k = [category |-> a, what |-> b, path |-> c, default |-> d]
    BY <2>1, Zenon
  <2>3. DOMAIN k = {"category", "what", "path", "default"}
    BY <2>2
  <2> QED BY <2>1, <2>3
<1>2. \A k \in ToSet(Known) \cup ToSet(Prunes) : k \in Target
  BY DEF Target
<1>3. \A k \in ToSet(Known) : k.what # "external" => k.path \in Entry
  BY TargetAssumption
<1>4. \A k \in ToSet(Prunes) : k.what = "external"
  BY TargetAssumption
<1>5. ASSUME NEW k \in ToSet(Known) \cup ToSet(Prunes)
      PROVE  IsTarget(k)
  <2>1. /\ k.category \in {m.category : m \in Target} /\ k.what \in Way
        /\ k.default \in BOOLEAN /\ (k.what = "external" => k.path = NoPath)
        /\ (k.what # "external" => k.path \in Entry)
    BY <1>1, <1>2, <1>3, <1>4
  <2> QED BY <2>1 DEF IsTarget
<1> QED BY <1>1, <1>5

LEMMA FoundIsTarget ==
  ASSUME NEW p \in Place
  PROVE  IsTarget([FoundAs EXCEPT !.path = p])
<1>1. FoundAs \in Target
  BY DEF Target
<1>2. /\ DOMAIN FoundAs = {"category", "what", "path", "default"}
      /\ FoundAs.category \in {m.category : m \in Target} /\ FoundAs.what \in Way
      /\ FoundAs.default \in BOOLEAN
  BY <1>1, TargetsAreTargets
<1>3. p \in Entry
  BY TargetAssumption
<1> QED BY <1>2, <1>3 DEF IsTarget

(* The rest of the record. *)
Beside(s, t) ==
  /\ t.searches = s.searches /\ t.rules = s.rules /\ t.enabled = s.enabled
  /\ t.cleaner.search = s.cleaner.search

LEMMA StateParts ==
  ASSUME NEW s, IsState(s)
  PROVE  /\ DOMAIN s = {"cleaner", "roots", "rules", "searches", "enabled"}
         /\ IsList(s.cleaner) /\ IsRoots(s.roots) /\ IsSearches(s.searches)
         /\ s.cleaner.search \in DOMAIN s.searches.known \cup {NoSearch}
         /\ (Shielded => s.rules = scenario.protected)
         /\ s.cleaner.candidates \in Seq(Candidates) /\ s.cleaner.next \in Nat \ {0}
         /\ DOMAIN s.cleaner = {"candidates", "next", "known", "search", "docker"}
         /\ s.cleaner.known \subseteq Entry
BY DEF IsState, IsList

LEMMA MeasureRootOK ==
  ASSUME NEW roots, IsRoots(roots), NEW path \in Entry \cup {NoPath}
  PROVE  IsRoots(MeasureRoot(roots, path))
<1> DEFINE new == [counted |-> {}, busy |-> TRUE]
<1>1. new \in [counted : SUBSET Entry, busy : BOOLEAN]
  OBVIOUS
<1>2. CASE path = NoPath \/ path \in DOMAIN roots
  BY <1>2 DEF MeasureRoot
<1>3. CASE ~(path = NoPath \/ path \in DOMAIN roots)
  <2>1. MeasureRoot(roots, path) = [p \in DOMAIN roots \cup {path} |-> IF p = path THEN new ELSE roots[p]]
    BY <1>3 DEF MeasureRoot
  <2> HIDE DEF new
  <2> QED BY <1>1, <1>3, <2>1 DEF IsRoots
<1> QED BY <1>2, <1>3

LEMMA NeverAnImage ==
  ASSUME scenario \in Scenarios, NEW path \in Entry \cup {NoPath}
  PROVE  path \notin ToSet(Images) /\ path \notin UNION scenario.used
<1>1. path \notin ToSet(Images)
  BY TargetAssumption
<1>2. scenario.used \subseteq SUBSET ToSet(Images)
  BY OperationsAssumption
<1> QED BY <1>1, <1>2

LEMMA AddCandidateOK ==
  ASSUME scenario \in Scenarios, NEW s, IsState(s), NEW k, IsTarget(k), NEW t, t = AddCandidate(s, k)
  PROVE  /\ IsState(t) /\ Grows(s.cleaner, t.cleaner) /\ Beside(s, t)
         /\ t.cleaner.docker = s.cleaner.docker
<1> DEFINE c == s.cleaner
           d == t.cleaner
           prot == k.path # NoPath /\ Protects(s.rules, k.path)
           x == Candidate(c, k, 0, prot)
           more == c.known \cup ({k.path} \ {NoPath})
<1>1. /\ DOMAIN s = {"cleaner", "roots", "rules", "searches", "enabled"}
      /\ IsList(c) /\ IsRoots(s.roots) /\ IsSearches(s.searches)
      /\ c.search \in DOMAIN s.searches.known \cup {NoSearch}
      /\ Shielded => s.rules = scenario.protected
      /\ c.candidates \in Seq(Candidates) /\ c.next \in Nat \ {0}
      /\ DOMAIN c = {"candidates", "next", "known", "search", "docker"}
      /\ c.known \subseteq Entry
  BY StateParts
<1>2. CASE k.path # NoPath /\ k.path \in c.known
  <2>1. t = s
    BY <1>2 DEF AddCandidate
  <2> QED BY <1>1, <2>1, GrowsFromItself DEF Beside
<1>3. CASE ~(k.path # NoPath /\ k.path \in c.known)
  <2>1. t = [s EXCEPT !.cleaner = WithCandidate([@ EXCEPT !.known = more], x),
                      !.roots = MeasureRoot(@, k.path)]
    <3> DEFINE e == [s EXCEPT !.cleaner = WithCandidate([@ EXCEPT !.known = more], x),
                              !.roots = MeasureRoot(@, k.path)]
    <3>1. t = IF k.path # NoPath /\ k.path \in s.cleaner.known THEN s ELSE e
      BY DEF AddCandidate
    <3> HIDE DEF e
    <3>2. t = e
      BY <1>3, <3>1
    <3> QED BY <3>2 DEF e
  <2>2. /\ DOMAIN t = DOMAIN s /\ t.cleaner = WithCandidate([c EXCEPT !.known = more], x)
        /\ t.roots = MeasureRoot(s.roots, k.path)
        /\ t.searches = s.searches /\ t.rules = s.rules /\ t.enabled = s.enabled
    <3> HIDE DEF x, more
    <3> QED BY <1>1, <2>1
  <2>3. /\ DOMAIN d = DOMAIN c /\ d.candidates = Append(c.candidates, x) /\ d.next = c.next + 1
        /\ d.known = more /\ d.docker = c.docker /\ d.search = c.search
    <3> HIDE DEF x, more, c
    <3> QED BY <1>1, <2>2 DEF WithCandidate
  <2>4. /\ x.id = c.next /\ x.path = k.path /\ x.what = k.what /\ x.protected = prot
        /\ x.selected = (k.default /\ ~prot) /\ x.node = (k.path # NoPath)
    BY DEF Candidate
  <2>5. k.path \in Entry \cup {NoPath}
    BY DEF IsTarget
  <2>6. x \in Candidates
    <3>1. 0 \in Nat /\ c.next \in Nat
      BY <1>1
    <3>2. k.path \in Paths
      BY <2>5 DEF Paths
    <3> HIDE DEF c
    <3> QED BY <3>1, <3>2 DEF Candidate, Candidates, IsTarget
  <2>7. more \subseteq Entry /\ c.known \subseteq more
    BY <1>1, <2>5
  <2>8. InList(d, x)
    <3>1. x.id < d.next
      BY <1>1, <2>3, <2>4
    <3>2. x.path \in Entry => x.path \in d.known
      <4>1. NoPath \notin Entry
        BY TargetAssumption
      <4> QED BY <2>3, <2>4, <4>1
    <3>3. x.path \notin ToSet(Images) /\ x.path \notin UNION scenario.used
      BY <2>4, <2>5, NeverAnImage
    <3>4. (x.what # "external" => x.path \in Entry) /\ (x.node => x.path \in Entry)
      BY <2>4, <2>5 DEF IsTarget
    <3>5. x.selected => ~x.protected
      BY <2>4 DEF IsTarget
    <3>6. Shielded /\ Guarded(x) => x.protected
      BY <1>1, <2>4, <3>3 DEF Guarded
    <3> HIDE DEF x, d
    <3> QED BY <3>1, <3>2, <3>3, <3>4, <3>5, <3>6 DEF InList
  <2>9. \A y \in Elements(c.candidates) : x.path # NoPath => y.path # x.path
    <3> SUFFICES ASSUME NEW y \in Elements(c.candidates), x.path # NoPath, y.path = x.path
                 PROVE  FALSE
      OBVIOUS
    <3>1. InList(c, y)
      BY <1>1, MemberTypes
    <3>2. y.path \in Entry
      BY <2>4, <2>5
    <3> QED BY <1>3, <2>4, <3>1, <3>2 DEF InList
  <2> HIDE DEF x, d, c, prot, more
  <2>10. IsList(d) /\ Grows(c, d)
    BY <1>1, <2>3, <2>4, <2>6, <2>7, <2>8, <2>9, ListWithOneMore
  <2>11. IsRoots(t.roots)
    BY <1>1, <2>2, <2>5, MeasureRootOK
  <2> QED BY <1>1, <2>2, <2>3, <2>10, <2>11 DEF IsState, Beside, c, d
<1> QED BY <1>2, <1>3

(* Several of them. *)
ManyOp(p, t, i) == AddCandidate(t, p.of[i])
ManyGood(p, s, t) ==
  IsState(t) /\ Grows(p.state.cleaner, t.cleaner) /\ Beside(p.state, t)
    /\ t.cleaner.docker = p.state.cleaner.docker
ManyFold == INSTANCE FoldLemmas WITH Op <- ManyOp, Pick <- PickLast, Good <- ManyGood

LEMMA SequenceInductive ==
  ASSUME NEW S, NEW s \in Seq(S)
  PROVE  /\ IsFiniteSet(DOMAIN s) /\ \A k \in SUBSET DOMAIN s : k # {} => PickLast(k) \in k
         /\ DOMAIN s = 1 .. Len(s) /\ Len(s) \in Nat
<1> DEFINE n == Len(s)
<1>1. DOMAIN s = 1 .. n /\ n \in Nat
  OBVIOUS
<1> HIDE DEF n
<1>2. IsFiniteSet(1 .. n) /\ \A k \in SUBSET (1 .. n) : k # {} => PickLast(k) \in k
  BY <1>1, LastOfRange
<1> QED BY <1>1, <1>2 DEF n

LEMMA ElementsFinite ==
  ASSUME NEW S, NEW s \in Seq(S)
  PROVE  IsFiniteSet(Elements(s))
<1>1. IsFiniteSet(DOMAIN s)
  BY SequenceInductive
<1>2. s \in [DOMAIN s -> Elements(s)] /\ \A x \in Elements(s) : \E i \in DOMAIN s : s[i] = x
  BY DEF Elements
<1>3. s \in Surjection(DOMAIN s, Elements(s))
  BY <1>2, Fun_IsSurj
<1> QED BY <1>1, <1>3, FS_Surjection

LEMMA BesideOn ==
  ASSUME NEW s, NEW t, NEW u, Beside(s, t), Beside(t, u)
  PROVE  Beside(s, u)
BY DEF Beside

LEMMA AddManyOK ==
  ASSUME scenario \in Scenarios, NEW s, IsState(s), NEW S, NEW ks \in Seq(S), \A k \in S : IsTarget(k),
         NEW p, p = [of |-> ks, state |-> s], NEW t, t = ManyFold!Fold(p, s, DOMAIN ks)
  PROVE  /\ IsState(t) /\ Grows(s.cleaner, t.cleaner) /\ Beside(s, t)
         /\ t.cleaner.docker = s.cleaner.docker
<1> DEFINE D == DOMAIN ks
<1>1. /\ IsFiniteSet(D) /\ \A k \in SUBSET D : k # {} => PickLast(k) \in k
      /\ D = 1 .. Len(ks) /\ Len(ks) \in Nat
  BY SequenceInductive
<1>2. \A i \in D : IsTarget(ks[i])
  BY <1>1
<1>3. ManyFold!Inductive(D)
  BY <1>1, FiniteInductive DEF ManyFold!Inductive
<1>4. p.of = ks /\ p.state = s
  OBVIOUS
<1> HIDE DEF D
<1>5. ManyGood(p, {}, s)
  <2>1. Grows(s.cleaner, s.cleaner)
    BY StateParts, GrowsFromItself
  <2> QED BY <1>4, <2>1 DEF ManyGood, Beside
<1>6. ASSUME NEW k \in SUBSET D, k # {}, NEW a, ManyGood(p, k \ {PickLast(k)}, a)
      PROVE  ManyGood(p, k, ManyOp(p, a, PickLast(k)))
  <2> DEFINE x == ks[PickLast(k)]
             b == AddCandidate(a, x)
  <2>1. IsTarget(x)
    BY <1>1, <1>2, <1>6
  <2>2. /\ IsState(a) /\ Grows(s.cleaner, a.cleaner) /\ Beside(s, a)
        /\ a.cleaner.docker = s.cleaner.docker
    BY <1>4, <1>6 DEF ManyGood
  <2> HIDE DEF x
  <2>3. IsState(b) /\ Grows(a.cleaner, b.cleaner) /\ Beside(a, b) /\ b.cleaner.docker = a.cleaner.docker
    BY <2>1, <2>2, AddCandidateOK
  <2>4. ManyOp(p, a, PickLast(k)) = b
    BY <1>4 DEF ManyOp, x
  <2> HIDE DEF b
  <2>5. IsList(s.cleaner) /\ IsList(a.cleaner) /\ IsList(b.cleaner)
    BY <2>2, <2>3, StateParts
  <2>6. Grows(s.cleaner, b.cleaner)
    BY <2>2, <2>3, <2>5, GrowsOn
  <2>7. Beside(s, b)
    BY <2>2, <2>3, BesideOn
  <2> QED BY <1>4, <2>2, <2>3, <2>4, <2>6, <2>7 DEF ManyGood
<1>7. ManyGood(p, D, ManyFold!Fold(p, s, D))
  BY <1>1, <1>3, <1>5, <1>6, ManyFold!FoldKeeps
<1> QED BY <1>4, <1>7 DEF ManyGood, D

LEMMA AddRetained ==
  ASSUME NEW s, NEW ks
  PROVE  FoldLeft(AddCandidate, s, ks) = ManyFold!Fold([of |-> ks, state |-> s], s, DOMAIN ks)
BY Zenon DEF FoldLeft, MapThenFoldSet, ManyFold!Fold, ManyFold!Step, ManyOp, PickLast, Max

LEMMA TargetsRetained ==
  ASSUME NEW X
  PROVE  /\ \E S : Retain(Known, X) \in Seq(S) /\ \A k \in S : IsTarget(k)
         /\ \E S : Retain(Prunes, X) \in Seq(S) /\ \A k \in S : IsTarget(k)
<1>1. Known \in Seq(ToSet(Known)) /\ Prunes \in Seq(ToSet(Prunes))
  BY TargetAssumption
<1>2. Retain(Known, X) \in Seq(ToSet(Known) \cap X) /\ Retain(Prunes, X) \in Seq(ToSet(Prunes) \cap X)
  BY <1>1, RetainMembers
<1>3. \A k \in ToSet(Known) \cup ToSet(Prunes) : IsTarget(k)
  BY TargetsAreTargets
<1>4. \A k \in ToSet(Known) \cap X : IsTarget(k)
  BY <1>3
<1>5. \A k \in ToSet(Prunes) \cap X : IsTarget(k)
  BY <1>3
<1> QED BY <1>2, <1>4, <1>5

(* A search begins, and what was found is taken. *)
LEMMA StartDiscoveryOK ==
  ASSUME NEW s, IsSearches(s), NEW t, t = StartDiscovery(s)
  PROVE  IsSearches(t) /\ DOMAIN t.known = DOMAIN s.known \cup {s.next}
<1> DEFINE roots == ToSet(DiscoveryRoots) \ Excluded
           search == [found |-> <<>>, consumed |-> 0, outstanding |-> Cardinality(roots),
                      finished |-> roots = {}]
           new == {[search |-> s.next, place |-> r, origin |-> r, depth |-> 0] : r \in roots}
<1>1. t = [known |-> [q \in DOMAIN s.known \cup {s.next} |-> IF q = s.next THEN search ELSE s.known[q]],
           next |-> s.next + 1, tasks |-> s.tasks \cup new]
  BY DEF StartDiscovery
<1>2. roots \subseteq Place /\ IsFiniteSet(roots)
  <2>1. roots \subseteq Place /\ IsFiniteSet(Place)
    BY DiscoveryAssumption
  <2> QED BY <2>1, FS_Subset
<1>3. Cardinality(roots) \in Nat
  BY <1>2, FS_CardinalityType
<1>4. search \in SearchRecords
  <2> HIDE DEF roots
  <2>1. <<>> \in Seq(Place) /\ 0 \in Nat
    OBVIOUS
  <2> QED BY <1>3, <2>1 DEF SearchRecords
<1>5. s.next \in Nat /\ s.tasks \subseteq Tasks /\ \A q \in DOMAIN s.known : s.known[q] \in SearchRecords
  BY DEF IsSearches
<1>6. new \subseteq Tasks
  BY <1>2, <1>5 DEF Tasks
<1> HIDE DEF roots, search, new
<1> QED BY <1>1, <1>4, <1>5, <1>6 DEF IsSearches

(* Without images in a list, any answer of Docker fits it. *)
LEMMA DockerOnly ==
  ASSUME NEW c, IsList(c), c.docker # "available",
         NEW d, DOMAIN d = DOMAIN c, d.candidates = c.candidates, d.next = c.next, d.known = c.known
  PROVE  IsList(d) /\ Grows(c, d)
<1>1. /\ c.candidates \in Seq(Candidates) /\ Distinct(c.candidates) /\ c.next \in Nat \ {0}
      /\ \A y \in Elements(c.candidates) : InList(c, y)
      /\ \A y, z \in Elements(c.candidates) : Apart(y, z)
      /\ DOMAIN c = {"candidates", "next", "known", "search", "docker"}
      /\ c.known \subseteq Entry
  BY DEF IsList
<1>2. \A y \in Elements(c.candidates) : InList(d, y)
  BY <1>1 DEF InList
<1>3. IsList(d)
  BY <1>1, <1>2 DEF IsList
<1> QED BY <1>1, <1>3 DEF Grows

LEMMA BeginOK ==
  ASSUME scenario \in Scenarios, NEW s, IsState(s), NEW t, t = Begin(s)
  PROVE  /\ IsState(t)
         /\ t.searches = s.searches \/ t.searches = StartDiscovery(s.searches)
<1> DEFINE base == [ForgetMeasurements(s) EXCEPT !.cleaner = EmptyList]
           ks == Retain(Known, {k \in Elements(Known) : /\ k.category \in s.enabled
                                                        /\ k.path \in disk \cup {NoPath}})
           known == FoldLeft(AddCandidate, base, ks)
           docker == IF \E k \in {ImageAs} \cup ToSet(Prunes) : k.category \in s.enabled
                     THEN "checking" ELSE "disabled"
           listed == [known EXCEPT !.cleaner.docker = docker]
<1>1. IsState(base) /\ base.cleaner = EmptyList /\ base.searches = s.searches
  <2> DEFINE roots == [p \in DOMAIN s.roots \ MeasuredPaths(s.cleaner) |-> s.roots[p]]
  <2>1. /\ DOMAIN s = {"cleaner", "roots", "rules", "searches", "enabled"}
        /\ IsRoots(s.roots) /\ IsSearches(s.searches)
        /\ Shielded => s.rules = scenario.protected
    BY StateParts
  <2>2. base = [s EXCEPT !.roots = roots, !.cleaner = EmptyList]
    BY DEF ForgetMeasurements
  <2>3. IsRoots(roots)
    BY <2>1 DEF IsRoots
  <2>4. IsList(EmptyList) /\ EmptyList.search = NoSearch
    <3>1. <<>> \in Seq(Candidates) /\ Elements(<<>>) = {} /\ Distinct(<<>>)
      BY DEF Elements, Distinct
    <3>2. 1 \in Nat \ {0}
      OBVIOUS
    <3>3. /\ EmptyList.candidates = <<>> /\ EmptyList.next = 1 /\ EmptyList.known = {}
          /\ EmptyList.search = NoSearch
          /\ DOMAIN EmptyList = {"candidates", "next", "known", "search", "docker"}
      BY DEF EmptyList
    <3> QED BY <3>1, <3>2, <3>3 DEF IsList
  <2> HIDE DEF roots
  <2>5. /\ DOMAIN base = {"cleaner", "roots", "rules", "searches", "enabled"}
        /\ base.cleaner = EmptyList /\ base.roots = roots /\ base.searches = s.searches
        /\ base.rules = s.rules
    <3> HIDE DEF base
    <3> QED BY <2>1, <2>2
  <2> HIDE DEF base
  <2> QED BY <2>1, <2>3, <2>4, <2>5 DEF IsState
<1> HIDE DEF base
<1>2. IsState(known) /\ Beside(base, known) /\ known.cleaner.docker = base.cleaner.docker
  <2>1. PICK S : ks \in Seq(S) /\ \A k \in S : IsTarget(k)
    <3> DEFINE X == {k \in Elements(Known) : k.category \in s.enabled /\ k.path \in disk \cup {NoPath}}
    <3> HIDE DEF X
    <3>1. \E S : Retain(Known, X) \in Seq(S) /\ \A k \in S : IsTarget(k)
      BY TargetsRetained
    <3> QED BY <3>1 DEF X
  <2> HIDE DEF ks
  <2>2. known = ManyFold!Fold([of |-> ks, state |-> base], base, DOMAIN ks)
    BY AddRetained
  <2> HIDE DEF known
  <2> QED BY <1>1, <2>1, <2>2, AddManyOK
<1> HIDE DEF known
<1>3. known.cleaner.docker = "disabled" /\ known.searches = s.searches /\ known.cleaner.search = NoSearch
  BY <1>1, <1>2 DEF Beside, EmptyList
<1>4. /\ DOMAIN known = {"cleaner", "roots", "rules", "searches", "enabled"}
      /\ IsList(known.cleaner) /\ IsRoots(known.roots) /\ IsSearches(known.searches)
      /\ Shielded => known.rules = scenario.protected
      /\ DOMAIN known.cleaner = {"candidates", "next", "known", "search", "docker"}
  BY <1>2, StateParts
<1> HIDE DEF docker
<1>5. /\ DOMAIN listed = DOMAIN known /\ listed.roots = known.roots
      /\ listed.rules = known.rules /\ listed.searches = known.searches
      /\ DOMAIN listed.cleaner = DOMAIN known.cleaner
      /\ listed.cleaner.candidates = known.cleaner.candidates
      /\ listed.cleaner.next = known.cleaner.next /\ listed.cleaner.known = known.cleaner.known
      /\ listed.cleaner.search = NoSearch /\ listed.cleaner.docker = docker
  BY <1>3, <1>4
<1>7. CASE FoundAs.category \notin s.enabled
  <2>1. t = listed
    BY <1>7, Zenon DEF Begin, listed, docker, known, base
  <2> HIDE DEF listed
  <2>2. IsList(listed.cleaner)
    BY <1>3, <1>4, <1>5, DockerOnly
  <2> QED BY <1>3, <1>4, <1>5, <2>1, <2>2 DEF IsState
<1>8. CASE FoundAs.category \in s.enabled
  <2> DEFINE begun == StartDiscovery(s.searches)
  <2>1. t = [listed EXCEPT !.cleaner.search = s.searches.next, !.searches = begun]
    BY <1>8, Zenon DEF Begin, listed, docker, known, base
  <2>2. IsSearches(begun) /\ DOMAIN begun.known = DOMAIN s.searches.known \cup {s.searches.next}
    BY StateParts, StartDiscoveryOK
  <2> HIDE DEF listed, begun
  <2>3. /\ DOMAIN t = DOMAIN known /\ t.roots = known.roots
        /\ t.rules = known.rules /\ t.searches = begun
        /\ DOMAIN t.cleaner = DOMAIN known.cleaner
        /\ t.cleaner.candidates = known.cleaner.candidates
        /\ t.cleaner.next = known.cleaner.next /\ t.cleaner.known = known.cleaner.known
        /\ t.cleaner.search = s.searches.next
    BY <1>4, <1>5, <2>1
  <2>4. IsList(t.cleaner)
    BY <1>3, <1>4, <2>3, DockerOnly
  <2>5. IsState(t)
    BY <1>4, <2>2, <2>3, <2>4 DEF IsState
  <2> QED BY <2>3, <2>5 DEF begun
<1> QED BY <1>7, <1>8

(* What Docker answers. *)
LEMMA AddImageOK ==
  ASSUME scenario \in Scenarios, NEW s, IsState(s), s.cleaner.docker = "available",
         NEW image \in ToSet(Images), NEW used \in scenario.used,
         \A y \in Elements(s.cleaner.candidates) : y.path # image,
         NEW t, t = AddImage(s, image, used)
  PROVE  /\ IsState(t) /\ Grows(s.cleaner, t.cleaner) /\ Beside(s, t)
         /\ t.cleaner.docker = s.cleaner.docker
         /\ \A y \in Elements(t.cleaner.candidates) :
              y.path = image \/ y \in Elements(s.cleaner.candidates)
<1> DEFINE c == s.cleaner
           d == t.cleaner
           prot == image \in used \cup s.rules
           x == [Candidate(c, ImageAs, 1, prot) EXCEPT !.path = image]
<1>1. /\ DOMAIN s = {"cleaner", "roots", "rules", "searches", "enabled"}
      /\ IsList(c) /\ IsRoots(s.roots) /\ IsSearches(s.searches)
      /\ c.search \in DOMAIN s.searches.known \cup {NoSearch}
      /\ Shielded => s.rules = scenario.protected
      /\ c.candidates \in Seq(Candidates) /\ c.next \in Nat \ {0}
      /\ DOMAIN c = {"candidates", "next", "known", "search", "docker"}
      /\ c.known \subseteq Entry
  BY StateParts
<1>2. t = [s EXCEPT !.cleaner = WithCandidate(c, x)]
  BY Zenon DEF AddImage
<1>3. /\ DOMAIN t = DOMAIN s /\ d = WithCandidate(c, x) /\ t.roots = s.roots
      /\ t.searches = s.searches /\ t.rules = s.rules /\ t.enabled = s.enabled
  <2> HIDE DEF x
  <2> QED BY <1>1, <1>2
<1>4. /\ DOMAIN d = DOMAIN c /\ d.candidates = Append(c.candidates, x) /\ d.next = c.next + 1
      /\ d.known = c.known /\ d.docker = c.docker /\ d.search = c.search
  <2> HIDE DEF x, c
  <2> QED BY <1>1, <1>3 DEF WithCandidate
<1>5. /\ ImageAs.what = "external" /\ ImageAs.path = NoPath /\ ImageAs.default \in BOOLEAN
      /\ ImageAs.category \in {k.category : k \in Target}
  <2>1. ImageAs \in Target
    BY DEF Target
  <2> QED BY <2>1, TargetAssumption
<1>6. image \in ToSet(Images) /\ image \notin Entry /\ image # NoPath
  BY TargetAssumption
<1>7. /\ x.id = c.next /\ x.path = image /\ x.what = "external" /\ x.protected = prot
      /\ x.selected = (ImageAs.default /\ ~prot) /\ x.node = FALSE
  BY <1>5 DEF Candidate
<1>8. x \in Candidates
  <2>1. 1 \in Nat /\ c.next \in Nat /\ image \in Paths /\ NoPath \in Paths
    BY <1>1 DEF Paths
  <2> DEFINE y == Candidate(c, ImageAs, 1, prot)
  <2>2. y \in Candidates
    <3> HIDE DEF c, prot
    <3>1. prot \in BOOLEAN
      BY DEF prot
    <3> QED BY <1>5, <2>1, <3>1 DEF Candidate, Candidates, Way
  <2> HIDE DEF y
  <2>3. [y EXCEPT !.path = image] \in Candidates
    BY <2>1, <2>2 DEF Candidates
  <2> QED BY <2>3 DEF y
<1>9. InList(d, x)
  <2>1. x.id < d.next
    BY <1>1, <1>4, <1>7
  <2>2. Shielded /\ Guarded(x) => x.protected
    <3> SUFFICES ASSUME Shielded, Guarded(x)
                 PROVE  prot
      BY <1>7
    <3>1. x.path = image /\ x.node = FALSE
      BY <1>7
    <3> HIDE DEF x
    <3>2. CASE image \in scenario.protected
      BY <1>1, <3>2
    <3>3. CASE Cardinality(scenario.used) = 1 /\ image \in UNION scenario.used
      <4>1. IsFiniteSet(scenario.used)
        <5>1. IsFiniteSet(ToSet(Images))
          <6>1. Images \in Seq(ToSet(Images))
            BY TargetAssumption
          <6>2. ToSet(Images) = Elements(Images)
            BY DEF ToSet, Elements
          <6> QED BY <6>1, <6>2, ElementsFinite
        <5>2. IsFiniteSet(SUBSET ToSet(Images))
          BY <5>1, FS_SUBSET
        <5>3. scenario.used \subseteq SUBSET ToSet(Images)
          BY OperationsAssumption
        <5> QED BY <5>2, <5>3, FS_Subset
      <4>2. PICK u : scenario.used = {u}
        BY <3>3, <4>1, FS_Singleton
      <4> QED BY <3>3, <4>2
    <3> QED BY <3>1, <3>2, <3>3 DEF Guarded
  <2>3. (x.path \in Entry => x.path \in d.known) /\ d.docker = "available"
    BY <1>4, <1>6, <1>7
  <2>4. (x.what # "external" => x.path \in Entry) /\ (x.node => x.path \in Entry)
    BY <1>7
  <2>5. x.selected => ~x.protected
    BY <1>7
  <2> HIDE DEF x, d
  <2> QED BY <2>1, <2>2, <2>3, <2>4, <2>5 DEF InList
<1>10. \A y \in Elements(c.candidates) : x.path # NoPath => y.path # x.path
  BY <1>7
<1> HIDE DEF x, d, c, prot
<1>11. IsList(d) /\ Grows(c, d) /\ Elements(d.candidates) = Elements(c.candidates) \cup {x}
  BY ZenonT(60), <1>1, <1>4, <1>7, <1>8, <1>9, <1>10, ListWithOneMore
<1> QED BY <1>1, <1>3, <1>4, <1>7, <1>11 DEF IsState, Beside, c, d

ImageOp(p, t, i) == AddImage(t, p.images[i], p.used)
ImageGood(p, s, t) ==
  /\ IsState(t) /\ Grows(p.state.cleaner, t.cleaner) /\ Beside(p.state, t)
  /\ t.cleaner.docker = "available"
  /\ \A y \in Elements(t.cleaner.candidates) :
       y.path \in ToSet(Images) => \E i \in s : y.path = p.images[i]
ImageFold == INSTANCE FoldLemmas WITH Op <- ImageOp, Pick <- PickLast, Good <- ImageGood

LEMMA AddImagesOK ==
  ASSUME scenario \in Scenarios, NEW s, IsState(s), s.cleaner.docker = "available",
         \A y \in Elements(s.cleaner.candidates) : y.path \notin ToSet(Images),
         NEW images \in Seq(ToSet(Images)), Distinct(images), NEW used \in scenario.used,
         NEW p, p = [images |-> images, used |-> used, state |-> s],
         NEW t, t = ImageFold!Fold(p, s, DOMAIN images)
  PROVE  IsState(t) /\ Grows(s.cleaner, t.cleaner) /\ Beside(s, t)
<1> DEFINE D == DOMAIN images
<1>1. /\ IsFiniteSet(D) /\ \A k \in SUBSET D : k # {} => PickLast(k) \in k
      /\ D = 1 .. Len(images) /\ Len(images) \in Nat
  BY SequenceInductive
<1>2. \A i \in D : images[i] \in ToSet(Images)
  BY <1>1
<1>3. ImageFold!Inductive(D)
  BY ZenonT(40), <1>1, FiniteInductive DEF ImageFold!Inductive
<1>4. p.images = images /\ p.used = used /\ p.state = s
  OBVIOUS
<1>5. \A i, j \in D : images[i] = images[j] => i = j
  BY DEF Distinct
<1> HIDE DEF D
<1>6. ImageGood(p, {}, s)
  <2>1. Grows(s.cleaner, s.cleaner)
    BY StateParts, GrowsFromItself
  <2> QED BY <1>4, <2>1 DEF ImageGood, Beside
<1>7. ASSUME NEW k \in SUBSET D, k # {}, NEW a, ImageGood(p, k \ {PickLast(k)}, a)
      PROVE  ImageGood(p, k, ImageOp(p, a, PickLast(k)))
  <2> DEFINE l == PickLast(k)
             x == images[l]
             b == AddImage(a, x, used)
  <2>1. l \in k /\ l \in D /\ x \in ToSet(Images)
    BY <1>1, <1>2, <1>7
  <2>2. /\ IsState(a) /\ Grows(s.cleaner, a.cleaner) /\ Beside(s, a)
        /\ a.cleaner.docker = "available"
        /\ \A y \in Elements(a.cleaner.candidates) :
             y.path \in ToSet(Images) => \E i \in k \ {l} : y.path = images[i]
    BY <1>4, <1>7 DEF ImageGood
  <2>3. \A y \in Elements(a.cleaner.candidates) : y.path # x
    BY <1>5, <2>1, <2>2
  <2>4. ImageOp(p, a, PickLast(k)) = b
    BY <1>4 DEF ImageOp
  <2> HIDE DEF l, x
  <2>5. /\ IsState(b) /\ Grows(a.cleaner, b.cleaner) /\ Beside(a, b)
        /\ b.cleaner.docker = a.cleaner.docker
        /\ \A y \in Elements(b.cleaner.candidates) :
             y.path = x \/ y \in Elements(a.cleaner.candidates)
    BY <2>1, <2>2, <2>3, AddImageOK
  <2> HIDE DEF b
  <2>6. IsList(s.cleaner) /\ IsList(a.cleaner) /\ IsList(b.cleaner)
    BY <2>2, <2>5, StateParts
  <2>7. Grows(s.cleaner, b.cleaner)
    BY <2>2, <2>5, <2>6, GrowsOn
  <2>8. Beside(s, b)
    BY <2>2, <2>5, BesideOn
  <2>9. \A y \in Elements(b.cleaner.candidates) :
          y.path \in ToSet(Images) => \E i \in k : y.path = images[i]
    BY <2>1, <2>2, <2>5 DEF x
  <2> QED BY <1>4, <2>2, <2>4, <2>5, <2>7, <2>8, <2>9 DEF ImageGood
<1>8. ImageGood(p, D, ImageFold!Fold(p, s, D))
  BY <1>1, <1>3, <1>6, <1>7, ImageFold!FoldKeeps
<1> QED BY <1>4, <1>8 DEF ImageGood, D

LEMMA AddListed ==
  ASSUME NEW s, NEW images, NEW used
  PROVE  FoldLeft(LAMBDA t, i : AddImage(t, i, used), s, images)
           = ImageFold!Fold([images |-> images, used |-> used, state |-> s], s, DOMAIN images)
BY ZenonT(60) DEF FoldLeft, MapThenFoldSet, ImageFold!Fold, ImageFold!Step, ImageOp, PickLast, Max

LEMMA NothingElse ==
  ASSUME NEW s, IsState(s)
  PROVE  Grows(s.cleaner, s.cleaner) /\ Beside(s, s)
BY StateParts, GrowsFromItself DEF Beside

LEMMA AbsorbInventoryOK ==
  ASSUME scenario \in Scenarios, NEW s, IsState(s), NEW inv,
         inv.status = "available" => inv.used \in scenario.used,
         inv.status \in {"pending", "unavailable", "available"},
         NEW t, t = AbsorbInventory(s, inv)
  PROVE  IsState(t) /\ Grows(s.cleaner, t.cleaner) /\ Beside(s, t)
<1> DEFINE base == [s EXCEPT !.cleaner.docker = "available"]
           images == IF ImageAs.category \in s.enabled THEN Images ELSE <<>>
           listed == FoldLeft(LAMBDA a, i : AddImage(a, i, inv.used), base, images)
           ks == Retain(Prunes, {k \in Elements(Prunes) : k.category \in s.enabled})
<1>1. CASE s.cleaner.docker # "checking" \/ inv.status = "pending"
  <2>1. t = s
    BY <1>1, Zenon DEF AbsorbInventory
  <2> QED BY <2>1, NothingElse
<1>2. ASSUME s.cleaner.docker = "checking", NEW answer, NEW u, u = [s EXCEPT !.cleaner.docker = answer]
      PROVE  /\ IsState(u) /\ Grows(s.cleaner, u.cleaner) /\ Beside(s, u)
             /\ u.cleaner.docker = answer /\ u.cleaner.candidates = s.cleaner.candidates
  <2>1. /\ DOMAIN s = {"cleaner", "roots", "rules", "searches", "enabled"}
        /\ IsList(s.cleaner) /\ IsRoots(s.roots) /\ IsSearches(s.searches)
        /\ s.cleaner.search \in DOMAIN s.searches.known \cup {NoSearch}
        /\ Shielded => s.rules = scenario.protected
        /\ DOMAIN s.cleaner = {"candidates", "next", "known", "search", "docker"}
    BY StateParts
  <2>2. /\ DOMAIN u = DOMAIN s /\ u.roots = s.roots
        /\ u.rules = s.rules /\ u.searches = s.searches /\ u.enabled = s.enabled
        /\ DOMAIN u.cleaner = DOMAIN s.cleaner
        /\ u.cleaner.candidates = s.cleaner.candidates
        /\ u.cleaner.next = s.cleaner.next /\ u.cleaner.known = s.cleaner.known
        /\ u.cleaner.search = s.cleaner.search /\ u.cleaner.docker = answer
    BY <1>2, <2>1
  <2>3. IsList(u.cleaner) /\ Grows(s.cleaner, u.cleaner)
    BY <1>2, <2>1, <2>2, DockerOnly
  <2> QED BY <2>1, <2>2, <2>3 DEF IsState, Beside
<1>3. CASE s.cleaner.docker = "checking" /\ inv.status = "unavailable"
  <2>1. t = [s EXCEPT !.cleaner.docker = "unavailable"]
    BY <1>3, Zenon DEF AbsorbInventory
  <2> QED BY <1>2, <1>3, <2>1
<1>4. CASE s.cleaner.docker = "checking" /\ inv.status = "available"
  <2>1. t = FoldLeft(AddCandidate, listed, ks)
    <3>1. inv.status # "pending" /\ inv.status # "unavailable"
      BY <1>4
    <3> QED BY <1>4, <3>1, Zenon DEF AbsorbInventory
  <2>2. /\ IsState(base) /\ Grows(s.cleaner, base.cleaner) /\ Beside(s, base)
        /\ base.cleaner.docker = "available" /\ base.cleaner.candidates = s.cleaner.candidates
    BY <1>2, <1>4
  <2> HIDE DEF base
  <2>3. listed = ImageFold!Fold([images |-> images, used |-> inv.used, state |-> base], base, DOMAIN images)
    BY AddListed
  <2>4. images \in Seq(ToSet(Images)) /\ Distinct(images)
    <3>1. Images \in Seq(ToSet(Images)) /\ Distinct(Images)
      BY TargetAssumption
    <3>2. <<>> \in Seq(ToSet(Images)) /\ Distinct(<<>>)
      BY DEF Distinct
    <3> QED BY <3>1, <3>2
  <2>5. \A y \in Elements(base.cleaner.candidates) : y.path \notin ToSet(Images)
    <3> SUFFICES ASSUME NEW y \in Elements(s.cleaner.candidates), y.path \in ToSet(Images)
                 PROVE  FALSE
      BY <2>2
    <3>1. InList(s.cleaner, y)
      BY StateParts, MemberTypes
    <3> QED BY <1>4, <3>1 DEF InList
  <2> HIDE DEF images, listed
  <2>6. inv.used \in scenario.used
    BY <1>4
  <2>7. IsState(listed) /\ Grows(base.cleaner, listed.cleaner) /\ Beside(base, listed)
    BY <2>2, <2>3, <2>4, <2>5, <2>6, AddImagesOK
  <2>8. PICK S : ks \in Seq(S) /\ \A k \in S : IsTarget(k)
    <3> DEFINE X == {k \in Elements(Prunes) : k.category \in s.enabled}
    <3> HIDE DEF X
    <3>1. \E S : Retain(Prunes, X) \in Seq(S) /\ \A k \in S : IsTarget(k)
      BY TargetsRetained
    <3> QED BY <3>1 DEF X
  <2> HIDE DEF ks
  <2>9. t = ManyFold!Fold([of |-> ks, state |-> listed], listed, DOMAIN ks)
    BY <2>1, AddRetained
  <2>10. IsState(t) /\ Grows(listed.cleaner, t.cleaner) /\ Beside(listed, t)
    BY <2>7, <2>8, <2>9, AddManyOK
  <2>11. IsList(s.cleaner) /\ IsList(base.cleaner) /\ IsList(listed.cleaner) /\ IsList(t.cleaner)
    BY <2>2, <2>7, <2>10, StateParts
  <2>12. Grows(s.cleaner, listed.cleaner) /\ Beside(s, listed)
    BY <2>2, <2>7, <2>11, GrowsOn, BesideOn
  <2>13. Grows(s.cleaner, t.cleaner) /\ Beside(s, t)
    BY <2>10, <2>11, <2>12, GrowsOn, BesideOn
  <2> QED BY <2>10, <2>13
<1> QED BY <1>1, <1>3, <1>4

(* The sizes of a set of entries. *)
WeightOp(p, a, x) == Weight[x] + a
WeightGood(p, s, a) == a \in Nat
WeightFold == INSTANCE FoldLemmas WITH Op <- WeightOp, Pick <- PickAny, Good <- WeightGood

WeightOf(A) == MapThenSumSet(LAMBDA e : Weight[e], A)

LEMMA WeightIsNat ==
  ASSUME NEW A \in SUBSET Entry
  PROVE  WeightOf(A) \in Nat
<1> DEFINE a == WeightOf(A)
<1>1. a = WeightFold!Fold(0, 0, A)
  BY Zenon DEF WeightOf, MapThenSumSet, MapThenFoldSet, WeightFold!Fold, WeightFold!Step, WeightOp, PickAny
<1> HIDE DEF a
<1>2. \A s \in SUBSET A : s # {} => PickAny(s) \in s
  BY Zenon DEF PickAny
<1>3. WeightGood(0, {}, 0)
  BY DEF WeightGood
<1>4. \A x \in A : Weight[x] \in Nat
  BY RemovalAssumption
<1>5. \A s \in SUBSET A : s # {} =>
        \A b : WeightGood(0, s \ {PickAny(s)}, b) => WeightGood(0, s, WeightOp(0, b, PickAny(s)))
  BY <1>2, <1>4 DEF WeightGood, WeightOp
<1>6. IsFiniteSet(A)
  BY RemovalAssumption, FS_Subset
<1>7. WeightFold!Inductive(A)
  BY <1>6, FiniteInductive DEF WeightFold!Inductive
<1>8. WeightGood(0, A, WeightFold!Fold(0, 0, A))
  BY <1>2, <1>3, <1>5, <1>7, WeightFold!FoldKeeps
<1> QED BY <1>1, <1>8 DEF WeightGood, a

LEMMA IsSequence ==
  ASSUME NEW S, NEW n \in Nat, NEW g \in [1 .. n -> S]
  PROVE  g \in Seq(S)
OBVIOUS

LEMMA SizedOK ==
  ASSUME NEW s, IsState(s), NEW t, t = Sized(s)
  PROVE  IsState(t) /\ Grows(s.cleaner, t.cleaner) /\ Beside(s, t)
<1> DEFINE c == s.cleaner
           g == [i \in DOMAIN c.candidates |-> Measured(s.roots, c.candidates[i])]
<1>1. /\ DOMAIN s = {"cleaner", "roots", "rules", "searches", "enabled"}
      /\ IsList(c) /\ IsRoots(s.roots) /\ IsSearches(s.searches)
      /\ c.search \in DOMAIN s.searches.known \cup {NoSearch}
      /\ Shielded => s.rules = scenario.protected
      /\ c.candidates \in Seq(Candidates)
      /\ DOMAIN c = {"candidates", "next", "known", "search", "docker"}
  BY StateParts
<1>2. ASSUME NEW i \in DOMAIN c.candidates
      PROVE  LET x == c.candidates[i]
                 y == Measured(s.roots, x)
             IN  /\ y \in Candidates /\ y.id = x.id /\ y.path = x.path /\ y.what = x.what
                 /\ y.node = x.node /\ y.protected = x.protected /\ (y.selected => ~y.protected)
  <2> DEFINE x == c.candidates[i]
             y == Measured(s.roots, x)
  <2>1. x \in Elements(c.candidates)
    BY DEF Elements
  <2>2. x \in Candidates /\ InList(c, x)
    BY <1>1, <2>1, MemberTypes
  <2>3. x.selected => ~x.protected
    BY <2>2 DEF InList
  <2> HIDE DEF x
  <2>4. CASE x.node /\ x.path \in DOMAIN s.roots
    <3> DEFINE w == WeightOf(s.roots[x.path].counted)
    <3>1. y = [x EXCEPT !.size = w]
      BY <2>4 DEF Measured, WeightOf
    <3>2. s.roots[x.path].counted \in SUBSET Entry
      BY <1>1, <2>4 DEF IsRoots
    <3>3. w \in Nat
      BY <3>2, WeightIsNat
    <3> HIDE DEF w, y
    <3> QED BY <2>2, <2>3, <3>1, <3>3 DEF Candidates, x, y
  <2>5. CASE ~(x.node /\ x.path \in DOMAIN s.roots)
    <3>1. y = x
      BY <2>5 DEF Measured
    <3> QED BY <2>2, <2>3, <3>1 DEF x
  <2> QED BY <2>4, <2>5
<1>3. t = [s EXCEPT !.cleaner.candidates = g]
  BY DEF Sized
<1>4. DOMAIN g = DOMAIN c.candidates
  OBVIOUS
<1>5. \A i \in DOMAIN g :
        /\ g[i] \in Candidates
        /\ g[i].id = c.candidates[i].id /\ g[i].path = c.candidates[i].path
        /\ g[i].what = c.candidates[i].what /\ g[i].node = c.candidates[i].node
        /\ g[i].protected = c.candidates[i].protected
        /\ (g[i].selected => ~g[i].protected)
  BY <1>2
<1>6. g \in Seq(Candidates)
  <2>1. DOMAIN c.candidates = 1 .. Len(c.candidates) /\ Len(c.candidates) \in Nat
    BY <1>1
  <2>2. g = [i \in 1 .. Len(c.candidates) |-> g[i]]
    BY <2>1
  <2> HIDE DEF g
  <2>3. \A i \in 1 .. Len(c.candidates) : g[i] \in Candidates
    BY <1>4, <1>5, <2>1
  <2>4. g \in [1 .. Len(c.candidates) -> Candidates]
    BY <2>2, <2>3
  <2> QED BY <2>1, <2>4, IsSequence
<1> HIDE DEF g
<1>7. /\ DOMAIN t = DOMAIN s /\ t.cleaner = [c EXCEPT !.candidates = g] /\ t.roots = s.roots
      /\ t.searches = s.searches /\ t.rules = s.rules /\ t.enabled = s.enabled
  BY <1>1, <1>3
<1> HIDE DEF c
<1>8. IsList(t.cleaner) /\ Grows(c, t.cleaner)
  BY <1>1, <1>4, <1>5, <1>6, <1>7, ListChanged
<1>9. t.cleaner.search = c.search
  BY <1>1, <1>7
<1> QED BY <1>1, <1>7, <1>8, <1>9 DEF IsState, Beside, c

-----------------------------------------------------------------------------
(* A tick: what was discovered is listed. *)

LEMMA TakeDiscoveredOK ==
  ASSUME NEW s, IsSearches(s), NEW q, NEW t, t = TakeDiscovered(s, q)
  PROVE  IsSearches(t) /\ DOMAIN t.known = DOMAIN s.known
<1>1. CASE q \notin DOMAIN s.known
  BY <1>1 DEF TakeDiscovered
<1>2. CASE q \in DOMAIN s.known
  <2> DEFINE r == s.known[q]
             n == Len(r.found)
             u == [r EXCEPT !.consumed = n]
  <2>1. r \in SearchRecords /\ n \in Nat
    BY <1>2 DEF IsSearches, SearchRecords
  <2>2. t = [s EXCEPT !.known[q].consumed = n]
    BY <1>2 DEF TakeDiscovered
  <2>3. u \in SearchRecords
    <3> HIDE DEF n
    <3> QED BY <2>1 DEF SearchRecords
  <2>4. /\ DOMAIN t = DOMAIN s /\ t.next = s.next /\ t.tasks = s.tasks
        /\ t.known = [s.known EXCEPT ![q] = u]
    BY <2>2 DEF IsSearches
  <2> HIDE DEF u
  <2> QED BY <2>3, <2>4 DEF IsSearches
<1> QED BY <1>1, <1>2

LEMMA FreshPlaces ==
  ASSUME NEW s, IsSearches(s), NEW q
  PROVE  Fresh(s, q) \in Seq(Place)
<1>1. CASE q \notin DOMAIN s.known
  BY <1>1 DEF Fresh
<1>2. CASE q \in DOMAIN s.known
  <2> DEFINE f == s.known[q].found
             n == s.known[q].consumed
  <2>1. f \in Seq(Place) /\ n \in Nat
    BY <1>2 DEF IsSearches, SearchRecords
  <2>2. Fresh(s, q) = SubSeq(f, n + 1, Len(f))
    BY <1>2 DEF Fresh
  <2> HIDE DEF f, n
  <2>3. Len(f) \in Nat /\ \A i \in (n + 1) .. Len(f) : f[i] \in Place
    BY <2>1
  <2>4. SubSeq(f, n + 1, Len(f)) \in Seq(Place)
    BY <2>1, <2>3
  <2> QED BY <2>2, <2>4
<1> QED BY <1>1, <1>2

LEMMA UpdateOK ==
  ASSUME scenario \in Scenarios, NEW s, IsState(s), NEW inv,
         inv.status = "available" => inv.used \in scenario.used,
         inv.status \in {"pending", "unavailable", "available"},
         NEW t, t = Update(s, inv)
  PROVE  /\ IsState(t) /\ Grows(s.cleaner, t.cleaner)
         /\ t.searches = TakeDiscovered(s.searches, s.cleaner.search)
<1> DEFINE q == s.cleaner.search
           fresh == Fresh(s.searches, q)
           ks == [i \in DOMAIN fresh |-> [FoundAs EXCEPT !.path = fresh[i]]]
           S == {[FoundAs EXCEPT !.path = p] : p \in Place}
           taken == TakeDiscovered(s.searches, q)
           u == [s EXCEPT !.searches = taken]
           found == FoldLeft(AddCandidate, u, ks)
           absorbed == AbsorbInventory(found, inv)
<1>1. t = Sized(absorbed)
  BY DEF Update
<1>2. IsList(s.cleaner) /\ IsSearches(s.searches) /\ q \in DOMAIN s.searches.known \cup {NoSearch}
  BY StateParts
<1>3. IsSearches(taken) /\ DOMAIN taken.known = DOMAIN s.searches.known
  <2> DEFINE a == s.searches
  <2> HIDE DEF q, a
  <2>1. IsSearches(a)
    BY <1>2 DEF a
  <2> QED BY <2>1, TakeDiscoveredOK DEF a
<1>4. fresh \in Seq(Place)
  BY <1>2, FreshPlaces
<1>5. ks \in Seq(S)
  <2>1. DOMAIN fresh = 1 .. Len(fresh) /\ Len(fresh) \in Nat /\ \A i \in 1 .. Len(fresh) : fresh[i] \in Place
    BY <1>4
  <2> HIDE DEF fresh
  <2>2. ks \in [1 .. Len(fresh) -> S]
    BY <2>1
  <2> HIDE DEF ks, S
  <2> QED BY <2>1, <2>2, IsSequence
<1>6. \A k \in S : IsTarget(k)
  BY FoundIsTarget
<1> HIDE DEF taken, fresh, ks, S
<1>7. /\ DOMAIN u = DOMAIN s /\ u.cleaner = s.cleaner /\ u.roots = s.roots /\ u.searches = taken
      /\ u.rules = s.rules /\ u.enabled = s.enabled
  <2>1. DOMAIN s = {"cleaner", "roots", "rules", "searches", "enabled"}
    BY DEF IsState
  <2> QED BY <2>1
<1>8. IsState(u) /\ Grows(s.cleaner, u.cleaner)
  <2>1. Grows(s.cleaner, s.cleaner)
    BY <1>2, GrowsFromItself
  <2> HIDE DEF u
  <2> QED BY <1>2, <1>3, <1>7, <2>1 DEF IsState, q
<1> HIDE DEF u
<1>9. IsState(found) /\ Grows(u.cleaner, found.cleaner) /\ Beside(u, found)
  <2> DEFINE p == [of |-> ks, state |-> u]
  <2>1. found = ManyFold!Fold(p, u, DOMAIN ks)
    BY AddRetained
  <2> HIDE DEF p, found
  <2>2. p = [of |-> ks, state |-> u]
    BY DEF p
  <2> QED BY <1>5, <1>6, <1>8, <2>1, <2>2, AddManyOK
<1> HIDE DEF found
<1>10. IsState(absorbed) /\ Grows(found.cleaner, absorbed.cleaner) /\ Beside(found, absorbed)
  <2> HIDE DEF absorbed
  <2>1. absorbed = AbsorbInventory(found, inv)
    BY DEF absorbed
  <2> QED BY <1>9, <2>1, AbsorbInventoryOK
<1> HIDE DEF absorbed
<1>11. IsState(t) /\ Grows(absorbed.cleaner, t.cleaner) /\ Beside(absorbed, t)
  BY <1>1, <1>10, SizedOK
<1>12. /\ IsList(u.cleaner) /\ IsList(found.cleaner)
       /\ IsList(absorbed.cleaner) /\ IsList(t.cleaner)
  BY <1>8, <1>9, <1>10, <1>11 DEF IsState
<1>13. Grows(s.cleaner, found.cleaner)
  BY <1>2, <1>8, <1>9, <1>12, GrowsOn
<1>14. Grows(s.cleaner, absorbed.cleaner)
  BY <1>2, <1>10, <1>12, <1>13, GrowsOn
<1>15. Grows(s.cleaner, t.cleaner)
  BY <1>2, <1>11, <1>12, <1>14, GrowsOn
<1>16. t.searches = taken
  BY <1>7, <1>9, <1>10, <1>11 DEF Beside
<1> QED BY <1>11, <1>15, <1>16 DEF taken, q

-----------------------------------------------------------------------------
(* Selecting targets, and what a report takes off the list. *)

LEMMA WithSelectionOK ==
  ASSUME NEW c, IsList(c), NEW ids, NEW on, on \in BOOLEAN, NEW d, d = WithSelection(c, ids, on)
  PROVE  IsList(d) /\ Grows(c, d) /\ d.search = c.search
<1> DEFINE select(x) == IF x.id \in ids /\ ~x.protected THEN [x EXCEPT !.selected = on] ELSE x
           g == [i \in DOMAIN c.candidates |-> select(c.candidates[i])]
<1>1. d = [c EXCEPT !.candidates = g]
  BY DEF WithSelection
<1>2. c.candidates \in Seq(Candidates)
  BY DEF IsList
<1>3. ASSUME NEW i \in DOMAIN c.candidates
      PROVE  LET x == c.candidates[i]
                 y == select(x)
             IN  /\ y \in Candidates /\ y.id = x.id /\ y.path = x.path /\ y.what = x.what
                 /\ y.node = x.node /\ y.protected = x.protected /\ (y.selected => ~y.protected)
  <2> DEFINE x == c.candidates[i]
             y == select(x)
  <2>1. x \in Elements(c.candidates)
    BY DEF Elements
  <2>2. x \in Candidates /\ InList(c, x)
    BY <2>1, MemberTypes
  <2>3. x.selected => ~x.protected
    BY <2>2 DEF InList
  <2> HIDE DEF x
  <2>4. CASE x.id \in ids /\ ~x.protected
    <3>1. y = [x EXCEPT !.selected = on]
      BY <2>4
    <3> HIDE DEF y
    <3> QED BY <2>2, <2>4, <3>1 DEF Candidates, x, y
  <2>5. CASE ~(x.id \in ids /\ ~x.protected)
    <3>1. y = x
      BY <2>5
    <3> HIDE DEF y
    <3> QED BY <2>2, <2>3, <3>1 DEF x, y
  <2> QED BY <2>4, <2>5
<1>4. DOMAIN g = DOMAIN c.candidates
  OBVIOUS
<1>5. \A i \in DOMAIN g :
        /\ g[i] \in Candidates
        /\ g[i].id = c.candidates[i].id /\ g[i].path = c.candidates[i].path
        /\ g[i].what = c.candidates[i].what /\ g[i].node = c.candidates[i].node
        /\ g[i].protected = c.candidates[i].protected
        /\ (g[i].selected => ~g[i].protected)
  BY <1>3
<1>6. g \in Seq(Candidates)
  <2>1. DOMAIN c.candidates = 1 .. Len(c.candidates) /\ Len(c.candidates) \in Nat
    BY <1>2
  <2>2. g = [i \in 1 .. Len(c.candidates) |-> g[i]]
    BY <2>1
  <2> HIDE DEF g
  <2>3. \A i \in 1 .. Len(c.candidates) : g[i] \in Candidates
    BY <1>4, <1>5, <2>1
  <2>4. g \in [1 .. Len(c.candidates) -> Candidates]
    BY <2>2, <2>3
  <2> QED BY <2>1, <2>4, IsSequence
<1> HIDE DEF g
<1>7. d.search = c.search
  BY <1>1 DEF IsList
<1> QED BY <1>1, <1>4, <1>5, <1>6, <1>7, ListChanged

LEMMA SelectionsOK ==
  ASSUME NEW c, IsList(c), NEW id, NEW category, NEW on, on \in BOOLEAN, NEW d,
         \/ d = Toggle(c, id) \/ d = ToggleCategory(c, category) \/ d = SetAll(c, on)
  PROVE  IsList(d) /\ Grows(c, d) /\ d.search = c.search
<1>1. \E ids : d = WithSelection(c, ids, TRUE) \/ d = WithSelection(c, ids, FALSE)
  <2>1. CASE d = Toggle(c, id)
    <3>1. d = WithSelection(c, {id}, TRUE) \/ d = WithSelection(c, {id}, FALSE)
      BY <2>1, Zenon DEF Toggle
    <3> QED BY <3>1
  <2>2. CASE d = ToggleCategory(c, category)
    <3> DEFINE of == {i \in DOMAIN c.candidates : c.candidates[i].category = category}
               any == \E i \in of : c.candidates[i].selected
               ids == {c.candidates[i].id : i \in of}
    <3>1. d = WithSelection(c, ids, ~any)
      BY <2>2 DEF ToggleCategory
    <3> HIDE DEF any, ids
    <3>2. d = WithSelection(c, ids, TRUE) \/ d = WithSelection(c, ids, FALSE)
      BY <3>1, Zenon
    <3> QED BY <3>2
  <2>3. CASE d = SetAll(c, on)
    <3>1. d = WithSelection(c, Ids(c), on)
      BY <2>3 DEF SetAll
    <3>2. on = TRUE \/ on = FALSE
      OBVIOUS
    <3> QED BY <3>1, <3>2
  <2> QED BY <2>1, <2>2, <2>3
<1>2. PICK ids : d = WithSelection(c, ids, TRUE) \/ d = WithSelection(c, ids, FALSE)
  BY <1>1
<1>3. CASE d = WithSelection(c, ids, TRUE)
  BY <1>3, WithSelectionOK
<1>4. CASE d = WithSelection(c, ids, FALSE)
  BY <1>4, WithSelectionOK
<1> QED BY <1>2, <1>3, <1>4

LEMMA AbsorbReportOK ==
  ASSUME NEW s, IsState(s), NEW outcomes, NEW t, t = AbsorbReport(s, outcomes)
  PROVE  IsState(t) /\ Grows(s.cleaner, t.cleaner) /\ t.searches = s.searches
<1> DEFINE cleaned == {outcomes[i].item.id : i \in {k \in DOMAIN outcomes : outcomes[k].status = "removed"}}
           partly == {outcomes[i].item.id : i \in {k \in DOMAIN outcomes :
                        outcomes[k].status # "removed" /\ outcomes[k].entries > 0}}
           PathsOf(ids) == {s.cleaner.candidates[i].path :
                              i \in {k \in DOMAIN s.cleaner.candidates :
                                       s.cleaner.candidates[k].node /\ s.cleaner.candidates[k].id \in ids}}
           A == PathsOf(cleaned)
           B == PathsOf(partly)
           X == {x \in Elements(s.cleaner.candidates) : x.id \notin cleaned}
           roots == [p \in DOMAIN s.roots \ A |->
                       IF p \in B THEN [counted |-> {}, busy |-> TRUE] ELSE s.roots[p]]
           c == [s.cleaner EXCEPT !.candidates = Retain(@, X)]
<1>1. /\ DOMAIN s = {"cleaner", "roots", "rules", "searches", "enabled"}
      /\ IsList(s.cleaner) /\ IsRoots(s.roots) /\ IsSearches(s.searches)
      /\ s.cleaner.search \in DOMAIN s.searches.known \cup {NoSearch}
      /\ Shielded => s.rules = scenario.protected
      /\ DOMAIN s.cleaner = {"candidates", "next", "known", "search", "docker"}
  BY StateParts
<1>2. t = [s EXCEPT !.roots = roots, !.cleaner.candidates = Retain(s.cleaner.candidates, X)]
  BY Zenon DEF AbsorbReport
<1> HIDE DEF A, B, X
<1>3. IsRoots(roots)
  <2>1. \A p \in DOMAIN roots : p \in DOMAIN s.roots /\ (roots[p] = s.roots[p] \/ roots[p] = [counted |-> {}, busy |-> TRUE])
    OBVIOUS
  <2>2. [counted |-> {}, busy |-> TRUE] \in [counted : SUBSET Entry, busy : BOOLEAN]
    OBVIOUS
  <2> HIDE DEF roots
  <2> QED BY <1>1, <2>1, <2>2 DEF IsRoots
<1> HIDE DEF roots
<1>4. /\ DOMAIN t = DOMAIN s /\ t.cleaner = c /\ t.roots = roots
      /\ t.searches = s.searches /\ t.rules = s.rules
  BY <1>1, <1>2
<1>5. c.search = s.cleaner.search
  BY <1>1
<1>6. IsList(c) /\ Grows(s.cleaner, c)
  <2>1. c = [s.cleaner EXCEPT !.candidates = Retain(@, X)]
    OBVIOUS
  <2> HIDE DEF c
  <2> QED BY <1>1, <2>1, ListRetained
<1> HIDE DEF c
<1> QED BY <1>1, <1>3, <1>4, <1>5, <1>6 DEF IsState

-----------------------------------------------------------------------------
(* ListInv, of the steps. *)

LEMMA StateBecomes ==
  ASSUME NEW t, IsState(t), list'.cleaner = t.cleaner, list'.roots = t.roots,
         list'.rules = t.rules, searches' = t.searches, scenario' = scenario
  PROVE  IsState(State)'
<1>2. /\ DOMAIN State' = {"cleaner", "roots", "rules", "searches", "enabled"}
      /\ State'.cleaner = t.cleaner /\ State'.roots = t.roots /\ State'.rules = t.rules
      /\ State'.searches = t.searches
  BY DEF State
<1>3. PICK u : u = State'
  OBVIOUS
<1>4. /\ DOMAIN u = {"cleaner", "roots", "rules", "searches", "enabled"}
      /\ u.cleaner = t.cleaner /\ u.roots = t.roots /\ u.rules = t.rules /\ u.searches = t.searches
  BY <1>2, <1>3
<1>5. IsState(u)
  BY <1>4 DEF IsState
<1>6. IsState(State)'
  BY <1>3, <1>5, scenario' = scenario DEF IsState, IsList, InList, Guarded, Shielded
<1> QED BY <1>6

LEMMA ListBecomes ==
  ASSUME NEW t, IsState(t), Becomes(t), scenario' = scenario
  PROVE  /\ DOMAIN list' = {"cleaner", "roots", "rules"} /\ list'.cleaner = t.cleaner
         /\ IsState(State)'
<1>1. /\ list' = [cleaner |-> t.cleaner, roots |-> t.roots, rules |-> t.rules]
      /\ searches' = t.searches
  BY DEF Becomes
<1> QED BY <1>1, StateBecomes

LEMMA ListStays ==
  ASSUME ListInv, UNCHANGED <<list, searches, scout, finds, inventory, scenario>>
  PROVE  ListInv' /\ list'.cleaner = list.cleaner
<1>1. State' = State
  BY DEF State
<1>2. IsState(State)
  BY DEF ListInv
<1>3. IsState(State)'
  BY <1>1, <1>2, scenario' = scenario DEF IsState, IsList, InList, Guarded, Shielded
<1> QED BY <1>3 DEF ListInv

LEMMA StateIsList ==
  ASSUME ListInv
  PROVE  /\ IsState(State) /\ State.cleaner = list.cleaner /\ IsList(list.cleaner)
         /\ IsRoots(list.roots) /\ IsSearches(searches)
         /\ list.cleaner.search \in DOMAIN searches.known \cup {NoSearch}
         /\ (Shielded => list.rules = scenario.protected)
<1>1. IsState(State)
  BY DEF ListInv
<1>2. /\ State.cleaner = list.cleaner /\ State.roots = list.roots /\ State.searches = searches
      /\ State.rules = list.rules
  BY DEF State
<1> QED BY <1>1, <1>2 DEF IsState

LEMMA SelectTargetsList ==
  ASSUME ListInv, SelectTargets
  PROVE  ListInv' /\ Grows(list.cleaner, list'.cleaner)
<1>1. PICK c \in {Toggle(list.cleaner, id) : id \in Ids(list.cleaner)}
                  \cup {ToggleCategory(list.cleaner, category) : category \in scenario.enabled}
                  \cup {SetAll(list.cleaner, on) : on \in BOOLEAN} :
        list' = [list EXCEPT !.cleaner = c]
  BY DEF SelectTargets
<1>2. PICK id, category, on : on \in BOOLEAN
         /\ \/ c = Toggle(list.cleaner, id) \/ c = ToggleCategory(list.cleaner, category)
            \/ c = SetAll(list.cleaner, on)
  <2>1. TRUE \in BOOLEAN
    OBVIOUS
  <2>2. CASE c \in {Toggle(list.cleaner, id) : id \in Ids(list.cleaner)}
    BY <2>1, <2>2
  <2>3. CASE c \in {ToggleCategory(list.cleaner, category) : category \in scenario.enabled}
    BY <2>1, <2>3
  <2>4. CASE c \in {SetAll(list.cleaner, on) : on \in BOOLEAN}
    BY <2>4
  <2> QED BY <1>1, <2>2, <2>3, <2>4
<1>3. /\ IsState(State) /\ State.cleaner = list.cleaner /\ IsList(list.cleaner)
      /\ DOMAIN list = {"cleaner", "roots", "rules"}
  BY StateIsList DEF ListInv
<1>4. IsList(c) /\ Grows(list.cleaner, c) /\ c.search = list.cleaner.search
  BY <1>2, <1>3, SelectionsOK
<1>5. PICK t : t = [State EXCEPT !.cleaner = c]
  OBVIOUS
<1>6. /\ DOMAIN t = {"cleaner", "roots", "rules", "searches", "enabled"}
      /\ t.cleaner = c /\ t.roots = list.roots /\ t.rules = list.rules /\ t.searches = searches
      /\ t.enabled = scenario.enabled
  BY <1>5 DEF State
<1>7. IsState(t)
  BY <1>3, <1>4, <1>6 DEF IsState, State
<1>8. Becomes(t) /\ UNCHANGED <<searches, scout, finds, inventory, scenario>>
  <2>1. UNCHANGED <<searches, scout, finds, inventory, scenario>>
    BY DEF SelectTargets, Screen, Press, discoveryVars
  <2>2. list' = [cleaner |-> c, roots |-> list.roots, rules |-> list.rules]
    BY <1>1, <1>3
  <2> QED BY <1>6, <2>1, <2>2 DEF Becomes
<1>9. /\ DOMAIN list' = {"cleaner", "roots", "rules"} /\ list'.cleaner = c
      /\ IsState(State)'
  BY <1>6, <1>7, <1>8, ListBecomes
<1>10. ListInv'
  BY <1>8, <1>9 DEF ListInv
<1> QED BY <1>4, <1>9, <1>10

LEMMA RestartCleanerList ==
  ASSUME ListInv, scenario \in Scenarios, RestartCleaner
  PROVE  ListInv'
<1>1. Becomes(Begin(State)) /\ inventory' = NoAnswer /\ UNCHANGED <<scout, finds, scenario>>
  BY DEF RestartCleaner, Screen, Press
<1>2. PICK t : t = Begin(State)
  OBVIOUS
<1>3. IsState(t)
  <2>1. PICK s : s = State
    OBVIOUS
  <2>2. IsState(s) /\ t = Begin(s)
    BY <1>2, <2>1 DEF ListInv
  <2> QED BY <2>2, BeginOK
<1>4. DOMAIN list' = {"cleaner", "roots", "rules"} /\ IsState(State)'
  BY <1>1, <1>2, <1>3, ListBecomes
<1> QED BY <1>1, <1>4 DEF ListInv, NoAnswer

LEMMA ChangeRulesList ==
  ASSUME ListInv, ChangeRules
  PROVE  ListInv' /\ list'.cleaner = list.cleaner
<1>1. /\ "rules" \in scenario.may /\ list' = [list EXCEPT !.rules = scenario.rules]
      /\ UNCHANGED <<searches, scout, finds, inventory, scenario>>
  BY DEF ChangeRules, Screen, Press, discoveryVars
<1>2. ~Shielded
  BY <1>1 DEF Shielded
<1>3. IsState(State) /\ DOMAIN list = {"cleaner", "roots", "rules"}
  BY DEF ListInv
<1>4. PICK t : t = [State EXCEPT !.rules = scenario.rules]
  OBVIOUS
<1>5. /\ DOMAIN t = {"cleaner", "roots", "rules", "searches", "enabled"}
      /\ t.cleaner = list.cleaner /\ t.roots = list.roots /\ t.rules = scenario.rules
      /\ t.searches = searches
  BY <1>4 DEF State
<1>6. IsState(t)
  BY <1>2, <1>3, <1>5 DEF IsState, State
<1>7. Becomes(t)
  BY <1>1, <1>3, <1>5 DEF Becomes
<1>8. /\ DOMAIN list' = {"cleaner", "roots", "rules"} /\ list'.cleaner = list.cleaner
      /\ IsState(State)'
  BY <1>1, <1>5, <1>6, <1>7, ListBecomes
<1> QED BY <1>1, <1>8 DEF ListInv

LEMMA AnswerInventoryList ==
  ASSUME ListInv, AnswerInventory
  PROVE  ListInv' /\ list'.cleaner = list.cleaner
<1>1. UNCHANGED <<list, searches, scout, finds, scenario>>
  BY DEF AnswerInventory, discoveryVars, uiVars
<1>2. /\ inventory'.status \in {"pending", "unavailable", "available"}
      /\ inventory'.status = "available" => inventory'.used \in scenario.used
  <2>1. CASE inventory' \in {[status |-> "available", used |-> used] : used \in scenario.used}
    BY <2>1
  <2>2. CASE inventory' = [NoAnswer EXCEPT !.status = "unavailable"]
    BY <2>2 DEF NoAnswer
  <2> QED BY <2>1, <2>2 DEF AnswerInventory
<1>3. State' = State
  BY <1>1 DEF State
<1>4. IsState(State)'
  BY <1>1, <1>3 DEF ListInv, IsState, IsList, InList, Guarded, Shielded
<1> QED BY <1>1, <1>2, <1>4 DEF ListInv

LEMMA RunForegroundList ==
  ASSUME ListInv, RunForeground
  PROVE  ListInv' /\ Grows(list.cleaner, list'.cleaner)
<1>1. UNCHANGED <<scout, finds, inventory, scenario>>
  BY DEF RunForeground
<1>2. /\ IsState(State) /\ State.cleaner = list.cleaner /\ IsList(list.cleaner)
  BY StateIsList
<1>3. CASE UNCHANGED <<list, searches>>
  <2>1. ListInv' /\ list'.cleaner = list.cleaner
    BY <1>1, <1>3, ListStays
  <2> QED BY <1>2, <2>1, GrowsFromItself
<1>4. CASE \E outcomes : Becomes(AbsorbReport(State, outcomes))
  <2>1. PICK outcomes : Becomes(AbsorbReport(State, outcomes))
    BY <1>4
  <2>2. PICK s : s = State
    OBVIOUS
  <2>3. PICK t : t = AbsorbReport(s, outcomes)
    OBVIOUS
  <2>4. IsState(t) /\ Grows(s.cleaner, t.cleaner)
    BY <1>2, <2>2, <2>3, AbsorbReportOK
  <2>5. /\ DOMAIN list' = {"cleaner", "roots", "rules"} /\ list'.cleaner = t.cleaner
        /\ IsState(State)'
    BY <1>1, <2>1, <2>2, <2>3, <2>4, ListBecomes
  <2> QED BY <1>1, <1>2, <2>2, <2>4, <2>5 DEF ListInv
<1>5. UNCHANGED <<list, searches>> \/ \E outcomes : Becomes(AbsorbReport(State, outcomes))
  BY Zenon DEF RunForeground
<1> QED BY <1>3, <1>4, <1>5

(* A scanner thread takes a task, reports what it found, or pushes what    *)
(* there is left to search.                                                *)
LEMMA ChildrenAreTasks ==
  ASSUME NEW t \in Tasks
  PROVE  /\ Children(t) \subseteq Tasks /\ Cardinality(Children(t)) \in Nat
         /\ SetToSeq(Accepted(t.place)) \in Seq(Place)
<1> DEFINE D == Descended(t.place, t.depth)
           child(d) == [t EXCEPT !.place = d, !.depth = @ + 1]
<1>1. t.place \in Place /\ t.depth \in Nat
  BY DEF Tasks
<1>2. D \subseteq Place /\ Accepted(t.place) \subseteq Place
  BY <1>1, DiscoveryAssumption DEF Descended, Accepted
<1>3. IsFiniteSet(D) /\ IsFiniteSet(Accepted(t.place))
  BY <1>2, DiscoveryAssumption, FS_Subset
<1> HIDE DEF D
<1>4. Children(t) = {child(d) : d \in D}
  BY DEF Children, D
<1>5. \A d \in D : child(d) \in Tasks
  <2> SUFFICES ASSUME NEW d \in D PROVE child(d) \in Tasks
    OBVIOUS
  <2>1. t.depth + 1 \in Nat /\ d \in Place
    BY <1>1, <1>2
  <2> QED BY <2>1 DEF Tasks
<1>6. IsFiniteSet(Children(t))
  <2> DEFINE f == [d \in D |-> child(d)]
             C == Children(t)
  <2>1. f \in Surjection(D, C)
    BY <1>4 DEF Surjection
  <2> HIDE DEF C, f
  <2>2. IsFiniteSet(C)
    BY <1>3, <2>1, FS_Surjection
  <2> QED BY <2>2, SMTT(30) DEF C
<1>7. SetToSeq(Accepted(t.place)) \in Seq(Place)
  <2> DEFINE A == Accepted(t.place)
             n == Cardinality(A)
             P(f) == f \in [1 .. n -> A] /\ IsInjective(f)
  <2>1. n \in Nat /\ \E f : P(f)
    <3> HIDE DEF A
    <3>1. IsFiniteSet(A)
      BY <1>3 DEF A
    <3>2. Cardinality(A) \in Nat /\ ExistsBijection(1 .. Cardinality(A), A)
      BY <3>1, FS_CardinalityType
    <3>3. PICK f : f \in Injection(1 .. n, A)
      BY <3>2 DEF ExistsBijection, Bijection
    <3> QED BY <3>2, <3>3 DEF Injection, IsInjective
  <2>2. SetToSeq(A) = CHOOSE f \in [1 .. n -> A] : IsInjective(f)
    BY DEF SetToSeq
  <2> QED BY <1>2, <2>1, <2>2, IsSequence
<1> QED BY <1>4, <1>5, <1>6, <1>7, FS_CardinalityType

LEMMA ScoutStepList ==
  ASSUME ListInv, NEW w \in Scout, ScoutStepOf(w)
  PROVE  ListInv' /\ list'.cleaner = list.cleaner
<1>1. UNCHANGED <<list, inventory, scenario>> /\ ScoutStep(w)
  BY DEF ScoutStepOf, uiVars, worldVars
<1>2. /\ IsState(State) /\ IsSearches(searches) /\ DOMAIN list = {"cleaner", "roots", "rules"}
      /\ finds \in Seq(Reports) /\ scout \in [Scout -> Activities]
  BY StateIsList DEF ListInv
<1>3. /\ IsSearches(searches') /\ DOMAIN searches'.known = DOMAIN searches.known
      /\ finds' \in Seq(Reports) /\ scout' \in [Scout -> Activities]
  <2>1. CASE TakeDiscovery(w)
    <3>1. PICK t \in searches.tasks :
            /\ searches' = [searches EXCEPT !.tasks = @ \ {t}]
            /\ scout' = [scout EXCEPT ![w] = [at |-> "read", task |-> t]]
      BY <2>1 DEF TakeDiscovery
    <3>2. t \in Tasks /\ searches.tasks \subseteq Tasks /\ DOMAIN searches = {"known", "next", "tasks"}
      BY <1>2 DEF IsSearches
    <3>3. [at |-> "read", task |-> t] \in Activities
      BY <3>2 DEF Activities
    <3>4. scout' \in [Scout -> Activities]
      BY <1>2, <3>1, <3>3
    <3>5. /\ DOMAIN searches' = DOMAIN searches /\ searches'.known = searches.known
          /\ searches'.next = searches.next /\ searches'.tasks \subseteq Tasks
      BY <3>1, <3>2
    <3>6. finds' = finds
      BY <2>1 DEF TakeDiscovery
    <3> QED BY <1>2, <3>4, <3>5, <3>6 DEF IsSearches
  <2>2. CASE Discover(w)
    <3> DEFINE t == scout[w].task
               f == [search |-> t.search, found |-> SetToSeq(Accepted(t.place)),
                     spawned |-> Cardinality(Children(t))]
               a == IF Children(t) = {} THEN AtRest ELSE [at |-> "push", tasks |-> Children(t)]
    <3>1. /\ scout[w].at = "read" /\ finds' = Append(finds, f)
          /\ scout' = [scout EXCEPT ![w] = a] /\ searches' = searches
      BY <2>2 DEF Discover
    <3>2. t \in Tasks
      <4>1. scout[w] \in Activities
        BY <1>2
      <4> QED BY <3>1, <4>1 DEF Activities, AtRest
    <3> HIDE DEF t
    <3>3. /\ Children(t) \subseteq Tasks /\ Cardinality(Children(t)) \in Nat
          /\ SetToSeq(Accepted(t.place)) \in Seq(Place)
      BY <3>2, ChildrenAreTasks
    <3>4. f \in Reports
      BY <3>2, <3>3 DEF Reports, Tasks
    <3>5. a \in Activities
      <4>1. CASE Children(t) = {}
        BY <4>1 DEF Activities
      <4>2. CASE Children(t) # {}
        BY <3>3, <4>2 DEF Activities
      <4> QED BY <4>1, <4>2
    <3> HIDE DEF f, a
    <3>6. finds' \in Seq(Reports)
      BY <1>2, <3>1, <3>4, AppendParts
    <3>7. scout' \in [Scout -> Activities]
      BY <1>2, <3>1, <3>5
    <3> QED BY <1>2, <3>1, <3>6, <3>7
  <2>3. CASE PushDiscoveries(w)
    <3>1. /\ scout[w].at = "push" /\ searches' = [searches EXCEPT !.tasks = @ \cup scout[w].tasks]
          /\ scout' = [scout EXCEPT ![w] = AtRest] /\ finds' = finds
      BY <2>3 DEF PushDiscoveries
    <3>2. scout[w].tasks \subseteq Tasks
      <4>1. scout[w] \in Activities
        BY <1>2
      <4> QED BY <3>1, <4>1 DEF Activities, AtRest
    <3>3. searches.tasks \subseteq Tasks /\ DOMAIN searches = {"known", "next", "tasks"}
      BY <1>2 DEF IsSearches
    <3>4. /\ DOMAIN searches' = DOMAIN searches /\ searches'.known = searches.known
          /\ searches'.next = searches.next /\ searches'.tasks \subseteq Tasks
      BY <3>1, <3>2, <3>3
    <3>5. scout' \in [Scout -> Activities]
      BY <1>2, <3>1 DEF Activities
    <3> QED BY <1>2, <3>1, <3>4, <3>5 DEF IsSearches
  <2> QED BY <1>1, <2>1, <2>2, <2>3 DEF ScoutStep
<1>4. PICK t : t = [State EXCEPT !.searches = searches']
  OBVIOUS
<1>5. /\ DOMAIN t = {"cleaner", "roots", "rules", "searches", "enabled"}
      /\ t.cleaner = list.cleaner /\ t.roots = list.roots /\ t.rules = list.rules
      /\ t.searches = searches'
  BY <1>4 DEF State
<1>6. IsState(t)
  BY <1>2, <1>3, <1>5 DEF IsState, State
<1>7. DOMAIN list' = {"cleaner", "roots", "rules"}
  BY <1>1, <1>2
<1>8. IsState(State)'
  BY <1>1, <1>5, <1>6, StateBecomes
<1>9. /\ inventory'.status \in {"pending", "unavailable", "available"}
      /\ inventory'.status = "available" => inventory'.used \in scenario'.used
  BY <1>1 DEF ListInv
<1> QED BY <1>1, <1>3, <1>7, <1>8, <1>9 DEF ListInv

-----------------------------------------------------------------------------
(* A tick. *)

FindOp(p, s, i) == ApplyDiscoveryProgress(s, p.of[i])
FindGood(p, k, s) == IsSearches(s) /\ DOMAIN s.known = DOMAIN p.at.known
FindFold == INSTANCE FoldLemmas WITH Op <- FindOp, Pick <- PickLast, Good <- FindGood

LEMMA ProgressOK ==
  ASSUME NEW s, IsSearches(s), NEW e \in Reports, NEW t, t = ApplyDiscoveryProgress(s, e)
  PROVE  IsSearches(t) /\ DOMAIN t.known = DOMAIN s.known
<1>1. CASE e.search \notin DOMAIN s.known
  BY <1>1 DEF ApplyDiscoveryProgress
<1>2. CASE e.search \in DOMAIN s.known
  <2> DEFINE n == e.search
             q == s.known[n]
             left == IF q.outstanding + e.spawned = 0 THEN 0 ELSE q.outstanding + e.spawned - 1
             found == q.found \o e.found
             r == [q EXCEPT !.found = @ \o e.found, !.outstanding = left,
                            !.finished = @ \/ left = 0]
  <2>1. q \in SearchRecords /\ e.found \in Seq(Place) /\ e.spawned \in Nat
    BY <1>2 DEF IsSearches, Reports
  <2>2. /\ q.found \in Seq(Place) /\ q.consumed \in Nat /\ q.outstanding \in Nat
        /\ q.finished \in BOOLEAN
    BY <2>1 DEF SearchRecords
  <2>3. left \in Nat /\ found \in Seq(Place)
    BY <2>1, <2>2
  <2>4. t = [s EXCEPT !.known[n] = r]
    BY <1>2 DEF ApplyDiscoveryProgress
  <2>5. r \in SearchRecords
    <3> HIDE DEF left, q
    <3>1. PICK b \in BOOLEAN : b = (q.finished \/ left = 0)
      OBVIOUS
    <3>2. r = [q EXCEPT !.found = found, !.outstanding = left, !.finished = b]
      BY <3>1
    <3> HIDE DEF r, found
    <3> QED BY <2>1, <2>3, <3>1, <3>2 DEF SearchRecords
  <2>6. /\ DOMAIN t = DOMAIN s /\ t.next = s.next /\ t.tasks = s.tasks
        /\ t.known = [s.known EXCEPT ![n] = r]
    BY <2>4 DEF IsSearches
  <2> HIDE DEF r
  <2> QED BY <2>5, <2>6 DEF IsSearches
<1> QED BY <1>1, <1>2

LEMMA ProgressesOK ==
  ASSUME NEW s, IsSearches(s), NEW es \in Seq(Reports),
         NEW t, t = FoldLeft(ApplyDiscoveryProgress, s, es)
  PROVE  IsSearches(t) /\ DOMAIN t.known = DOMAIN s.known
<1> DEFINE p == [of |-> es, at |-> s]
           D == DOMAIN es
<1>1. t = FindFold!Fold(p, s, D)
  BY Zenon DEF FoldLeft, MapThenFoldSet, FindFold!Fold, FindFold!Step, FindOp, PickLast, Max
<1>2. p.of = es /\ p.at = s
  OBVIOUS
<1>3. \A i \in D : es[i] \in Reports
  OBVIOUS
<1>4. IsFiniteSet(D) /\ \A k \in SUBSET D : k # {} => PickLast(k) \in k
  BY SequenceInductive
<1> HIDE DEF p, D
<1>5. FindFold!Inductive(D)
  BY <1>4, FiniteInductive DEF FindFold!Inductive
<1>6. FindGood(p, {}, s)
  BY <1>2 DEF FindGood
<1>7. \A k \in SUBSET D : k # {} =>
        \A a : FindGood(p, k \ {PickLast(k)}, a) => FindGood(p, k, FindOp(p, a, PickLast(k)))
  <2> SUFFICES ASSUME NEW k \in SUBSET D, k # {}, NEW a, FindGood(p, k \ {PickLast(k)}, a)
               PROVE  FindGood(p, k, FindOp(p, a, PickLast(k)))
    OBVIOUS
  <2>1. PICK e : e = es[PickLast(k)]
    OBVIOUS
  <2>2. e \in Reports
    BY <1>3, <1>4, <2>1
  <2>3. PICK b : b = FindOp(p, a, PickLast(k))
    OBVIOUS
  <2>4. b = ApplyDiscoveryProgress(a, e)
    BY <1>2, <2>1, <2>3 DEF FindOp
  <2>5. IsSearches(a)
    BY DEF FindGood
  <2>6. IsSearches(b) /\ DOMAIN b.known = DOMAIN a.known
    BY <2>2, <2>4, <2>5, ProgressOK
  <2> QED BY <2>3, <2>6 DEF FindGood
<1>8. FindGood(p, D, FindFold!Fold(p, s, D))
  BY <1>4, <1>5, <1>6, <1>7, FindFold!FoldKeeps
<1> QED BY <1>1, <1>2, <1>8 DEF FindGood

LEMMA MeasureRootsOK ==
  ASSUME DiskInv, NEW roots, IsRoots(roots), NEW M
  PROVE  IsRoots(MeasureRoots(roots, M))
<1>1. disk \subseteq Entry
  BY DEF DiskInv
<1>2. ASSUME NEW p \in DOMAIN roots
      PROVE  p \in Entry /\ MeasureRoots(roots, M)[p] \in [counted : SUBSET Entry, busy : BOOLEAN]
  <2>1. p \in Entry /\ roots[p] \in [counted : SUBSET Entry, busy : BOOLEAN]
    BY DEF IsRoots
  <2> DEFINE A == Under(p) \cap disk
  <2>2. A \in SUBSET Entry
    BY <1>1
  <2>3. MeasureRoots(roots, M)[p] = IF p \in M THEN [counted |-> A, busy |-> FALSE] ELSE roots[p]
    BY DEF MeasureRoots
  <2> HIDE DEF A
  <2>4. [counted |-> A, busy |-> FALSE] \in [counted : SUBSET Entry, busy : BOOLEAN]
    BY <2>2
  <2> QED BY <2>1, <2>3, <2>4
<1>3. DOMAIN MeasureRoots(roots, M) = DOMAIN roots
  BY DEF MeasureRoots
<1> QED BY <1>2, <1>3 DEF IsRoots

(* What a tick makes of the list, of the run and of the tree. *)
Scanned(measured) ==
  [State EXCEPT !.searches = FoldLeft(ApplyDiscoveryProgress, @, finds),
                !.roots = IF measured
                          THEN MeasureRoots(@, {p \in DOMAIN @ : @[p].busy}) ELSE @]
Updated(measured) ==
  LET s == Scanned(measured)
      started == s.cleaner.search # NoSearch \/ s.cleaner.candidates # <<>>
  IN  IF started THEN Update(s, inventory) ELSE s
RunAfter == IF run = NoRun THEN run ELSE Applied(run, channel)
EndsNow == RunAfter # NoRun /\ RunAfter.finished /\ ~run.finished
Readings == {d \in DOMAIN rescans : rescans[d] # Unread}
AfterReading(read) ==
  FoldSet(LAMBDA d, x : Arrive(x, d), [Tree EXCEPT !.made = IF read = {} THEN @ ELSE @ + 1], read)

LEMMA TickParts ==
  ASSUME Tick
  PROVE  /\ \E measured \in BOOLEAN :
              \/ Becomes(Updated(measured))
              \/ EndsNow /\ RunAfter.kind = "clean"
                   /\ Becomes(AbsorbReport(Updated(measured), RunAfter.report))
         /\ \E read \in {{}, Readings} :
              \/ TreeBecomes(AfterReading(read))
              \/ EndsNow /\ TreeBecomes(FoldLeft(AbsorbOutcome, AfterReading(read), RunAfter.report))
         /\ run' = RunAfter /\ finds' = <<>>
         /\ channel' = IF run = NoRun THEN channel ELSE <<>>
         /\ UNCHANGED <<disk, obstacles, cancel, worker, scout, overlay, foreground, inventory,
                        before, lost, scenario, keys>>
<1>1. /\ finds' = <<>>
      /\ channel' = IF run = NoRun THEN channel ELSE <<>>
      /\ UNCHANGED <<disk, obstacles, cancel, worker, scout, overlay, foreground, inventory,
                     before, lost, scenario, keys>>
  BY DEF Tick
<1>2. PICK measured \in BOOLEAN, read \in {{}, Readings} :
        /\ run' = RunAfter
        /\ TreeBecomes(IF EndsNow /\ RunAfter.kind = "delete"
                       THEN FoldLeft(AbsorbOutcome, AfterReading(read), RunAfter.report)
                       ELSE AfterReading(read))
        /\ Becomes(IF EndsNow /\ RunAfter.kind = "clean"
                   THEN AbsorbReport(Updated(measured), RunAfter.report) ELSE Updated(measured))
  BY Zenon DEF Tick, RunAfter, EndsNow, AfterReading, Readings, Updated, Scanned, Applied
<1>3. \/ Becomes(Updated(measured))
      \/ EndsNow /\ RunAfter.kind = "clean"
           /\ Becomes(AbsorbReport(Updated(measured), RunAfter.report))
  BY <1>2, Zenon
<1>4. \/ TreeBecomes(AfterReading(read))
      \/ EndsNow /\ TreeBecomes(FoldLeft(AbsorbOutcome, AfterReading(read), RunAfter.report))
  BY <1>2, Zenon
<1>5. run' = RunAfter
  BY <1>2
<1> HIDE DEF Tick
<1> QED BY <1>1, <1>3, <1>4, <1>5, Zenon

LEMMA UpdatedOK ==
  ASSUME ListInv, DiskInv, NEW measured, NEW t, t = Updated(measured)
  PROVE  /\ IsState(t) /\ Grows(list.cleaner, t.cleaner)
         /\ LET heard == FoldLeft(ApplyDiscoveryProgress, searches, finds)
            IN  t.searches = heard \/ \E q : t.searches = TakeDiscovered(heard, q)
<1> DEFINE s == Scanned(measured)
           heard == FoldLeft(ApplyDiscoveryProgress, searches, finds)
           roots == IF measured
                    THEN MeasureRoots(list.roots, {p \in DOMAIN list.roots : list.roots[p].busy})
                    ELSE list.roots
<1>1. /\ IsList(list.cleaner) /\ IsRoots(list.roots) /\ IsSearches(searches)
      /\ list.cleaner.search \in DOMAIN searches.known \cup {NoSearch}
      /\ Shielded => list.rules = scenario.protected
      /\ finds \in Seq(Reports) /\ scenario \in Scenarios
      /\ inventory.status \in {"pending", "unavailable", "available"}
      /\ inventory.status = "available" => inventory.used \in scenario.used
  BY StateIsList DEF ListInv, DiskInv
<1>2. IsSearches(heard) /\ DOMAIN heard.known = DOMAIN searches.known
  BY <1>1, ProgressesOK
<1>3. IsRoots(roots)
  BY <1>1, MeasureRootsOK
<1>4. s = [State EXCEPT !.searches = heard, !.roots = roots]
  BY Zenon DEF Scanned, State
<1>5. PICK u : u = s
  OBVIOUS
<1> HIDE DEF heard, roots
<1>6. /\ DOMAIN u = {"cleaner", "roots", "rules", "searches", "enabled"}
      /\ u.cleaner = list.cleaner /\ u.roots = roots /\ u.rules = list.rules
      /\ u.searches = heard
  BY <1>4, <1>5 DEF State
<1>7. IsState(u)
  BY <1>1, <1>2, <1>3, <1>6 DEF IsState
<1>8. t = u \/ t = Update(u, inventory)
  BY <1>5, Zenon DEF Updated
<1>9. CASE t = u
  <2>1. IsState(t) /\ Grows(list.cleaner, t.cleaner)
    BY <1>1, <1>6, <1>7, <1>9, GrowsFromItself
  <2> QED BY <1>6, <1>9, <2>1 DEF heard
<1>10. CASE t = Update(u, inventory)
  <2>1. /\ IsState(t) /\ Grows(u.cleaner, t.cleaner)
        /\ t.searches = TakeDiscovered(u.searches, u.cleaner.search)
    BY <1>1, <1>7, <1>10, UpdateOK
  <2> QED BY <1>6, <2>1 DEF heard
<1> QED BY <1>8, <1>9, <1>10

LEMMA TickList ==
  ASSUME ListInv, DiskInv, Tick
  PROVE  /\ ListInv' /\ Grows(list.cleaner, list'.cleaner)
         /\ LET heard == FoldLeft(ApplyDiscoveryProgress, searches, finds)
            IN  searches' = heard \/ \E q : searches' = TakeDiscovered(heard, q)
<1>1. PICK measured \in BOOLEAN :
        \/ Becomes(Updated(measured))
        \/ Becomes(AbsorbReport(Updated(measured), RunAfter.report))
  BY TickParts
<1>2. finds' = <<>> /\ UNCHANGED <<scout, inventory, scenario>>
  BY TickParts
<1>3. PICK u : u = Updated(measured)
  OBVIOUS
<1> DEFINE heard == FoldLeft(ApplyDiscoveryProgress, searches, finds)
           Hears(x) == x = heard \/ \E q : x = TakeDiscovered(heard, q)
<1>4. IsState(u) /\ Grows(list.cleaner, u.cleaner) /\ Hears(u.searches)
  BY <1>3, UpdatedOK
<1>5. PICK t : t = AbsorbReport(u, RunAfter.report)
  OBVIOUS
<1> HIDE DEF Hears
<1>6. IsState(t) /\ Grows(u.cleaner, t.cleaner) /\ t.searches = u.searches
  BY <1>4, <1>5, AbsorbReportOK
<1>7. Grows(list.cleaner, t.cleaner)
  <2>1. IsList(list.cleaner) /\ IsList(u.cleaner) /\ IsList(t.cleaner)
    BY <1>4, <1>6, StateIsList DEF IsState
  <2> QED BY <1>4, <1>6, <2>1, GrowsOn
<1>8. Becomes(u) \/ Becomes(t)
  BY <1>1, <1>3, <1>5
<1>9. /\ DOMAIN list' = {"cleaner", "roots", "rules"} /\ IsState(State)'
      /\ Grows(list.cleaner, list'.cleaner)
  <2>1. CASE Becomes(u)
    BY <1>2, <1>4, <2>1, ListBecomes
  <2>2. CASE Becomes(t)
    BY <1>2, <1>6, <1>7, <2>2, ListBecomes
  <2> QED BY <1>8, <2>1, <2>2
<1>10. finds' \in Seq(Reports)
  BY <1>2
<1>11. searches' = u.searches
  BY <1>6, <1>8 DEF Becomes
<1>12. ListInv'
  BY <1>2, <1>9, <1>10 DEF ListInv
<1> QED BY <1>4, <1>9, <1>11, <1>12 DEF Hears

-----------------------------------------------------------------------------
(* The plans of the dialogs. *)

(* The paths of a set come in an order, each once. *)
LEMMA InOrderOK ==
  ASSUME NEW paths \in SUBSET Entry
  PROVE  /\ Cardinality(paths) \in Nat
         /\ InOrder(paths) \in [1 .. Cardinality(paths) -> paths]
<1> DEFINE n == Cardinality(paths)
           Lower(p) == {o \in paths : PathRank[o] < PathRank[p]}
           R == 0 .. (n - 1)
           rank == [p \in paths |-> Cardinality(Lower(p))]
<1>1. IsFiniteSet(paths) /\ n \in Nat
  BY RemovalAssumption, FS_Subset, FS_CardinalityType
<1>2. /\ \A p \in paths : PathRank[p] \in Nat
      /\ \A p, q \in paths : PathRank[p] = PathRank[q] => p = q
  BY OperationsAssumption
<1>3. ASSUME NEW p \in paths
      PROVE  /\ IsFiniteSet(Lower(p)) /\ Cardinality(Lower(p)) \in Nat
             /\ Cardinality(Lower(p)) < n /\ p \notin Lower(p)
  <2>1. Lower(p) \in SUBSET paths /\ p \notin Lower(p)
    BY <1>2
  <2> HIDE DEF Lower
  <2>2. IsFiniteSet(Lower(p)) /\ Cardinality(Lower(p)) <= n
         /\ (n = Cardinality(Lower(p)) => paths = Lower(p))
    BY <1>1, <2>1, FS_Subset
  <2>3. Cardinality(Lower(p)) \in Nat
    BY <2>2, FS_CardinalityType
  <2> HIDE DEF n
  <2> QED BY <1>1, <2>1, <2>2, <2>3
<1>4. ASSUME NEW p \in paths, NEW q \in paths, PathRank[p] < PathRank[q]
      PROVE  Cardinality(Lower(p)) < Cardinality(Lower(q))
  <2>1. Lower(p) \in SUBSET Lower(q) /\ p \in Lower(q)
    BY <1>2, <1>4
  <2>2. p \notin Lower(p) /\ IsFiniteSet(Lower(q))
    BY <1>3
  <2> HIDE DEF Lower
  <2>3. Cardinality(Lower(p)) <= Cardinality(Lower(q))
         /\ (Cardinality(Lower(q)) = Cardinality(Lower(p)) => Lower(q) = Lower(p))
    BY <2>1, <2>2, FS_Subset
  <2>4. Cardinality(Lower(p)) \in Nat /\ Cardinality(Lower(q)) \in Nat
    BY <1>3
  <2> QED BY <2>1, <2>2, <2>3, <2>4
<1>5. \A p, q \in paths : Cardinality(Lower(p)) = Cardinality(Lower(q)) => p = q
  <2> SUFFICES ASSUME NEW p \in paths, NEW q \in paths,
                      Cardinality(Lower(p)) = Cardinality(Lower(q))
               PROVE  p = q
    OBVIOUS
  <2>1. PathRank[p] \in Nat /\ PathRank[q] \in Nat /\ (PathRank[p] = PathRank[q] => p = q)
    BY <1>2
  <2>2. Cardinality(Lower(p)) \in Nat
    BY <1>3
  <2>3. ~(PathRank[p] < PathRank[q]) /\ ~(PathRank[q] < PathRank[p])
    <3> HIDE DEF Lower
    <3> QED BY <1>4, <2>2
  <2> QED BY <2>1, <2>3
<1>6. rank \in [paths -> R]
  <2>1. \A p \in paths : Cardinality(Lower(p)) \in R
    <3> HIDE DEF Lower, n
    <3> QED BY <1>1, <1>3
  <2> HIDE DEF R, Lower
  <2> QED BY <2>1
<1>7. rank \in Injection(paths, R)
  <2>1. \A a, b \in paths : rank[a] = rank[b] => a = b
    <3> HIDE DEF Lower
    <3> QED BY <1>5
  <2> HIDE DEF rank, R
  <2> QED BY <1>6, <2>1, Fun_IsInj
<1>8. IsFiniteSet(R) /\ Cardinality(R) = Cardinality(paths)
  <2> HIDE DEF n
  <2>1. IsFiniteSet(R) /\ Cardinality(R) = n
    BY <1>1, FS_Interval
  <2> QED BY <2>1 DEF n
<1>9. \A t \in R : \E p \in paths : rank[p] = t
  <2> HIDE DEF rank, R
  <2>1. rank \in Surjection(paths, R)
    BY <1>7, <1>8, FS_Injection
  <2> QED BY <2>1, Fun_SurjectionProperties
<1>10. \A i \in 1 .. n : \E p \in paths : Cardinality(Lower(p)) = i - 1
  <2>1. \A i \in 1 .. n : i - 1 \in R
    <3> HIDE DEF n
    <3> QED BY <1>1
  <2>2. \A p \in paths : rank[p] = Cardinality(Lower(p))
    OBVIOUS
  <2> HIDE DEF rank, R, Lower, n
  <2> QED BY <1>9, <2>1, <2>2
<1>11. InOrder(paths) = [i \in 1 .. n |-> CHOOSE p \in paths : Cardinality(Lower(p)) = i - 1]
  BY DEF InOrder
<1> HIDE DEF Lower, n
<1>12. InOrder(paths) \in [1 .. n -> paths]
  BY <1>10, <1>11
<1> QED BY <1>1, <1>12 DEF n

LEMMA DeletionPlan ==
  ASSUME NEW m, IsMarks(m), NEW plan,
         plan = [i \in DOMAIN InOrder(DOMAIN m) |->
                   DeletionItem(InOrder(DOMAIN m)[i], m[InOrder(DOMAIN m)[i]])]
  PROVE  plan \in Seq(DeletionItems) /\ plan \in Seq(Items)
<1> DEFINE g == InOrder(DOMAIN m)
           n == Cardinality(DOMAIN m)
<1>1. n \in Nat /\ g \in [1 .. n -> DOMAIN m]
  BY InOrderOK DEF IsMarks
<1> HIDE DEF g, n
<1>2. ASSUME NEW i \in 1 .. n PROVE DeletionItem(g[i], m[g[i]]) \in DeletionItems
  <2>1. g[i] \in Entry /\ m[g[i]] \in [size : Nat, node : Nat]
    BY <1>1 DEF IsMarks
  <2> QED BY <2>1 DEF DeletionItem, DeletionItems
<1>3. plan \in [1 .. n -> DeletionItems]
  <2>1. DOMAIN g = 1 .. n
    BY <1>1
  <2>2. plan = [i \in 1 .. n |-> DeletionItem(g[i], m[g[i]])]
    BY <2>1 DEF g
  <2> QED BY <1>2, <2>2
<1>4. plan \in Seq(DeletionItems)
  BY <1>1, <1>3, IsSequence
<1>5. DeletionItems \subseteq Items
  BY DEF Items
<1>6. plan \in [1 .. n -> Items]
  BY <1>3, <1>5
<1>7. plan \in Seq(Items)
  BY <1>1, <1>6, IsSequence
<1> QED BY <1>4, <1>7

-----------------------------------------------------------------------------
(* Numbers: what a plan, a report or a dialog holds keeps its target.      *)

LEMMA ItemIds ==
  ASSUME NEW s \in Seq(Items), NEW item \in Elements(s)
  PROVE  item \in Items /\ item.id \in Nat
<1>1. item \in Items
  BY DEF Elements
<1>2. \A x \in DeletionItems : x.id \in Nat
  BY DEF DeletionItems
<1>3. \A x \in Candidates : x.id \in Nat
  BY DEF Candidates
<1> QED BY <1>1, <1>2, <1>3 DEF Items

LEMMA ItemsOfOutcomes ==
  ASSUME NEW os \in Seq(OutcomeRecords)
  PROVE  /\ ItemsOf(os) \in Seq(Items)
         /\ \A item \in Elements(ItemsOf(os)) : \E o \in Elements(os) : item = o.item
         /\ \A o \in Elements(os) : o.item \in Elements(ItemsOf(os))
<1> DEFINE n == Len(os)
           g == ItemsOf(os)
<1>1. DOMAIN os = 1 .. n /\ n \in Nat /\ \A i \in 1 .. n : os[i] \in OutcomeRecords
  OBVIOUS
<1>2. g = [i \in 1 .. n |-> os[i].item]
  BY <1>1 DEF ItemsOf
<1>3. \A i \in 1 .. n : os[i].item \in Items
  BY <1>1 DEF OutcomeRecords
<1> HIDE DEF n, g
<1>4. g \in [1 .. n -> Items]
  BY <1>2, <1>3
<1>5. g \in Seq(Items)
  BY <1>1, <1>4, IsSequence
<1>6. /\ \A item \in Elements(g) : \E o \in Elements(os) : item = o.item
      /\ \A o \in Elements(os) : o.item \in Elements(g)
  BY <1>1, <1>2 DEF Elements
<1> QED BY <1>5, <1>6 DEF g

LEMMA ReportedTypes ==
  ASSUME RunInv, run # NoRun
  PROVE  ReportedItems \in Seq(Items)
<1>1. LinkInv /\ IsRun(Caught)
  BY DEF RunInv, LinkInv
<1>2. CASE worker = NoWorker
  <2>1. Caught.report \in Seq(OutcomeRecords)
    BY <1>1 DEF IsRun, RunRecords
  <2> QED BY <1>2, <2>1, ItemsOfOutcomes DEF ReportedItems
<1>3. CASE worker # NoWorker
  BY <1>1, <1>3, WorkerTypes DEF ReportedItems
<1> QED BY <1>2, <1>3

(* The list after a step, for what is said of lists. *)
LEMMA ListThere ==
  ASSUME ListInv', scenario' = scenario
  PROVE  IsList(list'.cleaner)
<1>1. IsState(State)'
  BY DEF ListInv
<1>2. PICK u : u = State'
  OBVIOUS
<1>3. u.cleaner = list'.cleaner
  BY <1>2 DEF State
<1>4. IsList(u.cleaner)
  BY <1>1, <1>2, scenario' = scenario DEF IsState, IsList, InList, Guarded, Shielded
<1> QED BY <1>3, <1>4

LEMMA NamesThere ==
  ASSUME ListInv, ListInv', scenario' = scenario, Grows(list.cleaner, list'.cleaner),
         NEW s \in Seq(Items), \A item \in Elements(s) : Names(list.cleaner, item)
  PROVE  \A item \in Elements(s) : Names(list'.cleaner, item)
<1>1. PICK c, d : c = list.cleaner /\ d = list'.cleaner
  OBVIOUS
<1>2. IsList(c) /\ IsList(d) /\ Grows(c, d)
  BY <1>1, ListThere, StateIsList
<1>3. ASSUME NEW item \in Elements(s)
      PROVE  Names(d, item)
  <2>1. item.id \in Nat
    BY ItemIds
  <2> QED BY <1>1, <1>2, <2>1, NamesOn
<1> QED BY <1>1, <1>3

LEMMA NumbersKept ==
  ASSUME RunInv, OverlayInv, NumbersInv, ListInv, ListInv', scenario' = scenario,
         Grows(list.cleaner, list'.cleaner),
         UNCHANGED <<worker, overlay>>,
         run = NoRun => run' = run,
         run # NoRun => Caught' = Caught /\ run'.kind = run.kind
  PROVE  NumbersInv'
<1>1. ASSUME run' # NoRun, run'.kind = "clean"
      PROVE  \A item \in Elements(ReportedItems') : Names(list'.cleaner, item)
  <2>1. run # NoRun /\ run.kind = "clean"
    BY <1>1
  <2>2. ReportedItems' = ReportedItems
    BY <2>1 DEF ReportedItems
  <2>3. ReportedItems \in Seq(Items) /\ \A item \in Elements(ReportedItems) : Names(list.cleaner, item)
    BY <2>1, ReportedTypes DEF NumbersInv
  <2> HIDE DEF ReportedItems
  <2> QED BY <2>2, <2>3, NamesThere
<1>2. ASSUME overlay.type = "confirm", overlay.action \in {"clean", "elevate clean"}
      PROVE  \A item \in Elements(overlay.plan) : Names(list'.cleaner, item)
  <2>1. overlay.plan \in Seq(Items) /\ \A item \in Elements(overlay.plan) : Names(list.cleaner, item)
    BY <1>2 DEF OverlayInv, NumbersInv
  <2> QED BY <2>1, NamesThere
<1>3. overlay' = overlay /\ worker' = worker
  OBVIOUS
<1> QED BY <1>1, <1>2, <1>3 DEF NumbersInv

(* A plan of the cleaner names the targets on the list. *)
LEMMA CleaningPlan ==
  ASSUME NEW c, IsList(c), NEW plan, plan = BuildPlan(c)
  PROVE  /\ plan \in Seq(Items) /\ Elements(plan) \subseteq Elements(c.candidates)
         /\ \A item \in Elements(plan) : Names(c, item)
<1> DEFINE A == {x \in Elements(c.candidates) : x.selected /\ ~x.protected}
           a == Retain(c.candidates, A)
<1>1. c.candidates \in Seq(Candidates)
  BY DEF IsList
<1>2. a \in Seq(Candidates \cap A) /\ Elements(a) = Elements(c.candidates) \cap A
  <2> HIDE DEF A
  <2> QED BY <1>1, RetainMembers
<1>3. Actionable(c) = a
  BY DEF Actionable
<1> HIDE DEF a
<1>4. \E X : plan = Retain(a, X)
  BY <1>3 DEF BuildPlan
<1>5. PICK X : plan = Retain(a, X)
  BY <1>4
<1> HIDE DEF A
<1>6. plan \in Seq((Candidates \cap A) \cap X) /\ Elements(plan) = Elements(a) \cap X
  BY <1>2, <1>5, RetainMembers
<1>7. Elements(plan) \subseteq Elements(c.candidates)
  BY <1>2, <1>6
<1>8. plan \in Seq(Items)
  <2> DEFINE n == Len(plan)
             Y == (Candidates \cap A) \cap X
  <2>1. n \in Nat /\ plan \in [1 .. n -> Y]
    <3> HIDE DEF Y
    <3> QED BY <1>6 DEF Y
  <2>2. Y \subseteq Items
    BY DEF Items
  <2> HIDE DEF Y, n
  <2>3. plan \in [1 .. n -> Items]
    BY <2>1, <2>2
  <2> QED BY <2>1, <2>3, IsSequence
<1>9. ASSUME NEW item \in Elements(plan)
      PROVE  Names(c, item)
  <2>1. item \in Elements(c.candidates)
    BY <1>7
  <2>2. item.id < c.next
    BY <2>1, MemberTypes DEF InList
  <2>3. \A x \in Elements(c.candidates) : x.id = item.id => x = item
    BY <2>1 DEF IsList, Apart
  <2> QED BY <2>2, <2>3 DEF Names
<1> QED BY <1>7, <1>8, <1>9

LEMMA RequestCleaningKeeps ==
  ASSUME RunInv, ListInv, RequestCleaning
  PROVE  OverlayInv' /\ NumbersInv'
<1>1. /\ run = NoRun /\ overlay' = [type |-> "confirm", action |-> "clean", plan |-> BuildPlan(list.cleaner)]
      /\ UNCHANGED <<list, run, worker>>
  BY DEF RequestCleaning, Screen, removalVars, Dialog
<1>2. worker = NoWorker
  BY <1>1 DEF RunInv, LinkInv
<1>3. PICK c, plan : c = list.cleaner /\ plan = BuildPlan(list.cleaner)
  OBVIOUS
<1>4. IsList(c) /\ plan = BuildPlan(c)
  BY <1>3, StateIsList
<1>5. plan \in Seq(Items) /\ \A item \in Elements(plan) : Names(c, item)
  BY <1>4, CleaningPlan
<1>6. overlay'.plan = plan /\ overlay'.type = "confirm"
  BY <1>1, <1>3
<1> QED BY <1>1, <1>2, <1>3, <1>5, <1>6 DEF OverlayInv, NumbersInv

LEMMA SizesAreNat ==
  ASSUME NEW S, FilesOf(S) \subseteq Entry
  PROVE  SizeOf(S) \in Nat
<1> DEFINE A == FilesOf(S)
<1>1. SizeOf(S) = WeightOf(A)
  BY DEF SizeOf, WeightOf
<1> HIDE DEF A
<1> QED BY <1>1, WeightIsNat DEF A

LEMMA NodesAreNat ==
  ASSUME NEW T, IsNodes(T), NEW e
  PROVE  NodeAt(T, e) \in Nat
BY DEF IsNodes, NodeAt, NoNode

(* What a mark made now remembers. *)
LEMMA MarkType ==
  ASSUME TreeInv, scenario \in Scenarios, NEW e \in Markable
  PROVE  e \in Entry /\ MarkOf(e) \in [size : Nat, node : Nat]
<1>1. e \in Entry /\ (e \in Directory => e \in DOMAIN tree)
  BY OperationsAssumption DEF Markable
<1>2. NodeAt(tree, e) \in Nat
  BY NodesAreNat DEF TreeInv
<1>3. Weight[e] \in Nat
  BY <1>1, RemovalAssumption
<1>4. e \in DOMAIN tree => tree[e].total \in Nat
  BY DEF TreeInv, IsNodes
<1> QED BY <1>1, <1>2, <1>3, <1>4 DEF MarkOf

LEMMA WithMark ==
  ASSUME NEW m, IsMarks(m), NEW e \in Entry, NEW v \in [size : Nat, node : Nat]
  PROVE  IsMarks(With(m, e, v))
BY DEF IsMarks, With

LEMMA WithoutMark ==
  ASSUME NEW m, IsMarks(m), NEW S
  PROVE  IsMarks(Without(m, S))
BY DEF IsMarks, Without

LEMMA RequestDeletionKeeps ==
  ASSUME RunInv, TreeInv, scenario \in Scenarios, RequestDeletion
  PROVE  OverlayInv' /\ NumbersInv' /\ TreeInv'
<1>1. PICK chosen : /\ chosen = marks \/ \E e \in Markable : chosen = With(marks, e, MarkOf(e))
                    /\ marks' = [e \in DOMAIN chosen |-> Refreshed(e, chosen[e])]
                    /\ overlay' = Dialog("delete",
                         [i \in DOMAIN InOrder(DOMAIN chosen) |->
                            DeletionItem(InOrder(DOMAIN chosen)[i], marks'[InOrder(DOMAIN chosen)[i]])])
  BY DEF RequestDeletion
<1>2. run = NoRun /\ UNCHANGED <<run, worker, tree, made, rescans, counted>>
  BY DEF RequestDeletion, Screen, removalVars
<1>3. worker = NoWorker
  BY <1>2 DEF RunInv, LinkInv
<1>4. IsMarks(chosen)
  <2>1. IsMarks(marks)
    BY DEF TreeInv
  <2>2. ASSUME NEW e \in Markable, chosen = With(marks, e, MarkOf(e)) PROVE IsMarks(chosen)
    BY <2>1, <2>2, MarkType, WithMark
  <2> QED BY <1>1, <2>1, <2>2
<1>5. IsMarks(marks') /\ DOMAIN marks' = DOMAIN chosen
  <2>1. ASSUME NEW e \in DOMAIN chosen PROVE Refreshed(e, chosen[e]) \in [size : Nat, node : Nat]
    <3>1. chosen[e] \in [size : Nat, node : Nat]
      BY <1>4 DEF IsMarks
    <3>2. Lives(tree, e, chosen[e].node) => tree[e].total \in Nat
      BY DEF Lives, TreeInv, IsNodes
    <3> QED BY <3>1, <3>2 DEF Refreshed
  <2> QED BY <1>1, <1>4, <2>1 DEF IsMarks
<1>6. PICK m : m = marks'
  OBVIOUS
<1>7. PICK plan : plan = [i \in DOMAIN InOrder(DOMAIN m) |->
                            DeletionItem(InOrder(DOMAIN m)[i], m[InOrder(DOMAIN m)[i]])]
  OBVIOUS
<1>8. plan \in Seq(Items)
  BY <1>5, <1>6, <1>7, DeletionPlan
<1>9. overlay' = [type |-> "confirm", action |-> "delete", plan |-> plan]
  BY <1>1, <1>5, <1>6, <1>7 DEF Dialog
<1>10. TreeInv'
  BY <1>2, <1>5 DEF TreeInv
<1> QED BY <1>2, <1>3, <1>8, <1>9, <1>10 DEF OverlayInv, NumbersInv

LEMMA ConfirmRunNumbers ==
  ASSUME RunInv, OverlayInv, NumbersInv, ConfirmRun
  PROVE  OverlayInv' /\ NumbersInv'
<1>1. /\ overlay' = NoDialog /\ overlay.type = "confirm" /\ overlay.action \in {"delete", "clean"}
      /\ run' = NewRun(overlay.action, Len(overlay.plan))
      /\ worker'.plan = overlay.plan /\ worker'.outcomes = <<>> /\ list' = list
  BY DEF ConfirmRun, Launch
<1>2. worker' # NoWorker
  BY ConfirmRunKeeps
<1>3. run'.kind = overlay.action
  BY <1>1 DEF NewRun
<1>4. ReportedItems' = overlay.plan
  BY <1>1, <1>2 DEF ReportedItems
<1>5. run'.kind = "clean" => \A item \in Elements(ReportedItems') : Names(list'.cleaner, item)
  BY <1>1, <1>3, <1>4 DEF NumbersInv
<1>6. \A o \in Elements(worker'.outcomes) : o.item \in Elements(worker'.plan)
  BY <1>1 DEF Elements
<1> HIDE DEF ConfirmRun
<1> QED BY <1>1, <1>5, <1>6 DEF OverlayInv, NumbersInv, NoDialog

LEMMA DismissOperationNumbers ==
  ASSUME RunInv, NumbersInv, DismissOperation
  PROVE  OverlayInv' /\ NumbersInv'
<1>1. worker = NoWorker /\ run # NoRun /\ Caught = run /\ IsRun(run)
  BY DismissOperationKeeps DEF RunInv, LinkInv
<1>2. /\ run' = NoRun /\ UNCHANGED <<worker, list>>
      /\ overlay' = IF run.kind = "delete" THEN FollowUpDeletion ELSE FollowUpCleaning
  BY DEF DismissOperation, removalVars
<1> DEFINE os == Outcomes("needs privileges")
           plan == ItemsOf(os)
<1>3. run.report \in Seq(OutcomeRecords)
  BY <1>1 DEF IsRun, RunRecords
<1>4. os \in Seq(OutcomeRecords) /\ Elements(os) \subseteq Elements(run.report)
  <2> DEFINE X == {o \in Elements(run.report) : o.status = "needs privileges"}
  <2>1. os = Retain(run.report, X)
    BY DEF Outcomes
  <2> HIDE DEF X, os
  <2>2. os \in Seq(OutcomeRecords \cap X) /\ Elements(os) = Elements(run.report) \cap X
    BY <1>3, <2>1, RetainMembers
  <2>3. os \in [1 .. Len(os) -> OutcomeRecords] /\ Len(os) \in Nat
    BY <2>2
  <2>4. os \in Seq(OutcomeRecords)
    BY <2>3, IsSequence
  <2> QED BY <2>2, <2>4
<1> HIDE DEF os
<1>5. /\ plan \in Seq(Items)
      /\ \A item \in Elements(plan) : item \in Elements(ItemsOf(run.report))
  <2>1. \A item \in Elements(plan) : \E o \in Elements(os) : item = o.item
    BY <1>4, ItemsOfOutcomes
  <2>2. \A o \in Elements(run.report) : o.item \in Elements(ItemsOf(run.report))
    BY <1>3, ItemsOfOutcomes
  <2>3. plan \in Seq(Items)
    BY <1>4, ItemsOfOutcomes
  <2> QED BY <1>4, <2>1, <2>2, <2>3
<1> HIDE DEF plan
<1>6. overlay'.type = "confirm" =>
        /\ overlay'.plan = plan
        /\ overlay'.action \in {"clean", "elevate clean"} => run.kind # "delete"
  <2>1. FollowUpDeletion.type = "confirm" =>
          FollowUpDeletion.plan = plan /\ FollowUpDeletion.action = "elevate delete"
    BY DEF FollowUpDeletion, Elevate, Dialog, NoDialog, plan, os
  <2>2. FollowUpCleaning.type = "confirm" => FollowUpCleaning.plan = plan
    BY DEF FollowUpCleaning, Elevate, Dialog, NoDialog, plan, os
  <2> HIDE DEF FollowUpDeletion, FollowUpCleaning
  <2> QED BY <1>2, <2>1, <2>2
<1>7. run.kind # "delete" => \A item \in Elements(ItemsOf(run.report)) : Names(list.cleaner, item)
  BY <1>1 DEF NumbersInv, ReportedItems, IsRun, RunRecords, Kinds
<1> QED BY <1>1, <1>2, <1>5, <1>6, <1>7 DEF OverlayInv, NumbersInv

LEMMA AppendElements ==
  ASSUME NEW S, NEW s \in Seq(S), NEW x
  PROVE  Elements(Append(s, x)) = Elements(s) \cup {x}
<1> DEFINE n == Len(s)
           t == Append(s, x)
<1>1. /\ DOMAIN t = 1 .. (n + 1) /\ DOMAIN s = 1 .. n /\ n \in Nat
      /\ \A i \in 1 .. n : t[i] = s[i]
      /\ t[n + 1] = x
  BY AppendParts
<1> HIDE DEF n, t
<1>2. 1 .. (n + 1) = (1 .. n) \cup {n + 1}
  BY <1>1
<1>3. Elements(t) = {t[i] : i \in 1 .. n} \cup {t[n + 1]}
  BY <1>1, <1>2 DEF Elements
<1>4. {t[i] : i \in 1 .. n} = Elements(s)
  BY <1>1 DEF Elements
<1> QED BY <1>1, <1>3, <1>4 DEF t

LEMMA ConcludeShape ==
  ASSUME IsWorker(worker), NEW status, NEW e, NEW b, NEW started,
         Conclude(Outcome(Item, status, e, b), started)
  PROVE  /\ worker' # NoWorker /\ worker'.plan = worker.plan
         /\ \E o : o.item = Item /\ worker'.outcomes = Append(worker.outcomes, o)
<1>1. PICK o : o = Outcome(Item, status, e, b)
  OBVIOUS
<1>2. o.item = Item
  BY <1>1 DEF Outcome
<1>3. worker' = [worker EXCEPT !.job = NoJob, !.outcomes = Append(@, o)]
  BY <1>1 DEF Conclude
<1>4. /\ DOMAIN worker' = DOMAIN worker /\ worker'.plan = worker.plan
      /\ worker'.outcomes = Append(worker.outcomes, o)
  BY <1>3 DEF IsWorker
<1> QED BY <1>2, <1>4 DEF IsWorker, NoWorker

(* The plan of the thread stays, and its outcomes are of the items of it.  *)
WorkerShape ==
  /\ worker' # NoWorker /\ worker'.plan = worker.plan
  /\ \/ worker'.outcomes = worker.outcomes
     \/ /\ Item \in Elements(worker.plan)
        /\ \E o : o.item = Item /\ worker'.outcomes = Append(worker.outcomes, o)

LEMMA WorkerStepsShape ==
  ASSUME LinkInv, WorkerSteps
  PROVE  FinishRun \/ WorkerShape
<1>1. ASSUME AtItem
      PROVE  IsWorker(worker) /\ Item \in Elements(worker.plan)
  <2>1. worker # NoWorker /\ Len(worker.outcomes) < Len(worker.plan)
    BY <1>1, AtItemTypes
  <2> QED BY <2>1, WorkerTypes, ItemType
<1>2. ASSUME worker.at = "item", worker.job # NoJob
      PROVE  IsWorker(worker) /\ Item \in Elements(worker.plan)
  <2>1. worker # NoWorker
    BY <1>2 DEF NoWorker
  <2>2. IsWorker(worker)
    BY <2>1, WorkerTypes
  <2> QED BY <1>2, <2>2, ItemType DEF IsWorker
<1>3. CASE SkipItem
  <2>1. AtItem /\ Conclude(Outcome(Item, "cancelled", 0, 0), FALSE)
    BY <1>3 DEF SkipItem
  <2> QED BY <1>1, <2>1, ConcludeShape DEF WorkerShape
<1>4. CASE RefuseItem
  <2>1. AtItem /\ Conclude(Outcome(Item, "refused", 0, 0), TRUE)
    BY <1>4 DEF RefuseItem
  <2> QED BY <1>1, <2>1, ConcludeShape DEF WorkerShape
<1>5. CASE RunExternal
  <2>1. PICK status : AtItem /\ Conclude(Outcome(Item, status, 0, 0), TRUE)
    BY <1>5 DEF RunExternal
  <2> QED BY <1>1, <2>1, ConcludeShape DEF WorkerShape
<1>6. CASE MoveToTrash
  <2>1. AtItem /\ \E status, n : Conclude(Outcome(Item, status, n, 0), TRUE)
    <3> DEFINE e == Item.path
               o == CASE e \notin disk -> Outcome(Item, "removed", 0, 0)
                      [] e \in disk /\ obstacles[e] = "denied" -> Outcome(Item, "needs privileges", 0, 0)
                      [] e \in disk /\ obstacles[e] = "failed" -> Outcome(Item, "failed", 0, 0)
                      [] OTHER -> Outcome(Item, "removed", 1, 0)
    <3>1. AtItem /\ Conclude(o, TRUE)
      BY <1>6, Zenon DEF MoveToTrash
    <3>2. \/ o = Outcome(Item, "removed", 0, 0) \/ o = Outcome(Item, "needs privileges", 0, 0)
          \/ o = Outcome(Item, "failed", 0, 0) \/ o = Outcome(Item, "removed", 1, 0)
      <4> HIDE DEF e
      <4>1. CASE e \notin disk
        BY <4>1
      <4>2. CASE e \in disk /\ obstacles[e] = "denied"
        BY <4>2
      <4>3. CASE e \in disk /\ obstacles[e] = "failed"
        BY <4>3
      <4>4. CASE e \in disk /\ obstacles[e] # "denied" /\ obstacles[e] # "failed"
        BY <4>4
      <4> QED BY <4>1, <4>2, <4>3, <4>4
    <3> HIDE DEF o
    <3> QED BY <3>1, <3>2
  <2>2. PICK status, n : Conclude(Outcome(Item, status, n, 0), TRUE)
    BY <2>1
  <2> QED BY <1>1, <2>1, <2>2, ConcludeShape DEF WorkerShape
<1>7. CASE StartItem
  <2>1. AtItem /\ \E j : worker' = [worker EXCEPT !.job = j]
    BY <1>7, Zenon DEF StartItem
  <2> QED BY <1>1, <2>1 DEF WorkerShape, IsWorker, NoWorker
<1>8. CASE WorkOnItem
  <2>1. /\ worker.at = "item" /\ worker.job # NoJob
        /\ worker' = [worker EXCEPT !.job = RemoverStep(worker.job)[1]]
    BY <1>8, Zenon DEF WorkOnItem
  <2> QED BY <1>2, <2>1 DEF WorkerShape, IsWorker, NoWorker
<1>9. CASE FinishItem
  <2>1. /\ worker.at = "item" /\ worker.job # NoJob
        /\ Conclude(Outcome(Item, StatusOf(worker.job.first, worker.job.failed), worker.job.entries,
                            worker.job.bytes), FALSE)
    BY <1>9, Zenon DEF FinishItem
  <2> QED BY <1>2, <2>1, ConcludeShape DEF WorkerShape
<1> QED BY <1>3, <1>4, <1>5, <1>6, <1>7, <1>8, <1>9 DEF WorkerSteps

LEMMA WorkerStepNumbers ==
  ASSUME RunInv, OverlayInv, NumbersInv, WorkerStep
  PROVE  RunInv' /\ OverlayInv' /\ NumbersInv'
<1>1. /\ WorkerSteps /\ UNCHANGED <<discoveryVars, uiVars, worldVars>>
      /\ LinkInv
  BY DEF WorkerStep, RunInv
<1>2. RunInv'
  BY <1>1, SkipItemKeeps, RefuseItemKeeps, RunExternalKeeps, MoveToTrashKeeps, StartItemKeeps,
     WorkOnItemKeeps, FinishItemKeeps, FinishRunKeeps DEF WorkerSteps
<1>3. UNCHANGED <<list, run, overlay>>
  BY <1>1 DEF uiVars
<1>4. OverlayInv'
  BY <1>3 DEF OverlayInv
<1>5. worker # NoWorker
  <2>1. worker.at = "item"
    <3> HIDE DEF RunInv
    <3> QED BY <1>1, Zenon DEF WorkerSteps, AtItem, SkipItem, RefuseItem, RunExternal, MoveToTrash,
              StartItem, WorkOnItem, FinishItem, FinishRun
  <2> QED BY <2>1 DEF NoWorker
<1>6. worker.plan \in Seq(Items) /\ worker.outcomes \in Seq(OutcomeRecords)
  BY <1>1, <1>5, WorkerTypes
<1>7. CASE WorkerShape
  <2>1. ReportedItems' = ReportedItems
    BY <1>5, <1>7 DEF ReportedItems, WorkerShape
  <2>2. \A o \in Elements(worker'.outcomes) : o.item \in Elements(worker'.plan)
    <3>1. \A o \in Elements(worker.outcomes) : o.item \in Elements(worker.plan)
      BY <1>5 DEF NumbersInv
    <3>2. CASE worker'.outcomes = worker.outcomes
      BY <1>7, <3>1, <3>2 DEF WorkerShape
    <3>3. CASE \E o : o.item \in Elements(worker.plan) /\ worker'.outcomes = Append(worker.outcomes, o)
      <4>1. PICK o : o.item \in Elements(worker.plan) /\ worker'.outcomes = Append(worker.outcomes, o)
        BY <3>3
      <4>2. Elements(worker'.outcomes) = Elements(worker.outcomes) \cup {o}
        BY <1>6, <4>1, AppendElements
      <4> QED BY <1>7, <3>1, <4>1, <4>2 DEF WorkerShape
    <3> QED BY <1>7, <3>2, <3>3 DEF WorkerShape
  <2>3. worker' # NoWorker
    BY <1>7 DEF WorkerShape
  <2> HIDE DEF ReportedItems
  <2> QED BY <1>2, <1>3, <1>4, <1>5, <2>1, <2>2, <2>3 DEF NumbersInv
<1>8. CASE FinishRun
  <2>1. worker' = NoWorker /\ Caught'.report = worker.outcomes
    BY <1>1, <1>8, FinishRunKeeps
  <2>2. ReportedItems' = ItemsOf(worker.outcomes) /\ ReportedItems = worker.plan
    BY <1>5, <2>1 DEF ReportedItems
  <2>3. \A item \in Elements(ItemsOf(worker.outcomes)) : item \in Elements(worker.plan)
    <3>1. \A item \in Elements(ItemsOf(worker.outcomes)) :
            \E o \in Elements(worker.outcomes) : item = o.item
      BY <1>6, ItemsOfOutcomes
    <3>2. \A o \in Elements(worker.outcomes) : o.item \in Elements(worker.plan)
      BY <1>5 DEF NumbersInv
    <3> QED BY <3>1, <3>2
  <2> HIDE DEF ReportedItems
  <2> QED BY <1>2, <1>3, <1>4, <2>1, <2>2, <2>3 DEF NumbersInv
<1> QED BY <1>1, <1>7, <1>8, WorkerStepsShape

-----------------------------------------------------------------------------
(* The tree. *)

IsTree(t) ==
  /\ DOMAIN t = {"tree", "made", "rescans", "marks", "counted", "doubled", "unseen"}
  /\ IsNodes(t.tree) /\ t.made \in Nat /\ IsReading(t.rescans) /\ IsMarks(t.marks)
  /\ t.counted \subseteq Entry

LEMMA NodesLeft ==
  ASSUME NEW T, IsNodes(T), NEW S
  PROVE  IsNodes(Without(T, S))
BY DEF IsNodes, Without

LEMMA ReadingLeft ==
  ASSUME NEW r, IsReading(r), NEW S
  PROVE  IsReading(Without(r, S))
BY DEF IsReading, Without

LEMMA NodesShrink ==
  ASSUME NEW T, IsNodes(T), NEW D, NEW n \in Nat
  PROVE  IsNodes(Shrink(T, D, n))
<1>1. DOMAIN Shrink(T, D, n) = DOMAIN T
  BY DEF Shrink
<1>2. ASSUME NEW d \in DOMAIN T PROVE Shrink(T, D, n)[d] \in [node : Nat, total : Nat]
  <2>1. T[d] \in [node : Nat, total : Nat]
    BY DEF IsNodes
  <2>2. PICK k : k = T[d].total
    OBVIOUS
  <2>3. (IF k > n THEN k - n ELSE 0) \in Nat
    BY <2>1, <2>2
  <2> QED BY <2>1, <2>2, <2>3 DEF Shrink
<1> QED BY <1>1, <1>2 DEF IsNodes

LEMMA NodesGrow ==
  ASSUME NEW T, IsNodes(T), NEW D, NEW n \in Nat
  PROVE  IsNodes(Grow(T, D, n))
<1>1. DOMAIN Grow(T, D, n) = DOMAIN T
  BY DEF Grow
<1>2. ASSUME NEW d \in DOMAIN T PROVE Grow(T, D, n)[d] \in [node : Nat, total : Nat]
  <2>1. T[d] \in [node : Nat, total : Nat]
    BY DEF IsNodes
  <2> QED BY <2>1 DEF Grow
<1> QED BY <1>1, <1>2 DEF IsNodes

LEMMA MissOK ==
  ASSUME NEW t, IsTree(t), NEW e
  PROVE  IsTree(Miss(t, e))
<1>1. PICK A : A = Under(e) \cap Contained(t)
  OBVIOUS
<1>2. Miss(t, e) = [t EXCEPT !.unseen = @ \cup A]
  BY <1>1 DEF Miss
<1> QED BY <1>2 DEF IsTree

LEMMA RemoveSubtreeOK ==
  ASSUME NEW t, IsTree(t), NEW e, NEW node
  PROVE  IsTree(RemoveSubtree(t, e, node))
<1>1. PICK queued : queued = {d \in DOMAIN t.rescans : t.rescans[d] = Unread}
  OBVIOUS
<1>2. CASE Lives(t.tree, e, node)
  <2>1. t.tree[e].total \in Nat
    BY <1>2 DEF Lives, IsTree, IsNodes
  <2>2. PICK T, R, C : /\ T = Shrink(Without(t.tree, Under(e)), Above(e), t.tree[e].total)
                       /\ R = Without(t.rescans, Under(e)) /\ C = t.counted \ Under(e)
    OBVIOUS
  <2>3. IsNodes(T) /\ IsReading(R) /\ C \subseteq Entry
    BY <2>1, <2>2, NodesLeft, NodesShrink, ReadingLeft DEF IsTree
  <2>4. RemoveSubtree(t, e, node) = [t EXCEPT !.tree = T, !.rescans = R, !.counted = C]
    BY <1>2, <2>2 DEF RemoveSubtree
  <2> QED BY <2>3, <2>4 DEF IsTree
<1>3. CASE ~Lives(t.tree, e, node)
  <2>1. PICK u : u = Miss(t, e)
    OBVIOUS
  <2>2. IsTree(u)
    BY <2>1, MissOK
  <2>3. PICK R : R = Without(u.rescans, queued)
    OBVIOUS
  <2>4. IsReading(R)
    BY <2>2, <2>3, ReadingLeft DEF IsTree
  <2>5. RemoveSubtree(t, e, node) = [u EXCEPT !.rescans = R, !.unseen = @ \cup queued]
    BY <1>1, <1>3, <2>1, <2>3 DEF RemoveSubtree
  <2> QED BY <2>2, <2>4, <2>5 DEF IsTree
<1> QED BY <1>2, <1>3

LEMMA ForgetFileOK ==
  ASSUME NEW t, IsTree(t), NEW f, NEW node, NEW size \in Nat
  PROVE  IsTree(ForgetFile(t, f, node, size))
<1>1. CASE ~Lives(t.tree, Shower(f), node)
  BY <1>1, MissOK DEF ForgetFile
<1>2. CASE Lives(t.tree, Shower(f), node)
  <2>1. PICK T, C, B : /\ T = Shrink(t.tree, Above(f), size)
                       /\ C = t.counted \ {f} /\ B = t.doubled \cup ({f} \ t.counted)
    OBVIOUS
  <2>2. IsNodes(T) /\ C \subseteq Entry
    BY <2>1, NodesShrink DEF IsTree
  <2>3. ForgetFile(t, f, node, size) = [t EXCEPT !.tree = T, !.counted = C, !.doubled = B]
    BY <1>2, <2>1 DEF ForgetFile
  <2> QED BY <2>2, <2>3 DEF IsTree
<1> QED BY <1>1, <1>2

LEMMA RescanTreeOK ==
  ASSUME NEW t, IsTree(t), NEW e, NEW node
  PROVE  IsTree(RescanTree(t, e, node))
<1>1. CASE ~Lives(t.tree, e, node)
  BY <1>1, MissOK DEF RescanTree
<1>2. CASE Lives(t.tree, e, node)
  <2>1. e \in Directory /\ t.tree[e].total \in Nat
    BY <1>2 DEF Lives, IsTree, IsNodes
  <2>2. PICK T, Q, R, C : /\ T = Shrink(Without(t.tree, Under(e) \ {e}), Above(e), t.tree[e].total)
                          /\ Q = Without(t.rescans, Under(e)) /\ R = With(Q, e, Unread)
                          /\ C = t.counted \ Under(e)
    OBVIOUS
  <2>3. IsNodes(T) /\ IsReading(Q) /\ C \subseteq Entry
    BY <2>1, <2>2, NodesLeft, NodesShrink, ReadingLeft DEF IsTree
  <2>4. IsReading(R)
    BY <2>1, <2>2, <2>3 DEF IsReading, With
  <2>5. RescanTree(t, e, node) = [t EXCEPT !.tree = T, !.counted = C, !.rescans = R]
    BY <1>2, <2>2 DEF RescanTree
  <2> QED BY <2>3, <2>4, <2>5 DEF IsTree
<1> QED BY <1>1, <1>2

LEMMA ArriveOK ==
  ASSUME NEW t, IsTree(t), NEW d \in DOMAIN t.rescans, t.rescans[d] # Unread
  PROVE  IsTree(Arrive(t, d)) /\ Arrive(t, d).rescans = Without(t.rescans, {d})
<1>1. PICK S : S = t.rescans[d]
  OBVIOUS
<1>2. S \subseteq Entry
  BY <1>1 DEF IsTree, IsReading
<1>3. PICK fresh : fresh = (S \cap Directory) \ {d}
  OBVIOUS
<1>4. ASSUME NEW x PROVE SizeOf(Under(x) \cap S) \in Nat
  <2>1. FilesOf(Under(x) \cap S) \subseteq Entry
    BY <1>2 DEF FilesOf
  <2> QED BY <2>1, SizesAreNat
<1>5. SizeOf(S) \in Nat
  <2>1. FilesOf(S) \subseteq Entry
    BY <1>2 DEF FilesOf
  <2> QED BY <2>1, SizesAreNat
<1>6. PICK T : T = [x \in DOMAIN t.tree \cup fresh |->
                      IF x \in fresh THEN [node |-> t.made, total |-> SizeOf(Under(x) \cap S)]
                      ELSE t.tree[x]]
  OBVIOUS
<1>7. IsNodes(T)
  BY <1>3, <1>4, <1>6 DEF IsTree, IsNodes
<1>8. PICK G, R, C : /\ G = Grow(T, Above(d), SizeOf(S)) /\ R = Without(t.rescans, {d})
                     /\ C = t.counted \cup FilesOf(S)
  OBVIOUS
<1>9. IsNodes(G) /\ IsReading(R) /\ C \subseteq Entry
  <2>1. FilesOf(S) \subseteq Entry
    BY <1>2 DEF FilesOf
  <2> QED BY <1>5, <1>7, <1>8, <2>1, NodesGrow, ReadingLeft DEF IsTree
<1>10. Arrive(t, d) = [t EXCEPT !.tree = G, !.rescans = R, !.counted = C]
  BY <1>1, <1>3, <1>6, <1>8, Zenon DEF Arrive
<1> QED BY <1>8, <1>9, <1>10 DEF IsTree

LEMMA AbsorbRemovedOK ==
  ASSUME NEW t, IsTree(t), NEW item, item.size \in Nat
  PROVE  IsTree(AbsorbRemoved(t, item))
<1>1. PICK e : e = item.path
  OBVIOUS
<1>2. PICK parent : parent = IF e \in DOMAIN t.marks /\ t.marks[e].node # NoNode
                             THEN t.marks[e].node ELSE NodeAt(t.tree, e)
  OBVIOUS
<1>3. PICK m : m = Without(t.marks, {e})
  OBVIOUS
<1>4. PICK u : u = [t EXCEPT !.marks = m]
  OBVIOUS
<1>5. IsTree(u)
  BY <1>3, <1>4, WithoutMark DEF IsTree
<1>6. AbsorbRemoved(t, item) = IF e \in Directory THEN RemoveSubtree(u, e, item.node)
                               ELSE ForgetFile(u, e, parent, item.size)
  BY <1>1, <1>2, <1>3, <1>4, Zenon DEF AbsorbRemoved
<1> QED BY <1>5, <1>6, RemoveSubtreeOK, ForgetFileOK

(* Every item has a size. *)
LEMMA ItemSizes ==
  ASSUME NEW x \in Items
  PROVE  x.size \in Nat
<1>1. \A y \in Candidates : y.size \in Nat
  BY DEF Candidates
<1>2. \A y \in DeletionItems : y.size \in Nat
  BY DEF DeletionItems
<1> QED BY <1>1, <1>2 DEF Items

LEMMA AbsorbOutcomeOK ==
  ASSUME NEW t, IsTree(t), NEW o \in OutcomeRecords
  PROVE  IsTree(AbsorbOutcome(t, o))
<1>1. o.item.size \in Nat
  BY ItemSizes DEF OutcomeRecords
<1>2. CASE o.status = "removed"
  BY <1>1, <1>2, AbsorbRemovedOK DEF AbsorbOutcome
<1>3. CASE o.status # "removed"
  <2>1. AbsorbOutcome(t, o) \in {RescanTree(t, o.item.path, o.item.node), t}
    BY <1>3 DEF AbsorbOutcome
  <2> QED BY <2>1, RescanTreeOK
<1> QED BY <1>2, <1>3

(* What was read arrives. *)
ArriveOp(p, t, d) == Arrive(t, d)
ArriveGood(p, s, t) == IsTree(t) /\ \A d \in p \ s : d \in DOMAIN t.rescans /\ t.rescans[d] # Unread
ArriveFold == INSTANCE FoldLemmas WITH Op <- ArriveOp, Pick <- PickAny, Good <- ArriveGood

LEMMA ReadingOK ==
  ASSUME TreeInv, NEW read \in {{}, Readings}
  PROVE  IsTree(AfterReading(read))
<1>1. PICK b : b = [Tree EXCEPT !.made = IF read = {} THEN @ ELSE @ + 1]
  OBVIOUS
<1>2. IsTree(b) /\ b.rescans = rescans
  <2>1. PICK n : n = IF read = {} THEN made ELSE made + 1
    OBVIOUS
  <2>2. n \in Nat
    BY <2>1 DEF TreeInv
  <2>3. b = [tree |-> tree, made |-> n, rescans |-> rescans, marks |-> marks,
             counted |-> counted, doubled |-> doubled, unseen |-> unseen]
    BY <1>1, <2>1 DEF Tree
  <2> QED BY <2>2, <2>3 DEF IsTree, TreeInv
<1>3. AfterReading(read) = ArriveFold!Fold(read, b, read)
  BY <1>1, Zenon DEF AfterReading, FoldSet, MapThenFoldSet, ArriveFold!Fold, ArriveFold!Step, ArriveOp, PickAny
<1>4. read \subseteq Readings /\ Readings \subseteq Directory
  BY DEF Readings, TreeInv, IsReading
<1>5. IsFiniteSet(read) /\ \A s \in SUBSET read : s # {} => PickAny(s) \in s
  <2>1. IsFiniteSet(read)
    BY <1>4, RemovalAssumption, FS_Subset
  <2> QED BY <2>1, Zenon DEF PickAny
<1>6. ArriveFold!Inductive(read)
  BY <1>5, FiniteInductive DEF ArriveFold!Inductive
<1>7. ArriveGood(read, {}, b)
  BY <1>2, <1>4 DEF ArriveGood, Readings
<1>8. \A s \in SUBSET read : s # {} =>
        \A a : ArriveGood(read, s \ {PickAny(s)}, a) => ArriveGood(read, s, ArriveOp(read, a, PickAny(s)))
  <2> SUFFICES ASSUME NEW s \in SUBSET read, s # {}, NEW a, ArriveGood(read, s \ {PickAny(s)}, a)
               PROVE  ArriveGood(read, s, ArriveOp(read, a, PickAny(s)))
    OBVIOUS
  <2>1. PICK d : d = PickAny(s)
    OBVIOUS
  <2>2. d \in s
    BY <1>5, <2>1
  <2>3. IsTree(a) /\ \A x \in read \ (s \ {d}) : x \in DOMAIN a.rescans /\ a.rescans[x] # Unread
    BY <2>1 DEF ArriveGood
  <2>4. d \in DOMAIN a.rescans /\ a.rescans[d] # Unread
    BY <2>2, <2>3
  <2>5. PICK u : u = Arrive(a, d)
    OBVIOUS
  <2>6. IsTree(u) /\ u.rescans = Without(a.rescans, {d})
    BY <2>3, <2>4, <2>5, ArriveOK
  <2>7. \A x \in read \ s : x \in DOMAIN u.rescans /\ u.rescans[x] # Unread
    BY <2>2, <2>3, <2>6 DEF Without
  <2> QED BY <2>1, <2>5, <2>6, <2>7 DEF ArriveGood, ArriveOp
<1>9. ArriveGood(read, read, ArriveFold!Fold(read, b, read))
  BY <1>5, <1>6, <1>7, <1>8, ArriveFold!FoldKeeps
<1> QED BY <1>3, <1>9 DEF ArriveGood

OutcomeOp(p, t, i) == AbsorbOutcome(t, p[i])
RemovedOp(p, t, i) == AbsorbRemoved(t, p[i])
TreeGood(p, s, t) == IsTree(t)
OutcomeFold == INSTANCE FoldLemmas WITH Op <- OutcomeOp, Pick <- PickLast, Good <- TreeGood
RemovedFold == INSTANCE FoldLemmas WITH Op <- RemovedOp, Pick <- PickLast, Good <- TreeGood

LEMMA OutcomesOK ==
  ASSUME NEW t, IsTree(t), NEW os \in Seq(OutcomeRecords)
  PROVE  IsTree(FoldLeft(AbsorbOutcome, t, os))
<1> DEFINE D == DOMAIN os
<1>1. FoldLeft(AbsorbOutcome, t, os) = OutcomeFold!Fold(os, t, D)
  BY Zenon DEF FoldLeft, MapThenFoldSet, OutcomeFold!Fold, OutcomeFold!Step, OutcomeOp, PickLast, Max
<1>2. IsFiniteSet(D) /\ \A k \in SUBSET D : k # {} => PickLast(k) \in k
  BY SequenceInductive
<1> HIDE DEF D
<1>3. OutcomeFold!Inductive(D)
  BY <1>2, FiniteInductive DEF OutcomeFold!Inductive
<1>4. TreeGood(os, {}, t)
  BY DEF TreeGood
<1>5. \A k \in SUBSET D : k # {} =>
        \A a : TreeGood(os, k \ {PickLast(k)}, a) => TreeGood(os, k, OutcomeOp(os, a, PickLast(k)))
  <2>1. \A i \in D : os[i] \in OutcomeRecords
    BY DEF D
  <2> QED BY <1>2, <2>1, AbsorbOutcomeOK DEF TreeGood, OutcomeOp
<1>6. TreeGood(os, D, OutcomeFold!Fold(os, t, D))
  BY <1>2, <1>3, <1>4, <1>5, OutcomeFold!FoldKeeps
<1> QED BY <1>1, <1>6 DEF TreeGood

LEMMA RemovalsOK ==
  ASSUME NEW t, IsTree(t), NEW plan \in Seq(Items)
  PROVE  IsTree(FoldLeft(AbsorbRemoved, t, plan))
<1> DEFINE D == DOMAIN plan
<1>1. FoldLeft(AbsorbRemoved, t, plan) = RemovedFold!Fold(plan, t, D)
  BY Zenon DEF FoldLeft, MapThenFoldSet, RemovedFold!Fold, RemovedFold!Step, RemovedOp, PickLast, Max
<1>2. IsFiniteSet(D) /\ \A k \in SUBSET D : k # {} => PickLast(k) \in k
  BY SequenceInductive
<1> HIDE DEF D
<1>3. RemovedFold!Inductive(D)
  BY <1>2, FiniteInductive DEF RemovedFold!Inductive
<1>4. TreeGood(plan, {}, t)
  BY DEF TreeGood
<1>5. \A k \in SUBSET D : k # {} =>
        \A a : TreeGood(plan, k \ {PickLast(k)}, a) => TreeGood(plan, k, RemovedOp(plan, a, PickLast(k)))
  <2>1. \A i \in D : plan[i].size \in Nat
    BY ItemSizes DEF D
  <2> QED BY <1>2, <2>1, AbsorbRemovedOK DEF TreeGood, RemovedOp
<1>6. TreeGood(plan, D, RemovedFold!Fold(plan, t, D))
  BY <1>2, <1>3, <1>4, <1>5, RemovedFold!FoldKeeps
<1> QED BY <1>1, <1>6 DEF TreeGood

LEMMA TreeIs ==
  ASSUME TreeInv
  PROVE  IsTree(Tree)
BY DEF TreeInv, Tree, IsTree

LEMMA TreeThere ==
  ASSUME NEW t, IsTree(t), TreeBecomes(t)
  PROVE  TreeInv'
BY DEF TreeBecomes, IsTree, TreeInv

LEMMA TreeStays ==
  ASSUME TreeInv, UNCHANGED treeVars
  PROVE  TreeInv'
BY DEF TreeInv, treeVars

LEMMA TickTree ==
  ASSUME RunInv, TreeInv, Tick
  PROVE  TreeInv'
<1>1. PICK read \in {{}, Readings} :
        \/ TreeBecomes(AfterReading(read))
        \/ EndsNow /\ TreeBecomes(FoldLeft(AbsorbOutcome, AfterReading(read), RunAfter.report))
  BY TickParts
<1>2. PICK t : t = AfterReading(read)
  OBVIOUS
<1>3. IsTree(t)
  BY <1>2, ReadingOK
<1>4. CASE TreeBecomes(t)
  BY <1>3, <1>4, TreeThere
<1>5. CASE EndsNow /\ TreeBecomes(FoldLeft(AbsorbOutcome, t, RunAfter.report))
  <2>1. run # NoRun /\ RunAfter = Caught
    BY <1>5 DEF EndsNow, RunAfter, Caught
  <2>2. RunAfter.report \in Seq(OutcomeRecords)
    BY <2>1 DEF RunInv, LinkInv, IsRun, RunRecords
  <2>3. PICK os, u : os = RunAfter.report /\ u = FoldLeft(AbsorbOutcome, t, os)
    OBVIOUS
  <2>4. IsTree(u)
    BY <1>3, <2>2, <2>3, OutcomesOK
  <2> QED BY <1>5, <2>3, <2>4, TreeThere
<1> QED BY <1>1, <1>2, <1>4, <1>5

LEMMA RunForegroundTree ==
  ASSUME TreeInv, ForegroundInv, RunForeground
  PROVE  TreeInv' /\ ForegroundInv'
<1>1. foreground # NoAction /\ foreground' = NoAction
  BY DEF RunForeground
<1>2. foreground.plan \in Seq(Items)
  BY <1>1 DEF ForegroundInv
<1>3. UNCHANGED treeVars \/ TreeBecomes(FoldLeft(AbsorbRemoved, Tree, foreground.plan))
  BY Zenon DEF RunForeground
<1>4. CASE UNCHANGED treeVars
  BY <1>1, <1>4, TreeStays DEF ForegroundInv
<1>5. CASE TreeBecomes(FoldLeft(AbsorbRemoved, Tree, foreground.plan))
  <2>1. PICK t, u : t = Tree /\ u = FoldLeft(AbsorbRemoved, t, foreground.plan)
    OBVIOUS
  <2>2. IsTree(u)
    BY <1>2, <2>1, TreeIs, RemovalsOK
  <2>3. TreeInv'
    BY <1>5, <2>1, <2>2, TreeThere
  <2> QED BY <1>1, <2>3 DEF ForegroundInv
<1> QED BY <1>3, <1>4, <1>5

-----------------------------------------------------------------------------
(* One step of any actor keeps the invariant. *)

(* What an action leaves alone keeps its part of the invariant. *)
LEMMA RestKept ==
  ASSUME OperationsInv, UNCHANGED <<list, searches, scout, finds, inventory, scenario>>,
         RunInv', UNCHANGED <<worker, overlay>>,
         run = NoRun => run' = run,
         run # NoRun => Caught' = Caught /\ run'.kind = run.kind
  PROVE  ListInv' /\ OverlayInv' /\ NumbersInv'
<1>1. ListInv' /\ list'.cleaner = list.cleaner
  BY ListStays DEF OperationsInv
<1>2. Grows(list.cleaner, list'.cleaner)
  BY <1>1, StateIsList, GrowsFromItself DEF OperationsInv
<1>3. NumbersInv'
  BY <1>1, <1>2, NumbersKept DEF OperationsInv, RunInv
<1> QED BY <1>1, <1>3 DEF OperationsInv, OverlayInv

LEMMA ToggleMarkKeeps ==
  ASSUME OperationsInv, ToggleMark
  PROVE  OperationsInv'
<1>1. UNCHANGED <<removalVars, discoveryVars, list, tree, made, rescans, counted, run, overlay,
                  foreground, inventory, before, scenario, lost>>
  BY DEF ToggleMark, Screen, Press, removalVars, uiVars, discoveryVars
<1>2. RunInv' /\ Caught' = Caught
  BY <1>1, RunKept DEF OperationsInv, RunInv, removalVars
<1>3. ListInv' /\ OverlayInv' /\ NumbersInv'
  BY <1>1, <1>2, RestKept DEF removalVars, discoveryVars
<1>4. IsMarks(marks')
  <2>1. PICK e \in Markable : marks' = Without(marks, {e}) \/ marks' = With(marks, e, MarkOf(e))
    BY DEF ToggleMark
  <2>2. IsMarks(marks) /\ e \in Entry /\ MarkOf(e) \in [size : Nat, node : Nat]
    BY MarkType DEF OperationsInv, DiskInv, TreeInv
  <2> QED BY <2>1, <2>2, WithMark, WithoutMark
<1>5. TreeInv'
  BY <1>1, <1>4 DEF OperationsInv, TreeInv
<1> QED BY <1>1, <1>2, <1>3, <1>5 DEF OperationsInv, RunInv, ForegroundInv

LEMMA RequestDeletionOK ==
  ASSUME OperationsInv, RequestDeletion
  PROVE  OperationsInv'
<1>1. UNCHANGED <<removalVars, discoveryVars, list, tree, made, rescans, counted, run, foreground,
                  inventory, before, scenario, lost>>
  BY DEF RequestDeletion, Screen, Press
<1>2. RunInv'
  BY <1>1, RunKept DEF OperationsInv, RunInv, removalVars
<1>3. ListInv'
  BY <1>1, ListStays DEF OperationsInv, discoveryVars
<1>4. OverlayInv' /\ NumbersInv' /\ TreeInv'
  BY RequestDeletionKeeps DEF OperationsInv, RunInv, DiskInv
<1> QED BY <1>1, <1>2, <1>3, <1>4 DEF OperationsInv, RunInv, ForegroundInv

LEMMA RequestCleaningOK ==
  ASSUME OperationsInv, RequestCleaning
  PROVE  OperationsInv'
<1>1. UNCHANGED <<removalVars, discoveryVars, list, treeVars, run, foreground,
                  inventory, before, scenario, lost>>
  BY DEF RequestCleaning, Screen, Press
<1>2. RunInv'
  BY <1>1, RunKept DEF OperationsInv, RunInv, removalVars
<1>3. ListInv'
  BY <1>1, ListStays DEF OperationsInv, discoveryVars
<1>4. OverlayInv' /\ NumbersInv'
  BY RequestCleaningKeeps DEF OperationsInv, RunInv
<1> QED BY <1>1, <1>2, <1>3, <1>4 DEF OperationsInv, RunInv, ForegroundInv, TreeInv, treeVars

LEMMA RescanDirectoryKeeps ==
  ASSUME OperationsInv, RescanDirectory
  PROVE  OperationsInv'
<1>1. UNCHANGED <<removalVars, discoveryVars, uiVars, inventory, before, scenario, lost>>
  BY DEF RescanDirectory, Screen, Press
<1>2. RunInv' /\ Caught' = Caught
  BY <1>1, RunKept DEF OperationsInv, RunInv, removalVars, uiVars
<1>3. ListInv' /\ OverlayInv' /\ NumbersInv'
  BY <1>1, <1>2, RestKept DEF removalVars, discoveryVars, uiVars
<1>4. TreeInv'
  <2>1. PICK d, t : t = RescanTree(Tree, d, tree[d].node) /\ TreeBecomes(t)
    BY DEF RescanDirectory
  <2>2. IsTree(t)
    BY <2>1, TreeIs, RescanTreeOK DEF OperationsInv
  <2> QED BY <2>1, <2>2, TreeThere
<1> QED BY <1>1, <1>2, <1>3, <1>4 DEF OperationsInv, RunInv, ForegroundInv, uiVars

LEMMA SelectTargetsKeeps ==
  ASSUME OperationsInv, SelectTargets
  PROVE  OperationsInv'
<1>1. UNCHANGED <<removalVars, discoveryVars, treeVars, run, overlay, foreground,
                  inventory, before, scenario, lost>>
  BY DEF SelectTargets, Screen, Press
<1>2. RunInv' /\ Caught' = Caught
  BY <1>1, RunKept DEF OperationsInv, RunInv, removalVars
<1>3. ListInv' /\ Grows(list.cleaner, list'.cleaner)
  BY SelectTargetsList DEF OperationsInv
<1>4. NumbersInv'
  BY <1>1, <1>2, <1>3, NumbersKept DEF OperationsInv, RunInv, removalVars
<1> QED BY <1>1, <1>2, <1>3, <1>4 DEF OperationsInv, RunInv, ForegroundInv, TreeInv, treeVars, OverlayInv

LEMMA RestartCleanerKeeps ==
  ASSUME OperationsInv, RestartCleaner
  PROVE  OperationsInv'
<1>1. UNCHANGED <<removalVars, scout, finds, treeVars, run, overlay, foreground,
                  before, scenario, lost>>
  BY DEF RestartCleaner, Screen, Press
<1>2. RunInv' /\ Caught' = Caught
  BY <1>1, RunKept DEF OperationsInv, RunInv, removalVars
<1>3. ListInv'
  BY RestartCleanerList DEF OperationsInv, DiskInv
<1>4. run = NoRun /\ overlay = NoDialog
  BY DEF RestartCleaner, Screen
<1>5. worker' = NoWorker /\ run' = NoRun /\ overlay' = NoDialog
  BY <1>1, <1>4 DEF OperationsInv, LinkInv, removalVars
<1>6. NumbersInv'
  BY <1>5 DEF NumbersInv, NoDialog
<1> QED BY <1>1, <1>2, <1>3, <1>6 DEF OperationsInv, RunInv, ForegroundInv, TreeInv, treeVars, OverlayInv

LEMMA ChangeRulesKeeps ==
  ASSUME OperationsInv, ChangeRules
  PROVE  OperationsInv'
<1>1. UNCHANGED <<removalVars, discoveryVars, treeVars, run, overlay, foreground,
                  inventory, before, scenario, lost>>
  BY DEF ChangeRules, Screen, Press
<1>2. RunInv' /\ Caught' = Caught
  BY <1>1, RunKept DEF OperationsInv, RunInv, removalVars
<1>3. ListInv' /\ list'.cleaner = list.cleaner
  BY ChangeRulesList DEF OperationsInv
<1>4. Grows(list.cleaner, list'.cleaner)
  BY <1>3, StateIsList, GrowsFromItself DEF OperationsInv
<1>5. NumbersInv'
  BY <1>1, <1>2, <1>3, <1>4, NumbersKept DEF OperationsInv, RunInv, removalVars
<1> QED BY <1>1, <1>2, <1>3, <1>5 DEF OperationsInv, RunInv, ForegroundInv, TreeInv, treeVars, OverlayInv

LEMMA ConfirmRunOK ==
  ASSUME OperationsInv, ConfirmRun
  PROVE  OperationsInv'
<1>1. UNCHANGED <<discoveryVars, list, treeVars, foreground, inventory, scenario>>
  BY DEF ConfirmRun, Press
<1>2. RunInv'
  BY ConfirmRunKeeps DEF OperationsInv, RunInv
<1>3. ListInv'
  BY <1>1, ListStays DEF OperationsInv, discoveryVars
<1>4. OverlayInv' /\ NumbersInv'
  BY ConfirmRunNumbers DEF OperationsInv, RunInv
<1> QED BY <1>1, <1>2, <1>3, <1>4 DEF OperationsInv, RunInv, ForegroundInv, TreeInv, treeVars

LEMMA ConfirmElevationKeeps ==
  ASSUME OperationsInv, ConfirmElevation
  PROVE  OperationsInv'
<1>1. /\ UNCHANGED <<removalVars, discoveryVars, list, treeVars, run, inventory,
                     before, scenario, lost>>
      /\ overlay' = NoDialog /\ run = NoRun /\ overlay.type = "confirm"
      /\ foreground' = [type |-> overlay.action, plan |-> overlay.plan]
  BY DEF ConfirmElevation, Press
<1>2. RunInv'
  BY <1>1, RunKept DEF OperationsInv, RunInv, removalVars
<1>3. ListInv'
  BY <1>1, ListStays DEF OperationsInv, discoveryVars
<1>4. worker' = NoWorker /\ run' = NoRun
  BY <1>1 DEF OperationsInv, LinkInv, removalVars
<1>5. NumbersInv' /\ OverlayInv'
  BY <1>1, <1>4 DEF NumbersInv, OverlayInv, NoDialog
<1>6. ForegroundInv'
  BY <1>1 DEF OperationsInv, OverlayInv, ForegroundInv
<1> QED BY <1>1, <1>2, <1>3, <1>5, <1>6 DEF OperationsInv, RunInv, TreeInv, treeVars

LEMMA CloseDialogKeeps ==
  ASSUME OperationsInv, CloseDialog
  PROVE  OperationsInv'
<1>1. /\ UNCHANGED <<removalVars, discoveryVars, list, treeVars, run, foreground,
                     inventory, before, scenario, lost>>
      /\ overlay' = NoDialog /\ run = NoRun
  BY DEF CloseDialog, Press
<1>2. RunInv'
  BY <1>1, RunKept DEF OperationsInv, RunInv, removalVars
<1>3. ListInv'
  BY <1>1, ListStays DEF OperationsInv, discoveryVars
<1>4. worker' = NoWorker /\ run' = NoRun
  BY <1>1 DEF OperationsInv, LinkInv, removalVars
<1>5. NumbersInv' /\ OverlayInv'
  BY <1>1, <1>4 DEF NumbersInv, OverlayInv, NoDialog
<1> QED BY <1>1, <1>2, <1>3, <1>5 DEF OperationsInv, RunInv, TreeInv, treeVars, ForegroundInv

LEMMA RequestCancelOK ==
  ASSUME OperationsInv, RequestCancel
  PROVE  OperationsInv'
<1>1. UNCHANGED <<worker, channel, discoveryVars, uiVars, treeVars, inventory, before, scenario>>
  BY DEF RequestCancel, Press
<1>2. RunInv' /\ Caught' = Caught
  BY RequestCancelKeeps DEF OperationsInv, RunInv
<1>3. ListInv' /\ OverlayInv' /\ NumbersInv'
  BY <1>1, <1>2, RestKept DEF uiVars, discoveryVars
<1> QED BY <1>1, <1>2, <1>3 DEF OperationsInv, RunInv, TreeInv, treeVars, ForegroundInv, uiVars

LEMMA DismissOperationOK ==
  ASSUME OperationsInv, DismissOperation
  PROVE  OperationsInv'
<1>1. UNCHANGED <<removalVars, discoveryVars, list, treeVars, foreground,
                  inventory, before, scenario>>
  BY DEF DismissOperation, Press
<1>2. RunInv'
  BY DismissOperationKeeps DEF OperationsInv, RunInv
<1>3. ListInv'
  BY <1>1, ListStays DEF OperationsInv, discoveryVars
<1>4. OverlayInv' /\ NumbersInv'
  BY DismissOperationNumbers DEF OperationsInv, RunInv
<1> QED BY <1>1, <1>2, <1>3, <1>4 DEF OperationsInv, RunInv, TreeInv, treeVars, ForegroundInv

LEMMA RunForegroundOK ==
  ASSUME OperationsInv, RunForeground
  PROVE  OperationsInv'
<1>1. UNCHANGED <<worker, run, overlay, scenario>>
  BY DEF RunForeground
<1>2. RunInv' /\ Caught' = Caught
  BY RunForegroundKeeps DEF OperationsInv, RunInv
<1>3. ListInv' /\ Grows(list.cleaner, list'.cleaner)
  BY RunForegroundList DEF OperationsInv
<1>4. NumbersInv'
  BY <1>1, <1>2, <1>3, NumbersKept DEF OperationsInv, RunInv
<1>5. TreeInv' /\ ForegroundInv'
  BY RunForegroundTree DEF OperationsInv
<1> QED BY <1>1, <1>2, <1>3, <1>4, <1>5 DEF OperationsInv, RunInv, OverlayInv

LEMMA TickOK ==
  ASSUME OperationsInv, Tick
  PROVE  OperationsInv'
<1>1. UNCHANGED <<worker, overlay, foreground, scenario>> /\ run' = RunAfter
  BY TickParts
<1>2. RunInv' /\ (run # NoRun => Caught' = Caught /\ run' = Caught)
  BY TickKeepsRun DEF OperationsInv, RunInv
<1>3. ListInv' /\ Grows(list.cleaner, list'.cleaner)
  BY TickList DEF OperationsInv
<1>4. (run = NoRun => run' = run) /\ (run # NoRun => run'.kind = run.kind)
  BY <1>1, <1>2 DEF RunAfter, OperationsInv, LinkInv
<1>5. NumbersInv'
  BY <1>1, <1>2, <1>3, <1>4, NumbersKept DEF OperationsInv, RunInv
<1>6. TreeInv'
  BY TickTree DEF OperationsInv, RunInv
<1> QED BY <1>1, <1>2, <1>3, <1>5, <1>6 DEF OperationsInv, RunInv, OverlayInv, ForegroundInv

LEMMA WorkerStepKeeps ==
  ASSUME OperationsInv, WorkerStep
  PROVE  OperationsInv'
<1>1. UNCHANGED <<discoveryVars, uiVars, treeVars, worldVars>>
  BY DEF WorkerStep
<1>2. RunInv' /\ OverlayInv' /\ NumbersInv'
  BY WorkerStepNumbers DEF OperationsInv, RunInv
<1>3. ListInv'
  BY <1>1, ListStays DEF OperationsInv, discoveryVars, uiVars, worldVars
<1> QED BY <1>1, <1>2, <1>3 DEF OperationsInv, RunInv, TreeInv, treeVars, ForegroundInv, uiVars

LEMMA ScoutStepKeeps ==
  ASSUME OperationsInv, NEW w \in Scout, ScoutStepOf(w)
  PROVE  OperationsInv'
<1>1. UNCHANGED <<removalVars, uiVars, treeVars, worldVars>>
  BY DEF ScoutStepOf
<1>2. RunInv' /\ Caught' = Caught
  BY <1>1, RunKept DEF OperationsInv, RunInv, removalVars, uiVars, worldVars
<1>3. ListInv' /\ list'.cleaner = list.cleaner
  BY ScoutStepList DEF OperationsInv
<1>4. Grows(list.cleaner, list'.cleaner)
  BY <1>3, StateIsList, GrowsFromItself DEF OperationsInv
<1>5. UNCHANGED <<worker, overlay, run, scenario>>
  BY <1>1 DEF removalVars, uiVars, worldVars
<1>6. NumbersInv'
  BY <1>2, <1>3, <1>4, <1>5, NumbersKept DEF OperationsInv, RunInv
<1> QED BY <1>1, <1>2, <1>3, <1>6
        DEF OperationsInv, RunInv, TreeInv, treeVars, OverlayInv, ForegroundInv, uiVars

LEMMA VanishOK ==
  ASSUME OperationsInv, Vanish
  PROVE  OperationsInv'
<1>1. UNCHANGED <<worker, discoveryVars, uiVars, treeVars, inventory, scenario>>
  BY DEF Vanish
<1>2. RunInv' /\ Caught' = Caught
  BY VanishKeeps DEF OperationsInv, RunInv
<1>3. ListInv' /\ OverlayInv' /\ NumbersInv'
  BY <1>1, <1>2, RestKept DEF uiVars, discoveryVars
<1> QED BY <1>1, <1>2, <1>3 DEF OperationsInv, RunInv, TreeInv, treeVars, ForegroundInv, uiVars

LEMMA ReadAgainKeeps ==
  ASSUME OperationsInv, ReadAgain
  PROVE  OperationsInv'
<1>1. UNCHANGED <<removalVars, discoveryVars, uiVars, worldVars, tree, made, marks, counted>>
  BY DEF ReadAgain
<1>2. RunInv' /\ Caught' = Caught
  BY <1>1, RunKept DEF OperationsInv, RunInv, removalVars, uiVars, worldVars
<1>3. ListInv' /\ OverlayInv' /\ NumbersInv'
  BY <1>1, <1>2, RestKept DEF removalVars, discoveryVars, uiVars, worldVars
<1>4. IsReading(rescans')
  <2>1. PICK d \in DOMAIN rescans : rescans' = [rescans EXCEPT ![d] = Under(d) \cap disk]
    BY DEF ReadAgain
  <2>2. IsReading(rescans) /\ disk \subseteq Entry
    BY DEF OperationsInv, TreeInv, DiskInv
  <2> QED BY <2>1, <2>2 DEF IsReading
<1>5. TreeInv'
  BY <1>1, <1>4 DEF OperationsInv, TreeInv
<1> QED BY <1>1, <1>2, <1>3, <1>5 DEF OperationsInv, RunInv, ForegroundInv, uiVars

LEMMA AnswerInventoryKeeps ==
  ASSUME OperationsInv, AnswerInventory
  PROVE  OperationsInv'
<1>1. UNCHANGED <<removalVars, discoveryVars, uiVars, treeVars, before, lost, scenario, keys>>
  BY DEF AnswerInventory
<1>2. RunInv' /\ Caught' = Caught
  BY <1>1, RunKept DEF OperationsInv, RunInv, removalVars, uiVars
<1>3. ListInv' /\ list'.cleaner = list.cleaner
  BY AnswerInventoryList DEF OperationsInv
<1>4. Grows(list.cleaner, list'.cleaner)
  BY <1>3, StateIsList, GrowsFromItself DEF OperationsInv
<1>5. UNCHANGED <<worker, overlay, run, scenario>>
  BY <1>1 DEF removalVars, uiVars
<1>6. NumbersInv'
  BY <1>2, <1>3, <1>4, <1>5, NumbersKept DEF OperationsInv, RunInv
<1> QED BY <1>1, <1>2, <1>3, <1>6
        DEF OperationsInv, RunInv, TreeInv, treeVars, OverlayInv, ForegroundInv, uiVars

LEMMA StutterKeeps ==
  ASSUME OperationsInv, UNCHANGED vars
  PROVE  OperationsInv'
<1>1. UNCHANGED <<removalVars, discoveryVars, uiVars, treeVars, worldVars>>
  BY DEF vars
<1>2. RunInv' /\ Caught' = Caught
  BY <1>1, RunKept DEF OperationsInv, RunInv, removalVars, uiVars, worldVars
<1>3. UNCHANGED <<list, searches, scout, finds, inventory, scenario, worker, overlay, run>>
  BY <1>1 DEF removalVars, discoveryVars, uiVars, worldVars
<1>4. ListInv' /\ OverlayInv' /\ NumbersInv'
  BY <1>2, <1>3, RestKept
<1> QED BY <1>1, <1>2, <1>4 DEF OperationsInv, RunInv, TreeInv, treeVars, ForegroundInv, uiVars

LEMMA InitIsGood ==
  ASSUME Init
  PROVE  OperationsInv
<1>1. /\ scenario \in Scenarios /\ disk = Entry /\ obstacles = scenario.obstacles /\ cancel = FALSE
      /\ worker = NoWorker /\ channel = <<>>
      /\ list = [cleaner |-> EmptyList, roots |-> <<>>, rules |-> scenario.protected]
      /\ tree = [d \in Directory |-> [node |-> 1, total |-> SizeOf(Under(d) \cap disk)]] /\ made = 1
      /\ rescans = <<>> /\ marks = <<>> /\ counted = FilesOf(Entry)
      /\ run = NoRun /\ overlay = NoDialog /\ foreground = NoAction
      /\ inventory = NoAnswer /\ before = Entry /\ lost = {}
      /\ searches = NoSearches /\ scout = [w \in Scout |-> AtRest] /\ finds = <<>>
  BY DEF Init, DiscoveryInit
<1>2. DiskInv /\ LinkInv /\ CountInv
  <2>1. scenario.obstacles \in [Entry -> Obstacles]
    BY <1>1, OperationsAssumption DEF Obstacles
  <2>2. DiskInv
    BY <1>1, <2>1 DEF DiskInv
  <2>3. LinkInv
    BY <1>1 DEF LinkInv
  <2> QED BY <1>1, <2>2, <2>3 DEF CountInv
<1>3. IsList(EmptyList)
  <2>1. Elements(<<>>) = {} /\ Distinct(<<>>)
    BY DEF Elements, Distinct
  <2>2. EmptyList.candidates = <<>> /\ EmptyList.next = 1 /\ EmptyList.known = {}
    BY DEF EmptyList
  <2>3. DOMAIN EmptyList = {"candidates", "next", "known", "search", "docker"}
    BY DEF EmptyList
  <2> QED BY <2>1, <2>2, <2>3 DEF IsList
<1>4. IsSearches(NoSearches) /\ NoSearches.known = <<>>
  BY DEF IsSearches, NoSearches
<1>5. IsState(State)
  <2>1. PICK s : s = State
    OBVIOUS
  <2>2. /\ DOMAIN s = {"cleaner", "roots", "rules", "searches", "enabled"}
        /\ s.cleaner = EmptyList /\ s.roots = <<>> /\ s.rules = scenario.protected
        /\ s.searches = NoSearches
    BY <1>1, <2>1 DEF State
  <2>3. IsRoots(s.roots)
    BY <2>2 DEF IsRoots
  <2>4. s.cleaner.search = NoSearch
    BY <2>2 DEF EmptyList
  <2>5. IsState(s)
    BY <1>3, <1>4, <2>2, <2>3, <2>4 DEF IsState
  <2> QED BY <2>1, <2>5
<1>6. ListInv
  <2>1. inventory.status = "pending"
    BY <1>1 DEF NoAnswer
  <2>2. DOMAIN list = {"cleaner", "roots", "rules"}
    BY <1>1
  <2>3. finds \in Seq(Reports) /\ scout \in [Scout -> Activities]
    BY <1>1 DEF Activities
  <2> QED BY <1>5, <2>1, <2>2, <2>3 DEF ListInv
<1>7. OverlayInv /\ ForegroundInv /\ NumbersInv /\ TreeInv
  <2>1. overlay.type # "confirm"
    BY <1>1 DEF NoDialog
  <2>2. ASSUME NEW d \in Directory PROVE SizeOf(Under(d) \cap disk) \in Nat
    <3>1. FilesOf(Under(d) \cap disk) \subseteq Entry
      BY <1>1 DEF FilesOf
    <3> QED BY <3>1, SizesAreNat
  <2>3. IsNodes(tree) /\ made \in Nat
    BY <1>1, <2>2 DEF IsNodes
  <2>4. IsReading(rescans) /\ IsMarks(marks) /\ counted \subseteq Entry
    BY <1>1 DEF IsReading, IsMarks, FilesOf
  <2> QED BY <1>1, <2>1, <2>3, <2>4 DEF OverlayInv, ForegroundInv, NumbersInv, TreeInv
<1> QED BY <1>2, <1>6, <1>7 DEF OperationsInv

(* Whatever the keys, the thread of a run, the scanner threads, Docker and *)
(* other programs do, and in whatever order, the invariant holds.          *)
THEOREM OperationsInvariant == Spec => []OperationsInv
<1>1. Init => OperationsInv
  BY InitIsGood
<1>2. OperationsInv /\ [Next]_vars => OperationsInv'
  <2> SUFFICES ASSUME OperationsInv, [Next]_vars
               PROVE  OperationsInv'
    OBVIOUS
  <2>1. CASE UserStep
    BY <2>1, ToggleMarkKeeps, RequestDeletionOK, RequestCleaningOK, SelectTargetsKeeps,
       RestartCleanerKeeps, RescanDirectoryKeeps, ChangeRulesKeeps, ConfirmRunOK, ConfirmElevationKeeps, CloseDialogKeeps,
       RequestCancelOK, DismissOperationOK
       DEF UserStep
  <2>2. CASE RunForeground
    BY <2>2, RunForegroundOK
  <2>3. CASE Tick
    BY <2>3, TickOK
  <2>4. CASE WorkerStep
    BY <2>4, WorkerStepKeeps
  <2>5. CASE Vanish \/ ReadAgain
    BY <2>5, VanishOK, ReadAgainKeeps
  <2>6. CASE AnswerInventory
    BY <2>6, AnswerInventoryKeeps
  <2>7. ASSUME NEW w \in Scout, ScoutStepOf(w)
        PROVE  OperationsInv'
    BY <2>7, ScoutStepKeeps
  <2>8. CASE UNCHANGED vars
    BY <2>8, StutterKeeps
  <2> QED BY <2>1, <2>2, <2>3, <2>4, <2>5, <2>6, <2>7, <2>8 DEF Next
<1> QED BY <1>1, <1>2, PTL DEF Spec

-----------------------------------------------------------------------------
(* What the invariant says of the properties. *)

(* The report of a run that is over is the one that the modal holds. *)
LEMMA SettledParts ==
  ASSUME RunInv, Settled
  PROVE  /\ run # NoRun
         /\ \/ worker.at = "item" /\ worker # NoWorker /\ Report = worker.outcomes
            \/ /\ worker = NoWorker /\ worker.at # "item" /\ run.finished
               /\ Caught = run /\ Report = run.report
<1>1. CASE worker.at = "item"
  <2>1. worker # NoWorker
    BY <1>1 DEF NoWorker
  <2>2. run # NoRun
    BY <2>1 DEF RunInv, LinkInv
  <2> QED BY <1>1, <2>1, <2>2 DEF Report
<1>2. CASE ~(worker.at = "item")
  <2>1. run # NoRun /\ run.finished
    BY <1>2 DEF Settled
  <2>2. worker = NoWorker /\ channel = <<>>
    BY <2>1 DEF RunInv, LinkInv
  <2>3. Caught = run
    BY <2>2, NoMessages DEF Caught
  <2> QED BY <1>2, <2>1, <2>2, <2>3 DEF Report
<1> QED BY <1>1, <1>2

(* Every variable keeps its type. *)
THEOREM OperationsTypes == Spec => []OperationsTypeOK
<1>1. OperationsInv => OperationsTypeOK
  <2> SUFFICES ASSUME OperationsInv
               PROVE  OperationsTypeOK
    OBVIOUS
  <2>1. IsList(list.cleaner) /\ IsRoots(list.roots)
          /\ list.cleaner.search \in DOMAIN searches.known \cup {NoSearch}
    BY StateIsList DEF OperationsInv
  <2>2. list.cleaner.next \in Nat \ {0} /\ DOMAIN list.roots \subseteq Entry
    BY <2>1 DEF IsList, IsRoots
  <2>3. run # NoRun => run.finishedCount \in 0 .. run.total /\ Len(run.recent) <= RecentCapacity
    BY DEF OperationsInv, LinkInv, IsRun, RunRecords
  <2>4. worker # NoWorker => Len(worker.outcomes) <= Len(worker.plan)
    BY DEF OperationsInv, LinkInv, IsWorker
  <2>5. disk \subseteq Entry /\ cancel \in BOOLEAN
    BY DEF OperationsInv, DiskInv
  <2>6. /\ DOMAIN tree \subseteq Directory /\ \A d \in DOMAIN tree : tree[d].total \in Nat
        /\ DOMAIN marks \subseteq Entry /\ \A e \in DOMAIN marks : marks[e].size \in Nat
    BY DEF OperationsInv, TreeInv, IsNodes, IsMarks
  <2>7. /\ DOMAIN rescans \subseteq Directory /\ counted \subseteq Entry
        /\ \A d \in DOMAIN rescans : rescans[d] # Unread => rescans[d] \subseteq Entry
    BY DEF OperationsInv, TreeInv, IsReading
  <2> QED BY <2>1, <2>2, <2>3, <2>4, <2>5, <2>6, <2>7 DEF OperationsTypeOK
<1> QED BY <1>1, OperationsInvariant, PTL

(* Once an item of a run ends because of a cancellation, the items after   *)
(* it do too, and nothing of them was removed: the flag is never reset     *)
(* while the thread runs.                                                  *)
THEOREM CancelledUntouched == Spec => []CancelledStayUntouched
<1>1. OperationsInv => CancelledStayUntouched
  <2> SUFFICES ASSUME OperationsInv, Settled
               PROVE  Untouched(Report)
    BY DEF CancelledStayUntouched, Untouched
  <2>1. RunInv
    BY DEF OperationsInv, RunInv
  <2>2. CASE worker # NoWorker /\ Report = worker.outcomes
    BY <2>2 DEF OperationsInv, LinkInv, Stopped
  <2>3. CASE run # NoRun /\ worker = NoWorker /\ Caught = run /\ Report = run.report
    BY <2>3 DEF OperationsInv, LinkInv, Concluded
  <2> QED BY <2>1, <2>2, <2>3, SettledParts
<1> QED BY <1>1, OperationsInvariant, PTL

(* Whatever stops a permanent run, each entry that it took off the disk is *)
(* counted in a report, once.                                              *)
THEOREM NothingUnreported == Spec => []NothingGoneUnreported
<1>1. OperationsInv => NothingGoneUnreported
  <2> SUFFICES ASSUME OperationsInv, Settled, scenario.mode = "permanent" \/ run.kind = "clean"
               PROVE  Cardinality(before \ (disk \cup lost)) = EntriesGone
    BY DEF NothingGoneUnreported
  <2>1. RunInv /\ run # NoRun
    BY SettledParts DEF OperationsInv, RunInv
  <2>2. CASE worker.at = "item" /\ worker # NoWorker /\ Report = worker.outcomes
    <3>1. Cardinality(before \ (disk \cup lost)) = Removed(worker)
      BY <2>1, <2>2 DEF OperationsInv, CountInv
    <3>2. EntriesGone = SumOf(worker.outcomes, "entries") + InHand(worker)
      BY <2>2, Zenon DEF EntriesGone, InHand
    <3> QED BY <3>1, <3>2 DEF Removed
  <2>3. CASE worker = NoWorker /\ worker.at # "item" /\ Caught = run /\ Report = run.report
    <3>1. Cardinality(before \ (disk \cup lost)) = SumOf(run.report, "entries")
      BY <2>1, <2>3 DEF OperationsInv, CountInv
    <3>2. EntriesGone = SumOf(run.report, "entries") + 0
      BY <2>3, Zenon DEF EntriesGone
    <3>3. SumOf(run.report, "entries") \in Nat
      <4>1. run.report \in Seq(OutcomeRecords)
        BY <2>1 DEF RunInv, LinkInv, IsRun, RunRecords
      <4>2. PICK s, f : s = run.report /\ f = "entries"
        OBVIOUS
      <4>3. s \in Seq(OutcomeRecords) /\ \A x \in OutcomeRecords : x[f] \in Nat
        BY <4>1, <4>2 DEF OutcomeRecords
      <4>4. SumOf(s, f) \in Nat
        BY <4>3, SumOfType
      <4> QED BY <4>2, <4>4
    <3> QED BY <3>1, <3>2, <3>3
  <2> QED BY <2>1, <2>2, <2>3, SettledParts
<1> QED BY <1>1, OperationsInvariant, PTL

(* The modal never shows more than was removed, and ends with the sums of  *)
(* the report, whenever its messages arrive.                               *)
THEOREM ModalSums == Spec => []ModalAddsUp
<1>1. OperationsInv => ModalAddsUp
  <2> SUFFICES ASSUME OperationsInv
               PROVE  ModalAddsUp
    OBVIOUS
  <2>1. RunInv
    BY DEF OperationsInv, RunInv
  <2>2. ASSUME Running, Settled
        PROVE  run.finishedEntries + run.entries <= EntriesGone
    <3>1. worker.at = "item" /\ worker # NoWorker /\ Report = worker.outcomes
      BY <2>1, <2>2, SettledParts DEF Running
    <3>2. EntriesGone = SumOf(worker.outcomes, "entries") + InHand(worker)
      BY <3>1, Zenon DEF EntriesGone, InHand
    <3>3. run.finishedEntries + run.entries <= Removed(worker)
      BY <3>1 DEF OperationsInv, LinkInv
    <3> QED BY <3>2, <3>3 DEF Removed
  <2>3. ASSUME run # NoRun, run.finished
        PROVE  /\ run.finishedCount = run.total /\ Len(run.report) = run.total
               /\ run.finishedEntries + run.entries = SumOf(run.report, "entries")
               /\ run.finishedBytes + run.bytes = SumOf(run.report, "reclaimed")
    <3>1. worker = NoWorker /\ Caught = run
      <4>1. worker = NoWorker /\ channel = <<>>
        BY <2>3 DEF OperationsInv, LinkInv
      <4> QED BY <4>1, NoMessages DEF Caught
    <3>2. Concluded(run)
      BY <2>3, <3>1 DEF OperationsInv, LinkInv
    <3>3. run.finishedEntries \in Nat /\ run.finishedBytes \in Nat
      BY <2>3 DEF OperationsInv, LinkInv, IsRun, RunRecords
    <3>4. run.finishedEntries + run.entries = run.finishedEntries
            /\ run.finishedBytes + run.bytes = run.finishedBytes
      BY <3>2, <3>3 DEF Concluded
    <3> QED BY <3>2, <3>4 DEF Concluded
  <2> QED BY <2>2, <2>3 DEF ModalAddsUp
<1> QED BY <1>1, OperationsInvariant, PTL

(* No target is listed twice, however often and by whom it is found.       *)
THEOREM TargetsStayUnique == Spec => []TargetsUnique
<1>1. OperationsInv => TargetsUnique
  <2> SUFFICES ASSUME OperationsInv
               PROVE  Unique(list.cleaner)
    BY DEF TargetsUnique
  <2>1. PICK c : c = list.cleaner
    OBVIOUS
  <2>2. IsList(c)
    BY <2>1, StateIsList DEF OperationsInv
  <2>3. ASSUME NEW i \in DOMAIN c.candidates, NEW j \in DOMAIN c.candidates, i # j
        PROVE  /\ c.candidates[i].id # c.candidates[j].id
               /\ c.candidates[i].path # NoPath => c.candidates[i].path # c.candidates[j].path
    <3>1. c.candidates[i] \in Elements(c.candidates) /\ c.candidates[j] \in Elements(c.candidates)
      BY DEF Elements
    <3>2. c.candidates[i] # c.candidates[j]
      BY <2>2, <2>3 DEF IsList, Distinct
    <3> QED BY <2>2, <3>1, <3>2 DEF IsList, Apart
  <2> QED BY <2>1, <2>3 DEF Unique
<1> QED BY <1>1, OperationsInvariant, PTL

(* What a rule covers, or a container uses, is never selected, by no key   *)
(* and by no default: at no step of a search, an answer of Docker or a     *)
(* report is a target listed without its protection.                       *)
THEOREM ProtectedUnselected == Spec => []ProtectedNeverSelected
<1>1. OperationsInv => ProtectedNeverSelected
  <2> SUFFICES ASSUME OperationsInv, Shielded, NEW i \in DOMAIN list.cleaner.candidates,
                      list.cleaner.candidates[i].selected
               PROVE  ~Guarded(list.cleaner.candidates[i])
    BY DEF ProtectedNeverSelected, Shielded, Guarded
  <2>1. PICK c, x : c = list.cleaner /\ x = c.candidates[i]
    OBVIOUS
  <2>2. IsList(c)
    BY <2>1, StateIsList DEF OperationsInv
  <2>3. x \in Elements(c.candidates)
    BY <2>1 DEF Elements
  <2>4. x.selected => ~x.protected
    BY <2>2, <2>3 DEF IsList, InList
  <2>5. Guarded(x) => x.protected
    BY <2>2, <2>3 DEF IsList, InList
  <2> QED BY <2>1, <2>4, <2>5
<1> QED BY <1>1, OperationsInvariant, PTL

(* While a run or a dialog holds targets by their numbers, no number comes *)
(* to stand for another target.                                            *)
THEOREM NumbersKeepTargets == Spec => []NumbersKeepTheirTargets
<1>1. OperationsInv => NumbersKeepTheirTargets
  <2> SUFFICES ASSUME OperationsInv
               PROVE  NumbersKeepTheirTargets
    OBVIOUS
  <2> DEFINE running == IF worker.at = "item" /\ worker.kind = "clean" THEN ToSet(worker.plan) ELSE {}
             asked == IF overlay.type = "confirm" /\ overlay.action \in {"clean", "elevate clean"}
                      THEN ToSet(overlay.plan) ELSE {}
  <2>1. ASSUME NEW item \in running
        PROVE  Names(list.cleaner, item)
    <3>1. worker.at = "item" /\ worker.kind = "clean" /\ item \in ToSet(worker.plan)
      BY <2>1
    <3>2. worker # NoWorker
      BY <3>1 DEF NoWorker
    <3>3. run # NoRun /\ run.kind = "clean"
      BY <3>1, <3>2 DEF OperationsInv, LinkInv, UnderWay
    <3>4. ReportedItems = worker.plan
      BY <3>2 DEF ReportedItems
    <3> QED BY <3>1, <3>3, <3>4 DEF OperationsInv, NumbersInv, ToSet, Elements
  <2>2. ASSUME NEW item \in asked
        PROVE  Names(list.cleaner, item)
    BY <2>2 DEF OperationsInv, NumbersInv, ToSet, Elements
  <2> HIDE DEF running, asked
  <2>3. \A item \in running \cup asked : \A i \in DOMAIN list.cleaner.candidates :
          list.cleaner.candidates[i].id = item.id => list.cleaner.candidates[i].path = item.path
    BY <2>1, <2>2 DEF Names, Elements
  <2> QED BY <2>3 DEF NumbersKeepTheirTargets, running, asked
<1> QED BY <1>1, OperationsInvariant, PTL

(* Of the paths of P that e lies below one lies below no other: the one    *)
(* that lies below the fewest.                                             *)
LEMMA OutermostPath ==
  ASSUME NEW P \in SUBSET Entry, NEW e \in Entry, NEW p \in P, e \in Under(p)
  PROVE  \E m \in P : e \in Under(m) /\ \A r \in P \ {m} : m \notin Under(r)
<1> DEFINE above(m) == {q \in P \ {m} : m \in Under(q)}
           S == {q \in P : e \in Under(q)}
           G == {Cardinality(above(m)) : m \in S}
<1>1. \A m \in P : above(m) \subseteq Entry /\ IsFiniteSet(above(m)) /\ Cardinality(above(m)) \in Nat
  BY RemovalAssumption, FS_Subset, FS_CardinalityType
<1>2. G \in SUBSET Nat /\ G # {}
  BY <1>1
<1>3. PICK n \in G : \A k \in G : n <= k
  <2> HIDE DEF G
  <2> QED BY <1>2, LeastOf
<1>4. PICK m \in S : n = Cardinality(above(m))
  BY <1>3
<1>5. ASSUME NEW r \in P \ {m}, m \in Under(r)
      PROVE  FALSE
  <2>1. m \in Entry /\ r \in Entry /\ e \in Under(m)
    BY <1>4
  <2>2. \A f, g \in Entry : f \in Under(g) => Under(f) \subseteq Under(g) /\ (g \in Under(f) => f = g)
    BY RemovalAssumption
  <2>3. e \in Under(r)
    BY <1>5, <2>1, <2>2
  <2>4. above(r) \subseteq above(m) \ {r}
    BY <1>5, <2>1, <2>2
  <2>5. r \in above(m) /\ r \notin above(r)
    BY <1>5
  <2>6. PICK A, B : A = above(r) /\ B = above(m)
    OBVIOUS
  <2>7. IsFiniteSet(A) /\ IsFiniteSet(B) /\ Cardinality(A) \in Nat /\ Cardinality(B) \in Nat
    BY <1>1, <1>4, <1>5, <2>6
  <2>8. A \in SUBSET B /\ A # B
    BY <2>4, <2>5, <2>6
  <2>9. Cardinality(A) < Cardinality(B)
    BY <2>7, <2>8, FS_Subset
  <2>10. Cardinality(A) \in G
    <3>1. r \in S
      BY <1>5, <2>3
    <3>2. Cardinality(above(r)) \in G
      <4> HIDE DEF S, above
      <4> QED BY <3>1
    <3> QED BY <2>6, <3>2
  <2>11. n <= Cardinality(A)
    <3> HIDE DEF G
    <3> QED BY <1>3, <2>10
  <2>12. n = Cardinality(B)
    BY <1>4, <2>6
  <2> QED BY <2>7, <2>9, <2>11, <2>12
<1> QED BY <1>4, <1>5

(* A plan of the cleaner covers what is selected, each thing once, and     *)
(* nothing that is protected, whatever was selected and found before.      *)
LEMMA PlanCovers ==
  ASSUME NEW c, IsList(c)
  PROVE  PlanCoversSelection(c)
<1> DEFINE A == {x \in Elements(c.candidates) : x.selected /\ ~x.protected}
           a == Actionable(c)
           P == {x.path : x \in {y \in A : y.what # "external"}}
           Kept(x) == x.what = "external" \/ ~\E p \in P \ {x.path} : x.path \in Under(p)
           plan == BuildPlan(c)
           paths == {x.path : x \in {y \in Elements(plan) : y.what # "external"}}
<1>1. c.candidates \in Seq(Candidates)
  BY DEF IsList
<1>2. a \in Seq(Candidates \cap A) /\ Elements(a) = A
  <2>1. a = Retain(c.candidates, A)
    BY DEF Actionable
  <2>2. A \subseteq Elements(c.candidates)
    OBVIOUS
  <2> HIDE DEF A, a
  <2>3. PICK s : s = c.candidates
    OBVIOUS
  <2>4. Retain(s, A) \in Seq(Candidates \cap A) /\ Elements(Retain(s, A)) = Elements(s) \cap A
    BY <1>1, <2>3, RetainMembers
  <2> QED BY <2>1, <2>2, <2>3, <2>4
<1>3. P = {a[i].path : i \in {k \in DOMAIN a : a[k].what # "external"}}
  <2> HIDE DEF A, a
  <2> QED BY <1>2 DEF Elements
<1>4. plan = Retain(a, {x \in Elements(a) : Kept(x)})
  <2> HIDE DEF P
  <2> QED BY <1>3, Zenon DEF BuildPlan
<1>5. Elements(plan) = {x \in A : Kept(x)}
  <2> DEFINE K == {x \in Elements(a) : Kept(x)}
  <2>1. plan = Retain(a, K)
    BY <1>4
  <2>2. K \subseteq Elements(a) /\ K = {x \in A : Kept(x)}
    <3> HIDE DEF Kept, A, a
    <3> QED BY <1>2
  <2>3. Elements(plan) = Elements(a) \cap K
    <3> HIDE DEF A, a, plan, K
    <3> QED BY <1>2, <2>1, RetainMembers
  <2> HIDE DEF K, Kept, A, a, plan
  <2> QED BY <2>2, <2>3
<1>6. paths = {plan[i].path : i \in {k \in DOMAIN plan : plan[k].what # "external"}}
  <2> HIDE DEF plan
  <2> QED BY DEF Elements
<1>7. \A x \in A : x.what # "external" => x.path \in Entry
  <2>1. \A x \in A : x \in Elements(c.candidates)
    OBVIOUS
  <2> HIDE DEF A
  <2> QED BY <2>1 DEF IsList, InList
<1>8. \A p, q \in paths : p \in Under(q) => p = q
  <2> SUFFICES ASSUME NEW x \in Elements(plan), NEW y \in Elements(plan), x.what # "external",
                      y.what # "external", x.path \in Under(y.path), x.path # y.path
               PROVE  FALSE
    <3> HIDE DEF plan
    <3> QED OBVIOUS
  <2>1. x \in A /\ y \in A /\ Kept(x)
    <3> HIDE DEF plan, Kept, A
    <3> QED BY <1>5
  <2>2. y.path \in P \ {x.path}
    <3> HIDE DEF plan, A
    <3> QED BY <2>1
  <2> HIDE DEF P, A, plan
  <2> QED BY <2>1, <2>2
<1>9. ASSUME NEW i \in DOMAIN c.candidates, c.candidates[i].selected
      PROVE  /\ ~c.candidates[i].protected
             /\ \/ \E k \in DOMAIN plan : plan[k].id = c.candidates[i].id
                \/ c.candidates[i].what # "external"
                     /\ \E p \in paths : c.candidates[i].path \in Under(p)
  <2>1. PICK x : x = c.candidates[i]
    OBVIOUS
  <2>2. x \in Elements(c.candidates)
    BY <2>1 DEF Elements
  <2>3. ~x.protected
    BY <1>9, <2>1, <2>2 DEF IsList, InList
  <2>4. x \in A
    BY <1>9, <2>1, <2>2, <2>3
  <2>5. CASE Kept(x)
    <3>1. x \in Elements(plan)
      <4> HIDE DEF Kept, A, plan
      <4> QED BY <1>5, <2>4, <2>5
    <3> HIDE DEF plan
    <3> QED BY <2>1, <2>3, <3>1 DEF Elements
  <2>6. CASE ~Kept(x)
    <3>1. x.what # "external" /\ \E p \in P : x.path \in Under(p)
      <4> HIDE DEF P, A, plan
      <4> QED BY <2>6
    <3>2. P \in SUBSET Entry
      <4> HIDE DEF A
      <4> QED BY <1>7
    <3>3. x.path \in Entry
      <4> HIDE DEF A
      <4> QED BY <1>7, <2>4, <3>1
    <3>4. PICK m \in P : x.path \in Under(m) /\ \A r \in P \ {m} : m \notin Under(r)
      <4> HIDE DEF P, A
      <4> QED BY <3>1, <3>2, <3>3, OutermostPath
    <3>5. PICK y \in A : y.what # "external" /\ y.path = m
      <4> HIDE DEF A
      <4> QED OBVIOUS
    <3>6. Kept(y)
      <4> HIDE DEF P, A
      <4> QED BY <3>4, <3>5
    <3>7. y \in Elements(plan)
      <4> HIDE DEF Kept, A, plan, P
      <4> QED BY <1>5, <3>5, <3>6
    <3>8. m \in paths
      <4> HIDE DEF plan, P, A
      <4> QED BY <3>5, <3>7
    <3> HIDE DEF plan, paths, P, A
    <3> QED BY <2>1, <2>3, <3>1, <3>4, <3>8
  <2> QED BY <2>5, <2>6
<1> HIDE DEF plan, paths, P, A, a, Kept
<1> QED BY <1>6, <1>8, <1>9, Zenon DEF PlanCoversSelection, plan

(* What would be cleaned is what is selected, at any time.                 *)
THEOREM SelectionCovered == Spec => []SelectionIsCovered
<1>1. OperationsInv => SelectionIsCovered
  <2> SUFFICES ASSUME OperationsInv
               PROVE  SelectionIsCovered
    OBVIOUS
  <2>1. PICK c : c = list.cleaner
    OBVIOUS
  <2>2. IsList(c)
    BY <2>1, StateIsList DEF OperationsInv
  <2>3. PlanCoversSelection(c)
    BY <2>2, PlanCovers
  <2> QED BY <2>1, <2>3 DEF SelectionIsCovered
<1> QED BY <1>1, OperationsInvariant, PTL

-----------------------------------------------------------------------------
(* The walk of a search: which tasks there are, and what each brings. *)

(* What a search starts from, and the directories at each depth below. *)
Origins == ToSet(DiscoveryRoots) \ Excluded
WalkStep(r, g, n) ==
  IF n = 0 THEN {r} ELSE UNION {Descended(p, n - 1) : p \in g[n - 1]}
Levels(r) == CHOOSE g : g = [n \in 0 .. DiscoveryDepth |-> WalkStep(r, g, n)]

(* All that there is to find. *)
Artifacts == UNION {Accepted(p) : p \in UNION {Walked(r) : r \in Origins}}

LEMMA LevelsUnfold ==
  ASSUME NEW r
  PROVE  /\ Levels(r) = [n \in 0 .. DiscoveryDepth |-> WalkStep(r, Levels(r), n)]
         /\ Walked(r) = UNION {Levels(r)[n] : n \in 0 .. DiscoveryDepth}
<1> DEFINE F == {k \in Nat : \E g : g = [n \in 0 .. k |-> WalkStep(r, g, n)]}
<1>1. 0 \in F
  <2>1. PICK c : c = [n \in 0 .. 0 |-> WalkStep(r, <<>>, n)]
    BY Zenon
  <2>2. \A n \in 0 .. 0 : WalkStep(r, <<>>, n) = WalkStep(r, c, n)
    BY DEF WalkStep
  <2>3. c = [n \in 0 .. 0 |-> WalkStep(r, c, n)]
    BY <2>1, <2>2
  <2> QED BY <2>3
<1>2. ASSUME NEW k \in F PROVE k + 1 \in F
  <2>1. PICK g : g = [n \in 0 .. k |-> WalkStep(r, g, n)]
    BY <1>2
  <2>2. PICK h : h = [n \in 0 .. k + 1 |-> WalkStep(r, g, n)]
    BY Zenon
  <2>3. k \in Nat
    BY <1>2
  <2>4. \A n \in 0 .. k : h[n] = g[n]
    <3>1. \A n \in 0 .. k : n \in 0 .. k + 1
      BY <2>3
    <3> QED BY <2>1, <2>2, <3>1
  <2>5. ASSUME NEW n \in 0 .. k + 1 PROVE WalkStep(r, g, n) = WalkStep(r, h, n)
    <3>1. CASE n = 0
      BY <3>1 DEF WalkStep
    <3>2. CASE n # 0
      <4>1. n - 1 \in 0 .. k
        BY <2>3, <3>2
      <4>2. h[n - 1] = g[n - 1]
        BY <2>4, <4>1
      <4> QED BY <4>2 DEF WalkStep
    <3> QED BY <3>1, <3>2
  <2>6. h = [n \in 0 .. k + 1 |-> WalkStep(r, h, n)]
    BY <2>2, <2>5
  <2> QED BY <2>3, <2>6
<1>3. F = Nat
  <2> HIDE DEF F
  <2>1. F \in SUBSET Nat
    BY DEF F
  <2> QED BY <1>1, <1>2, <2>1, NatSetInduction
<1>4. \E g : g = [n \in 0 .. DiscoveryDepth |-> WalkStep(r, g, n)]
  <2>1. DiscoveryDepth \in F
    BY <1>3, DiscoveryAssumption
  <2> QED BY <2>1
<1>5. Levels(r) = [n \in 0 .. DiscoveryDepth |-> WalkStep(r, Levels(r), n)]
  BY <1>4 DEF Levels
<1>6. Walked(r) = UNION {Levels(r)[n] : n \in 0 .. DiscoveryDepth}
  BY Zenon DEF Walked, Levels, WalkStep
<1> QED BY <1>5, <1>6

(* A task of a search: of a directory that the search reaches. *)
InWalk(t) ==
  /\ t \in Tasks /\ t.origin \in Origins
  /\ t.depth <= DiscoveryDepth /\ t.place \in Levels(t.origin)[t.depth]

LEMMA WalkFinds ==
  ASSUME NEW t, InWalk(t)
  PROVE  Accepted(t.place) \subseteq Artifacts
<1>1. t.depth \in 0 .. DiscoveryDepth
  BY DiscoveryAssumption DEF InWalk, Tasks
<1>2. t.place \in Walked(t.origin)
  <2> DEFINE L == Levels(t.origin)
  <2>1. t.place \in L[t.depth]
    BY DEF InWalk
  <2>2. Walked(t.origin) = UNION {L[n] : n \in 0 .. DiscoveryDepth}
    BY LevelsUnfold
  <2> HIDE DEF L
  <2> QED BY <1>1, <2>1, <2>2
<1>3. t.origin \in Origins
  BY DEF InWalk
<1> QED BY <1>2, <1>3 DEF Artifacts

LEMMA ChildrenParts ==
  ASSUME NEW t \in Tasks
  PROVE  /\ IsFiniteSet(Children(t))
         /\ \A c \in Children(t) :
              /\ c \in Tasks /\ c.search = t.search /\ c.origin = t.origin
              /\ c.depth = t.depth + 1
              /\ c.place \in Descended(t.place, t.depth) /\ c.place \in Subplaces[t.place]
         /\ \A d \in Descended(t.place, t.depth) :
              [search |-> t.search, place |-> d, origin |-> t.origin, depth |-> t.depth + 1]
                \in Children(t)
<1> DEFINE E == Descended(t.place, t.depth)
           Child(d) == [t EXCEPT !.place = d, !.depth = @ + 1]
<1>1. Children(t) = {Child(d) : d \in E}
  BY DEF Children
<1>2. E \subseteq Subplaces[t.place] /\ E \subseteq Place
  BY DiscoveryAssumption DEF Descended, Tasks
<1>3. IsFiniteSet(E)
  BY <1>2, DiscoveryAssumption, FS_Subset
<1>4. \A d \in E : Child(d) = [search |-> t.search, place |-> d, origin |-> t.origin, depth |-> t.depth + 1]
  <2> HIDE DEF E
  <2>1. t = [search |-> t.search, place |-> t.place, origin |-> t.origin, depth |-> t.depth]
    BY DEF Tasks
  <2>2. PICK n : n = t.depth + 1
    OBVIOUS
  <2>3. ASSUME NEW d
        PROVE  Child(d) = [search |-> t.search, place |-> d, origin |-> t.origin, depth |-> n]
    <3>1. Child(d) = [t EXCEPT !.place = d, !.depth = n]
      BY <2>2
    <3>2. DOMAIN t = {"search", "place", "origin", "depth"}
      BY <2>1
    <3> HIDE DEF Child
    <3> QED BY <3>1, <3>2
  <2> HIDE DEF Child
  <2> QED BY <2>2, <2>3
<1>5. IsFiniteSet(Children(t))
  <2> DEFINE f == [d \in E |-> Child(d)]
  <2>1. f \in [E -> Children(t)] /\ \A c \in Children(t) : \E d \in E : f[d] = c
    <3> HIDE DEF E, Child
    <3> QED BY <1>1
  <2> HIDE DEF f, E, Child
  <2>2. f \in Surjection(E, Children(t))
    BY <2>1 DEF Surjection
  <2> QED BY <1>3, <2>2, FS_Surjection
<1>6. ASSUME NEW c \in Children(t)
      PROVE  /\ c \in Tasks /\ c.search = t.search /\ c.origin = t.origin
             /\ c.depth = t.depth + 1
             /\ c.place \in E
  <2>1. PICK d \in E : c = Child(d)
    BY <1>1
  <2>2. c = [search |-> t.search, place |-> d, origin |-> t.origin, depth |-> t.depth + 1]
    BY <1>4, <2>1
  <2>3. d \in Place /\ t.search \in Nat /\ t.origin \in Place /\ t.depth + 1 \in Nat
    BY <1>2 DEF Tasks
  <2> HIDE DEF E, Child
  <2> QED BY <2>2, <2>3 DEF Tasks
<1> HIDE DEF Child
<1> QED BY <1>1, <1>2, <1>4, <1>5, <1>6

LEMMA ChildrenInWalk ==
  ASSUME NEW t, InWalk(t), NEW c \in Children(t)
  PROVE  InWalk(c)
<1>1. t \in Tasks /\ t.origin \in Origins /\ t.depth \in Nat
  BY DEF InWalk, Tasks
<1>2. c \in Tasks /\ c.origin = t.origin /\ c.depth = t.depth + 1 /\ c.place \in Descended(t.place, t.depth)
  BY <1>1, ChildrenParts
<1>3. t.depth + 1 <= DiscoveryDepth
  <2>1. ~(t.depth + 1 > DiscoveryDepth)
    BY <1>2 DEF Descended
  <2> QED BY <1>1, <2>1, DiscoveryAssumption
<1> DEFINE L == Levels(t.origin)
           n == t.depth
<1>4. n + 1 \in 0 .. DiscoveryDepth /\ n \in Nat
  BY <1>1, <1>3, DiscoveryAssumption
<1>5. L = [m \in 0 .. DiscoveryDepth |-> WalkStep(t.origin, L, m)] /\ t.place \in L[n]
  BY LevelsUnfold DEF InWalk
<1> HIDE DEF L, n
<1>6. L[n + 1] = WalkStep(t.origin, L, n + 1)
  BY <1>4, <1>5
<1>7. WalkStep(t.origin, L, n + 1) = UNION {Descended(p, n) : p \in L[n]}
  <2>1. n + 1 # 0 /\ (n + 1) - 1 = n
    BY <1>4
  <2> QED BY <2>1 DEF WalkStep
<1>8. c.place \in L[n + 1]
  BY <1>2, <1>5, <1>6, <1>7 DEF n
<1> QED BY <1>1, <1>2, <1>3, <1>8 DEF InWalk, L, n

(* No directory lies in two, so no task is pushed by two. *)
LEMMA OneParent ==
  ASSUME NEW t \in Tasks, NEW u \in Tasks, NEW c \in Children(t), c \in Children(u)
  PROVE  t = u
<1>1. /\ c.search = t.search /\ c.origin = t.origin /\ c.depth = t.depth + 1
      /\ c.place \in Subplaces[t.place]
  BY ChildrenParts
<1>2. /\ c.search = u.search /\ c.origin = u.origin /\ c.depth = u.depth + 1
      /\ c.place \in Subplaces[u.place]
  BY ChildrenParts
<1>3. t.place = u.place
  BY <1>1, <1>2, DiscoveryAssumption DEF Tasks
<1>4. t.depth = u.depth
  BY <1>1, <1>2 DEF Tasks
<1>5. /\ t = [search |-> t.search, place |-> t.place, origin |-> t.origin, depth |-> t.depth]
      /\ u = [search |-> u.search, place |-> u.place, origin |-> u.origin, depth |-> u.depth]
  BY DEF Tasks
<1>6. t.search = u.search /\ t.origin = u.origin
  BY <1>1, <1>2
<1> QED BY <1>3, <1>4, <1>5, <1>6

LEMMA LevelZero ==
  ASSUME NEW r
  PROVE  Levels(r)[0] = {r}
<1> DEFINE L == Levels(r)
<1>1. L = [m \in 0 .. DiscoveryDepth |-> WalkStep(r, L, m)]
  BY LevelsUnfold
<1>2. 0 \in 0 .. DiscoveryDepth
  BY DiscoveryAssumption
<1> HIDE DEF L
<1>3. L[0] = WalkStep(r, L, 0)
  BY <1>1, <1>2
<1> QED BY <1>3 DEF L, WalkStep
-----------------------------------------------------------------------------
(* The tasks A that exist and those D that are done, of the searches K.    *)

OfSearch(q, T) == {t \in T : t.search = q}
RootTask(q, r) == [search |-> q, place |-> r, origin |-> r, depth |-> 0]
RootTasks(q) == {RootTask(q, r) : r \in Origins}

(* Each is a root of its search or a child of one that is done, and what   *)
(* is done has left its children among them: nothing is lost or doubled.   *)
WalkOK(A, D, K) ==
  /\ IsFiniteSet(A) /\ A \cap D = {}
  /\ \A t \in A \cup D : /\ InWalk(t) /\ t.search \in K
                         /\ t.depth = 0 \/ \E u \in D : t \in Children(u)
  /\ \A u \in D : Children(u) \subseteq A \cup D
  /\ \A q \in K : RootTasks(q) \subseteq A \cup D

LEMMA RootTaskParts ==
  ASSUME NEW q \in Nat
  PROVE  /\ IsFiniteSet(RootTasks(q)) /\ Cardinality(RootTasks(q)) = Cardinality(Origins)
         /\ IsFiniteSet(Origins) /\ (RootTasks(q) = {} <=> Origins = {})
         /\ \A t \in RootTasks(q) : InWalk(t) /\ t.search = q /\ t.depth = 0
<1>1. Origins \subseteq Place /\ IsFiniteSet(Origins)
  <2>1. Origins \subseteq Place
    BY DiscoveryAssumption DEF Origins
  <2> QED BY <2>1, DiscoveryAssumption, FS_Subset
<1> DEFINE f == [r \in Origins |-> RootTask(q, r)]
<1>3. \A r \in Origins : RootTask(q, r).origin = r /\ RootTask(q, r) \in RootTasks(q)
  BY DEF RootTask, RootTasks
<1>4. f \in [Origins -> RootTasks(q)] /\ \A r \in Origins : f[r] = RootTask(q, r)
  BY <1>3
<1>5. \A r, o \in Origins : f[r] = f[o] => r = o
  BY <1>3, <1>4
<1>6. \A t \in RootTasks(q) : \E r \in Origins : f[r] = t
  BY <1>4 DEF RootTasks
<1> HIDE DEF f
<1>7. ExistsBijection(Origins, RootTasks(q))
  <2>1. f \in Bijection(Origins, RootTasks(q))
    BY <1>4, <1>5, <1>6 DEF Bijection, Injection, Surjection, IsInjective
  <2> QED BY <2>1 DEF ExistsBijection
<1>8. IsFiniteSet(RootTasks(q)) /\ Cardinality(RootTasks(q)) = Cardinality(Origins)
  BY <1>1, <1>7, FS_Bijection
<1>9. ASSUME NEW t \in RootTasks(q) PROVE InWalk(t) /\ t.search = q /\ t.depth = 0
  <2>1. PICK r \in Origins : t = RootTask(q, r)
    BY DEF RootTasks
  <2>2. /\ t.search = q /\ t.depth = 0 /\ t.place = r /\ t.origin = r
        /\ t \in Tasks
    BY <1>1, <2>1 DEF RootTask, Tasks
  <2>3. r \in Levels(r)[0]
    BY LevelZero
  <2>4. 0 <= DiscoveryDepth
    BY DiscoveryAssumption
  <2> QED BY <2>2, <2>3, <2>4 DEF InWalk
<1>10. RootTasks(q) = {} <=> Origins = {}
  BY DEF RootTasks
<1> QED BY <1>1, <1>8, <1>9, <1>10

LEMMA WalkStarts ==
  ASSUME NEW A, NEW D, NEW K, WalkOK(A, D, K), NEW q \in Nat, q \notin K
  PROVE  /\ WalkOK(A \cup RootTasks(q), D, K \cup {q})
         /\ OfSearch(q, A \cup RootTasks(q)) = RootTasks(q)
         /\ \A p \in K : OfSearch(p, A \cup RootTasks(q)) = OfSearch(p, A)
         /\ \A u \in D : u.search # q
<1> DEFINE R == RootTasks(q)
<1>1. /\ IsFiniteSet(R)
      /\ \A t \in R : InWalk(t) /\ t.search = q /\ t.depth = 0
  BY RootTaskParts
<1>2. \A t \in A \cup D : t.search # q
  BY DEF WalkOK
<1>3. IsFiniteSet(A \cup R)
  BY <1>1, FS_Union DEF WalkOK
<1>4. (A \cup R) \cap D = {}
  BY <1>1, <1>2 DEF WalkOK
<1>5. \A t \in (A \cup R) \cup D : /\ InWalk(t) /\ t.search \in K \cup {q}
                                   /\ t.depth = 0 \/ \E u \in D : t \in Children(u)
  <2> HIDE DEF R
  <2> QED BY <1>1 DEF WalkOK
<1>6. /\ \A u \in D : Children(u) \subseteq (A \cup R) \cup D
      /\ \A p \in K \cup {q} : RootTasks(p) \subseteq (A \cup R) \cup D
  BY DEF WalkOK
<1>7. WalkOK(A \cup R, D, K \cup {q})
  <2> HIDE DEF R
  <2> QED BY <1>3, <1>4, <1>5, <1>6 DEF WalkOK
<1>8. OfSearch(q, A \cup R) = R
  <2> HIDE DEF R
  <2> QED BY <1>1, <1>2 DEF OfSearch
<1>9. \A p \in K : OfSearch(p, A \cup R) = OfSearch(p, A)
  <2> HIDE DEF R
  <2> QED BY <1>1 DEF OfSearch
<1> QED BY <1>2, <1>7, <1>8, <1>9

LEMMA WalkGoesOn ==
  ASSUME NEW A, NEW D, NEW K, WalkOK(A, D, K), NEW t \in A
  PROVE  /\ WalkOK((A \ {t}) \cup Children(t), D \cup {t}, K)
         /\ Children(t) \cap A = {}
         /\ \A q : q # t.search => OfSearch(q, (A \ {t}) \cup Children(t)) = OfSearch(q, A)
         /\ IsFiniteSet(OfSearch(t.search, A)) /\ t \in OfSearch(t.search, A)
         /\ IsFiniteSet(OfSearch(t.search, (A \ {t}) \cup Children(t)))
         /\ Cardinality(OfSearch(t.search, (A \ {t}) \cup Children(t)))
              = Cardinality(OfSearch(t.search, A)) - 1 + Cardinality(Children(t))
<1> DEFINE C == Children(t)
           B == (A \ {t}) \cup C
           E == D \cup {t}
           q == t.search
<1>1. InWalk(t) /\ t \in Tasks /\ t.search \in K /\ t \notin D
  BY DEF WalkOK, InWalk
<1>2. IsFiniteSet(C) /\ \A c \in C : InWalk(c) /\ c.search = q /\ c.depth = t.depth + 1
  BY <1>1, ChildrenParts, ChildrenInWalk
<1>3. \A u \in A \cup D : u \in Tasks /\ InWalk(u)
  BY DEF WalkOK, InWalk
<1>4. ASSUME NEW c \in C PROVE c \notin A /\ c \notin D
  <2>1. c.depth # 0
    BY <1>1, <1>2 DEF Tasks
  <2>2. SUFFICES ASSUME c \in A \cup D PROVE FALSE
    OBVIOUS
  <2>3. PICK u \in D : c \in Children(u)
    BY <2>1, <2>2 DEF WalkOK
  <2>4. u = t
    BY <1>1, <1>3, <2>3, OneParent
  <2> QED BY <1>1, <2>3, <2>4
<1>5. t \notin C
  BY <1>4
<1> HIDE DEF C
<1>6. WalkOK(B, E, K)
  <2>1. IsFiniteSet(A \ {t}) /\ IsFiniteSet(B)
    <3>1. IsFiniteSet(A)
      BY DEF WalkOK
    <3>2. IsFiniteSet(A \ {t})
      BY <3>1, FS_Subset
    <3> QED BY <1>2, <3>2, FS_Union
  <2>2. B \cap E = {}
    BY <1>4, <1>5 DEF WalkOK
  <2>3. B \cup E = A \cup D \cup C
    OBVIOUS
  <2>4. ASSUME NEW u \in B \cup E
        PROVE  InWalk(u) /\ u.search \in K /\ (u.depth = 0 \/ \E x \in E : u \in Children(x))
    <3>1. CASE u \in C
      BY <1>1, <1>2, <3>1 DEF C
    <3>2. CASE u \in A \cup D
      BY <3>2 DEF WalkOK
    <3> HIDE DEF B, E
    <3> QED BY <2>3, <3>1, <3>2
  <2>5. \A u \in E : Children(u) \subseteq B \cup E
    <3>1. \A u \in D : Children(u) \subseteq A \cup D
      BY DEF WalkOK
    <3>2. Children(t) = C
      BY DEF C
    <3> HIDE DEF B
    <3> QED BY <2>3, <3>1, <3>2
  <2>6. \A p \in K : RootTasks(p) \subseteq B \cup E
    <3>1. \A p \in K : RootTasks(p) \subseteq A \cup D
      BY DEF WalkOK
    <3> HIDE DEF B, E
    <3> QED BY <2>3, <3>1
  <2> HIDE DEF B, E
  <2> QED BY <2>1, <2>2, <2>4, <2>5, <2>6 DEF WalkOK
<1>7. \A p : p # q => OfSearch(p, B) = OfSearch(p, A)
  BY <1>2 DEF OfSearch
<1> DEFINE S == OfSearch(q, A)
<1>8. S \subseteq A /\ t \in S /\ IsFiniteSet(S)
  <2>1. S \subseteq A /\ t \in S
    BY DEF OfSearch
  <2>2. IsFiniteSet(A)
    BY DEF WalkOK
  <2> HIDE DEF S
  <2> QED BY <2>1, <2>2, FS_Subset
<1>9. OfSearch(q, B) = (S \ {t}) \cup C
  BY <1>2 DEF OfSearch
<1> HIDE DEF S, B
<1>10. IsFiniteSet(S \ {t}) /\ Cardinality(S \ {t}) = Cardinality(S) - 1
  BY <1>8, FS_RemoveElement
<1>11. (S \ {t}) \cap C = {}
  BY <1>4, <1>8
<1>12. /\ IsFiniteSet((S \ {t}) \cup C)
       /\ Cardinality((S \ {t}) \cup C) = Cardinality(S \ {t}) + Cardinality(C)
  <2> DEFINE R == S \ {t}
  <2>1. IsFiniteSet(R) /\ R \cap C = {}
    BY <1>10, <1>11
  <2>2. Cardinality(R \cap C) = 0
    BY <2>1, FS_EmptySet
  <2>3. Cardinality(R) \in Nat /\ Cardinality(C) \in Nat
    BY <1>2, <2>1, FS_CardinalityType
  <2> HIDE DEF R
  <2>4. IsFiniteSet(R \cup C) /\ Cardinality(R \cup C) = Cardinality(R) + Cardinality(C) - Cardinality(R \cap C)
    BY <1>2, <2>1, FS_Union
  <2>5. Cardinality(R \cup C) = Cardinality(R) + Cardinality(C)
    BY <2>2, <2>3, <2>4
  <2> QED BY <2>4, <2>5 DEF R
<1>13. Cardinality(OfSearch(q, B)) = Cardinality(S) - 1 + Cardinality(C)
  BY <1>9, <1>10, <1>12
<1>14. C \cap A = {}
  BY <1>4
<1> QED BY <1>6, <1>7, <1>8, <1>9, <1>12, <1>13, <1>14 DEF B, C, S

(* When nothing of a search is left to do, it has been everywhere.         *)
LEMMA WalkEnds ==
  ASSUME NEW A, NEW D, NEW K, WalkOK(A, D, K), NEW q \in K, OfSearch(q, A) = {},
         NEW F, \A u \in D : u.search = q => Accepted(u.place) \subseteq F
  PROVE  Artifacts \subseteq F
<1> DEFINE N == {n \in Nat : n <= DiscoveryDepth =>
                   \A r \in Origins : \A p \in Levels(r)[n] :
                     [search |-> q, place |-> p, origin |-> r, depth |-> n] \in D}
<1>1. 0 \in N
  <2>1. ASSUME NEW r \in Origins, NEW p \in Levels(r)[0]
        PROVE  [search |-> q, place |-> p, origin |-> r, depth |-> 0] \in D
    <3>1. p = r
      BY LevelZero
    <3>2. RootTask(q, r) \in RootTasks(q) /\ RootTasks(q) \subseteq A \cup D
      BY DEF RootTasks, WalkOK
    <3>3. RootTask(q, r).search = q
      BY DEF RootTask
    <3>4. RootTask(q, r) \in D
      BY <3>2, <3>3 DEF OfSearch
    <3> QED BY <3>1, <3>4 DEF RootTask
  <2> QED BY <2>1
<1>2. ASSUME NEW n \in N PROVE n + 1 \in N
  <2>1. n \in Nat
    OBVIOUS
  <2> SUFFICES ASSUME n + 1 <= DiscoveryDepth, NEW r \in Origins, NEW p \in Levels(r)[n + 1]
               PROVE  [search |-> q, place |-> p, origin |-> r, depth |-> n + 1] \in D
    BY <2>1
  <2> DEFINE L == Levels(r)
  <2>2. L = [m \in 0 .. DiscoveryDepth |-> WalkStep(r, L, m)]
    BY LevelsUnfold
  <2>3. n + 1 \in 0 .. DiscoveryDepth /\ n <= DiscoveryDepth /\ n + 1 # 0 /\ (n + 1) - 1 = n
    BY <2>1, DiscoveryAssumption
  <2> HIDE DEF L
  <2>4. L[n + 1] = UNION {Descended(o, n) : o \in L[n]}
    <3>1. L[n + 1] = WalkStep(r, L, n + 1)
      BY <2>2, <2>3
    <3> QED BY <2>3, <3>1 DEF WalkStep
  <2>5. PICK o \in L[n] : p \in Descended(o, n)
    BY <2>4 DEF L
  <2> DEFINE t == [search |-> q, place |-> o, origin |-> r, depth |-> n]
             c == [search |-> q, place |-> p, origin |-> r, depth |-> n + 1]
  <2>6. t \in D
    BY <2>3, <2>5 DEF L
  <2>7. t \in Tasks
    BY <2>6 DEF WalkOK, InWalk
  <2>8. c \in Children(t)
    <3>1. t.search = q /\ t.place = o /\ t.origin = r /\ t.depth = n
      OBVIOUS
    <3> HIDE DEF t
    <3> QED BY <2>5, <2>7, <3>1, ChildrenParts
  <2>9. c.search = q
    OBVIOUS
  <2> HIDE DEF t, c
  <2>10. c \in A \cup D
    BY <2>6, <2>8 DEF WalkOK
  <2>11. c \in D
    BY <2>9, <2>10 DEF OfSearch
  <2> QED BY <2>11 DEF c
<1>3. N = Nat
  <2>1. N \in SUBSET Nat
    OBVIOUS
  <2> HIDE DEF N
  <2> QED BY <1>1, <1>2, <2>1, NatSetInduction
<1>4. ASSUME NEW x \in Artifacts PROVE x \in F
  <2>1. PICK r \in Origins : \E p \in Walked(r) : x \in Accepted(p)
    BY DEF Artifacts
  <2>2. PICK p \in Walked(r) : x \in Accepted(p)
    BY <2>1
  <2>3. PICK n \in 0 .. DiscoveryDepth : p \in Levels(r)[n]
    BY LevelsUnfold
  <2>4. n \in N /\ n <= DiscoveryDepth
    <3>1. n \in Nat /\ n <= DiscoveryDepth
      BY DiscoveryAssumption
    <3> HIDE DEF N
    <3> QED BY <1>3, <3>1
  <2> DEFINE t == [search |-> q, place |-> p, origin |-> r, depth |-> n]
  <2>5. t \in D
    BY <2>3, <2>4
  <2>6. t.search = q /\ t.place = p
    OBVIOUS
  <2> HIDE DEF t
  <2> QED BY <2>2, <2>5, <2>6
<1> QED BY <1>4

-----------------------------------------------------------------------------
(* What a search hears: its record once the reports under way are applied. *)

Told(k, q, e) ==
  IF e.search # q THEN k
  ELSE LET left == IF k.outstanding + e.spawned = 0 THEN 0 ELSE k.outstanding + e.spawned - 1
       IN  [k EXCEPT !.found = @ \o e.found, !.outstanding = left, !.finished = @ \/ left = 0]
Heard(k, q, es) == FoldLeft(LAMBDA x, e : Told(x, q, e), k, es)

HeardOp(p, k, i) == Told(k, p.search, p.of[i])
HeardGood(p, s, k) == (\A i \in DOMAIN p.of : p.of[i].search # p.search) => k = p.from
HeardFold == INSTANCE FoldLemmas WITH Op <- HeardOp, Pick <- PickLast, Good <- HeardGood
Hearing(k, q, es) == [of |-> es, search |-> q, from |-> k]

LEMMA HeardIsFold ==
  ASSUME NEW k, NEW q, NEW es
  PROVE  Heard(k, q, es) = HeardFold!Fold(Hearing(k, q, es), k, DOMAIN es)
BY Zenon DEF Heard, FoldLeft, MapThenFoldSet, HeardFold!Fold, HeardFold!Step, HeardOp, Hearing,
             PickLast, Max

LEMMA HeardNothing ==
  ASSUME NEW S, NEW es \in Seq(S), NEW k, NEW q, \A i \in DOMAIN es : es[i].search # q
  PROVE  Heard(k, q, es) = k
<1> DEFINE D == DOMAIN es
<1>1. PICK p : p = Hearing(k, q, es)
  OBVIOUS
<1>2. p.of = es /\ p.search = q /\ p.from = k
  BY <1>1 DEF Hearing
<1>3. Heard(k, q, es) = HeardFold!Fold(p, k, D)
  BY <1>1, HeardIsFold
<1>4. IsFiniteSet(D) /\ \A x \in SUBSET D : x # {} => PickLast(x) \in x
  BY SequenceInductive
<1> HIDE DEF D
<1>5. HeardFold!Inductive(D)
  BY <1>4, FiniteInductive DEF HeardFold!Inductive
<1>6. HeardGood(p, {}, k)
  BY <1>2 DEF HeardGood
<1>7. \A x \in SUBSET D : x # {} =>
        \A a : HeardGood(p, x \ {PickLast(x)}, a) => HeardGood(p, x, HeardOp(p, a, PickLast(x)))
  BY <1>2, <1>4 DEF HeardGood, HeardOp, Told, D
<1>8. HeardGood(p, D, HeardFold!Fold(p, k, D))
  BY <1>4, <1>5, <1>6, <1>7, HeardFold!FoldKeeps
<1> QED BY <1>2, <1>3, <1>8 DEF HeardGood

LEMMA HeardMore ==
  ASSUME NEW S, NEW es \in Seq(S), NEW e, NEW k, NEW q
  PROVE  Heard(k, q, Append(es, e)) = Told(Heard(k, q, es), q, e)
<1> DEFINE n == Len(es)
           fs == Append(es, e)
<1>1. /\ DOMAIN fs = 1 .. (n + 1) /\ DOMAIN es = 1 .. n /\ n \in Nat
      /\ \A i \in 1 .. n : fs[i] = es[i]
      /\ fs[n + 1] = e
  BY AppendParts
<1> HIDE DEF n, fs
<1>2. PICK p : p = Hearing(k, q, es)
  OBVIOUS
<1>3. PICK r : r = Hearing(k, q, fs)
  OBVIOUS
<1>4. /\ Heard(k, q, fs) = HeardFold!Fold(r, k, 1 .. (n + 1))
      /\ Heard(k, q, es) = HeardFold!Fold(p, k, 1 .. n)
  BY <1>1, <1>2, <1>3, HeardIsFold
<1>5. \A a : HeardOp(r, a, n + 1) = Told(a, q, e)
  BY <1>1, <1>3 DEF HeardOp, Hearing
<1>6. \A i \in 1 .. n : \A a : HeardOp(r, a, i) = HeardOp(p, a, i)
  BY <1>1, <1>2, <1>3 DEF HeardOp, Hearing
<1>7. HeardFold!Inductive(1 .. (n + 1)) /\ HeardFold!Inductive(1 .. n)
  <2>1. IsFiniteSet(1 .. (n + 1)) /\ IsFiniteSet(1 .. n)
    BY <1>1, LastOfRange
  <2>2. HeardFold!Inductive(1 .. (n + 1))
    BY <2>1, FiniteInductive DEF HeardFold!Inductive
  <2>3. HeardFold!Inductive(1 .. n)
    BY <2>1, FiniteInductive DEF HeardFold!Inductive
  <2> QED BY <2>2, <2>3
<1>8. HeardFold!Fold(r, k, 1 .. (n + 1)) = HeardOp(r, HeardFold!Fold(r, k, 1 .. n), n + 1)
  <2> DEFINE D == 1 .. (n + 1)
  <2>1. D \ {PickLast(D)} = 1 .. n /\ PickLast(D) = n + 1 /\ D # {}
    <3>1. PickLast(1 .. (n + 1)) = n + 1 /\ (1 .. (n + 1)) \ {n + 1} = 1 .. n
      BY <1>1, LastOfRange
    <3>2. n + 1 \in 1 .. (n + 1)
      BY <1>1
    <3> QED BY <3>1, <3>2
  <2>2. \A x \in SUBSET D : x # {} => PickLast(x) \in x
    BY <1>1, LastOfRange
  <2>3. HeardFold!Inductive(D) /\ HeardFold!Inductive(D \ {PickLast(D)})
    BY <1>7, <2>1
  <2> HIDE DEF D
  <2>4. HeardFold!Fold(r, k, D) = HeardOp(r, HeardFold!Fold(r, k, D \ {PickLast(D)}), PickLast(D))
    BY <2>1, <2>2, <2>3, HeardFold!FoldStep
  <2> QED BY <2>1, <2>4 DEF D
<1>9. HeardFold!Fold(r, k, 1 .. n) = HeardFold!Fold(p, k, 1 .. n)
  <2> DEFINE D == 1 .. n
  <2>1. \A x \in SUBSET D : x # {} => PickLast(x) \in x
    BY <1>1, LastOfRange
  <2>2. HeardFold!Inductive(D) /\ \A i \in D : \A a : HeardOp(r, a, i) = HeardOp(p, a, i)
    BY <1>6, <1>7
  <2> HIDE DEF D
  <2>3. HeardFold!Fold(r, k, D) = HeardFold!Fold(p, k, D)
    BY <2>1, <2>2, HeardFold!FoldSame
  <2> QED BY <2>3 DEF D
<1> QED BY <1>4, <1>5, <1>8, <1>9 DEF fs

(* One report, as the coordinator applies it, for every search. *)
LEMMA ProgressTells ==
  ASSUME NEW s, DOMAIN s = {"known", "next", "tasks"}, NEW e,
         NEW t, t = ApplyDiscoveryProgress(s, e)
  PROVE  /\ DOMAIN t = DOMAIN s /\ t.tasks = s.tasks /\ t.next = s.next
         /\ DOMAIN t.known = DOMAIN s.known
         /\ \A q \in DOMAIN s.known : t.known[q] = Told(s.known[q], q, e)
<1>1. CASE e.search \notin DOMAIN s.known
  <2>1. t = s
    BY <1>1 DEF ApplyDiscoveryProgress
  <2>2. \A q \in DOMAIN s.known : Told(s.known[q], q, e) = s.known[q]
    BY <1>1 DEF Told
  <2> QED BY <2>1, <2>2
<1>2. CASE e.search \in DOMAIN s.known
  <2> DEFINE n == e.search
             k == Told(s.known[n], n, e)
  <2>1. t = [s EXCEPT !.known[n] = k]
    BY <1>2, Zenon DEF ApplyDiscoveryProgress, Told
  <2> HIDE DEF k
  <2>2. /\ DOMAIN t = DOMAIN s /\ t.next = s.next /\ t.tasks = s.tasks
        /\ t.known = [s.known EXCEPT ![n] = k]
    BY <2>1
  <2>3. \A q \in DOMAIN s.known : q # n => Told(s.known[q], q, e) = s.known[q]
    BY DEF Told
  <2>4. t.known[n] = k /\ \A q \in DOMAIN s.known : q # n => t.known[q] = s.known[q]
    BY <1>2, <2>2
  <2>5. DOMAIN t.known = DOMAIN s.known
    BY <2>2
  <2> QED BY <2>2, <2>3, <2>4, <2>5 DEF k
<1> QED BY <1>1, <1>2

TellGood(p, x, s) ==
  /\ DOMAIN s = {"known", "next", "tasks"} /\ s.tasks = p.at.tasks /\ s.next = p.at.next
  /\ DOMAIN s.known = DOMAIN p.at.known
  /\ \A q \in DOMAIN p.at.known :
       s.known[q] = HeardFold!Fold(Hearing(p.at.known[q], q, p.of), p.at.known[q], x)
TellFold == INSTANCE FoldLemmas WITH Op <- FindOp, Pick <- PickLast, Good <- TellGood

LEMMA AllHeard ==
  ASSUME NEW s, DOMAIN s = {"known", "next", "tasks"}, NEW S, NEW es \in Seq(S),
         NEW t, t = FoldLeft(ApplyDiscoveryProgress, s, es)
  PROVE  /\ DOMAIN t = DOMAIN s /\ t.tasks = s.tasks /\ t.next = s.next
         /\ DOMAIN t.known = DOMAIN s.known
         /\ \A q \in DOMAIN s.known : t.known[q] = Heard(s.known[q], q, es)
<1> DEFINE D == DOMAIN es
<1>1. PICK p : p = [of |-> es, at |-> s]
  OBVIOUS
<1>2. p.of = es /\ p.at = s
  BY <1>1
<1>3. t = TellFold!Fold(p, s, D)
  <2>1. FoldLeft(ApplyDiscoveryProgress, s, es) = TellFold!Fold([of |-> es, at |-> s], s, D)
    BY ZenonT(60) DEF FoldLeft, MapThenFoldSet, TellFold!Fold, TellFold!Step, FindOp, PickLast, Max
  <2> QED BY <1>1, <2>1
<1>4. IsFiniteSet(D) /\ \A x \in SUBSET D : x # {} => PickLast(x) \in x
  BY SequenceInductive
<1> HIDE DEF D
<1>5. TellFold!Inductive(D) /\ \A x \in SUBSET D : HeardFold!Inductive(x)
  <2>1. TellFold!Inductive(D)
    BY <1>4, FiniteInductive DEF TellFold!Inductive
  <2>2. ASSUME NEW x \in SUBSET D PROVE HeardFold!Inductive(x)
    <3>1. IsFiniteSet(x)
      BY <1>4, FS_Subset
    <3> QED BY <3>1, FiniteInductive DEF HeardFold!Inductive
  <2> QED BY <2>1, <2>2
<1>6. TellGood(p, {}, s)
  <2>1. ASSUME NEW r, NEW b PROVE HeardFold!Fold(r, b, {}) = b
    <3>1. HeardFold!Inductive({})
      BY <1>5
    <3> QED BY <3>1, HeardFold!FoldNone
  <2> QED BY <1>2, <2>1 DEF TellGood
<1>7. ASSUME NEW x \in SUBSET D, x # {}, NEW a, TellGood(p, x \ {PickLast(x)}, a)
      PROVE  TellGood(p, x, FindOp(p, a, PickLast(x)))
  <2>1. PICK i : i = PickLast(x)
    OBVIOUS
  <2>2. PICK y : y = x \ {i}
    OBVIOUS
  <2>3. PICK b : b = FindOp(p, a, i)
    OBVIOUS
  <2>4. PICK e : e = es[i]
    OBVIOUS
  <2>5. b = ApplyDiscoveryProgress(a, e)
    BY <1>2, <2>3, <2>4 DEF FindOp
  <2>6. TellGood(p, y, a)
    BY <1>7, <2>1, <2>2
  <2>7. DOMAIN a = {"known", "next", "tasks"} /\ DOMAIN a.known = DOMAIN s.known
    BY <1>2, <2>6 DEF TellGood
  <2>8. /\ DOMAIN b = DOMAIN a /\ b.tasks = a.tasks /\ b.next = a.next
        /\ DOMAIN b.known = DOMAIN a.known
        /\ \A q \in DOMAIN a.known : b.known[q] = Told(a.known[q], q, e)
    BY <2>5, <2>7, ProgressTells
  <2>9. ASSUME NEW q \in DOMAIN s.known
        PROVE  b.known[q] = HeardFold!Fold(Hearing(s.known[q], q, es), s.known[q], x)
    <3>1. PICK k : k = s.known[q]
      OBVIOUS
    <3>2. PICK r : r = Hearing(k, q, es)
      OBVIOUS
    <3>3. a.known[q] = HeardFold!Fold(r, k, y)
      BY <1>2, <2>6, <3>1, <3>2 DEF TellGood
    <3>4. \A z \in SUBSET x : z # {} => PickLast(z) \in z
      BY <1>4
    <3>5. HeardFold!Inductive(x) /\ HeardFold!Inductive(x \ {PickLast(x)})
      BY <1>5
    <3>6. HeardFold!Fold(r, k, x)
            = HeardOp(r, HeardFold!Fold(r, k, x \ {PickLast(x)}), PickLast(x))
      BY <1>7, <3>4, <3>5, HeardFold!FoldStep
    <3>7. HeardFold!Fold(r, k, x) = HeardOp(r, a.known[q], i)
      BY <2>1, <2>2, <3>3, <3>6
    <3>8. HeardOp(r, a.known[q], i) = Told(a.known[q], q, e)
      BY <2>4, <3>2 DEF HeardOp, Hearing
    <3>9. b.known[q] = Told(a.known[q], q, e)
      BY <2>7, <2>8
    <3> QED BY <3>1, <3>2, <3>7, <3>8, <3>9
  <2>10. TellGood(p, x, b)
    BY <1>2, <2>6, <2>7, <2>8, <2>9 DEF TellGood
  <2> QED BY <2>1, <2>3, <2>10
<1>8. \A x \in SUBSET D : x # {} =>
        \A a : TellGood(p, x \ {PickLast(x)}, a) => TellGood(p, x, FindOp(p, a, PickLast(x)))
  BY <1>7
<1>9. TellGood(p, D, TellFold!Fold(p, s, D))
  BY <1>4, <1>5, <1>6, <1>8, TellFold!FoldKeeps
<1>10. TellGood(p, D, t)
  BY <1>3, <1>9
<1>11. \A q \in DOMAIN s.known :
         HeardFold!Fold(Hearing(s.known[q], q, es), s.known[q], D) = Heard(s.known[q], q, es)
  BY HeardIsFold DEF D
<1> QED BY <1>2, <1>10, <1>11 DEF TellGood

-----------------------------------------------------------------------------
(* What the coordinator, the queue and the scanner threads keep. *)

(* The tasks that a scanner thread has: one read, or those to be pushed. *)
InHands(x) == IF x.at = "read" THEN {x.task} ELSE IF x.at = "push" THEN x.tasks ELSE {}
Alive(s, sc) == s.tasks \cup UNION {InHands(sc[w]) : w \in Scout}

(* No task is queued and held, nor held by two threads. *)
HandsApart(s, sc) ==
  /\ \A v \in Scout : InHands(sc[v]) \cap s.tasks = {}
  /\ \A v, w \in Scout : v # w => InHands(sc[v]) \cap InHands(sc[w]) = {}

(* The search q, with the record k now and h when all is heard. *)
SearchOK(k, h, q, A, D) ==
  /\ h \in SearchRecords
  /\ h.outstanding = Cardinality(OfSearch(q, A)) /\ (h.finished => OfSearch(q, A) = {})
  /\ k.finished => h = k
  /\ \A x \in {k, h} : ToSet(x.found) \subseteq Artifacts /\ x.consumed <= Len(x.found)
  /\ \A u \in D : u.search = q => Accepted(u.place) \subseteq ToSet(h.found)

(* The searches s, the threads sc and the reports es, with D done so far. *)
Walking(s, sc, es, D) ==
  /\ HandsApart(s, sc)
  /\ WalkOK(Alive(s, sc), D, DOMAIN s.known)
  /\ \A q \in DOMAIN s.known :
       /\ q \in Nat /\ q < s.next
       /\ SearchOK(s.known[q], Heard(s.known[q], q, es), q, Alive(s, sc), D)
  /\ \A i \in DOMAIN es : es[i].search \in DOMAIN s.known
FoundInv == \E D \in SUBSET Tasks : Walking(searches, scout, finds, D)

(* What the record k becomes by a report of its search. *)
Adds(k, h, e) ==
  /\ h \in SearchRecords /\ h.found = k.found \o e.found /\ h.consumed = k.consumed
  /\ h.outstanding = IF k.outstanding + e.spawned = 0 THEN 0
                     ELSE k.outstanding + e.spawned - 1
  /\ h.finished <=> (k.finished \/ h.outstanding = 0)

LEMMA ToldParts ==
  ASSUME NEW k \in SearchRecords, NEW e \in Reports, NEW q, e.search = q,
         NEW h, h = Told(k, q, e)
  PROVE  Adds(k, h, e)
<1> DEFINE left == IF k.outstanding + e.spawned = 0 THEN 0 ELSE k.outstanding + e.spawned - 1
           found == k.found \o e.found
<1>1. /\ k.found \in Seq(Place) /\ k.consumed \in Nat /\ k.outstanding \in Nat
      /\ k.finished \in BOOLEAN
      /\ DOMAIN k = {"found", "consumed", "outstanding", "finished"}
      /\ e.found \in Seq(Place) /\ e.spawned \in Nat
  BY DEF SearchRecords, Reports
<1>2. left \in Nat /\ found \in Seq(Place)
  BY <1>1
<1>3. PICK b \in BOOLEAN : b = (k.finished \/ left = 0)
  OBVIOUS
<1>4. h = [k EXCEPT !.found = found, !.outstanding = left, !.finished = b]
  BY <1>3 DEF Told
<1>5. h.outstanding = left
  <2> HIDE DEF left, found
  <2> QED BY <1>1, <1>4
<1>6. /\ DOMAIN h = DOMAIN k /\ h.found = found /\ h.consumed = k.consumed
      /\ h.finished = b
  <2> HIDE DEF left, found
  <2> QED BY <1>1, <1>4
<1>7. h = [found |-> found, consumed |-> k.consumed, outstanding |-> left, finished |-> b]
  <2> HIDE DEF left, found
  <2> QED BY <1>1, <1>4, <1>5, <1>6
<1>8. h \in SearchRecords
  <2> HIDE DEF left, found
  <2> QED BY <1>1, <1>2, <1>7 DEF SearchRecords
<1>9. h.finished <=> (k.finished \/ h.outstanding = 0)
  BY <1>3, <1>5, <1>6
<1> QED BY <1>5, <1>6, <1>8, <1>9 DEF Adds

LEMMA AcceptedInOrder ==
  ASSUME NEW p \in Place
  PROVE  SetToSeq(Accepted(p)) \in Seq(Place) /\ ToSet(SetToSeq(Accepted(p))) = Accepted(p)
<1> DEFINE S == Accepted(p)
           n == Cardinality(S)
           I == {f \in [1 .. n -> S] : IsInjective(f)}
           s == CHOOSE f \in [1 .. n -> S] : IsInjective(f)
<1>1. S \subseteq Place /\ IsFiniteSet(S)
  <2>1. S \subseteq Place
    BY DiscoveryAssumption DEF Accepted
  <2> QED BY <2>1, DiscoveryAssumption, FS_Subset
<1> HIDE DEF S
<1>2. n \in Nat /\ IsFiniteSet(1 .. n) /\ Cardinality(1 .. n) = n
  BY <1>1, FS_CardinalityType, FS_Interval
<1>3. \E f \in [1 .. n -> S] : IsInjective(f)
  <2>1. ExistsBijection(1 .. n, S)
    BY <1>1, <1>2, FS_SameCardinalityBij
  <2>2. PICK f : f \in Bijection(1 .. n, S)
    BY <2>1 DEF ExistsBijection
  <2> QED BY <2>2 DEF Bijection, Injection
<1>4. s \in [1 .. n -> S] /\ IsInjective(s)
  BY <1>3
<1>5. SetToSeq(S) = s
  BY Zenon DEF SetToSeq
<1> HIDE DEF s
<1>6. s \in Surjection(1 .. n, S)
  <2>1. s \in Injection(1 .. n, S)
    BY <1>4 DEF Injection
  <2> QED BY <1>1, <1>2, <2>1, FS_Injection
<1>7. s \in Seq(S) /\ DOMAIN s = 1 .. n
  BY <1>2, <1>4
<1>8. ToSet(s) = S
  BY <1>4, <1>6, <1>7 DEF ToSet, Surjection
<1>9. s \in Seq(Place)
  BY <1>1, <1>7
<1> QED BY <1>5, <1>8, <1>9 DEF S

LEMMA MembersOfConcat ==
  ASSUME NEW S, NEW a \in Seq(S), NEW b \in Seq(S)
  PROVE  ToSet(a \o b) = ToSet(a) \cup ToSet(b) /\ Len(a \o b) >= Len(a)
<1>1. \A x \in Seq(S) : ToSet(x) = Elements(x)
  BY DEF ToSet, Elements
<1>2. Elements(a \o b) = Elements(a) \cup Elements(b)
  BY ConcatMembers
<1>3. Len(a \o b) = Len(a) + Len(b) /\ Len(a) \in Nat /\ Len(b) \in Nat
  OBVIOUS
<1>4. a \o b \in Seq(S)
  OBVIOUS
<1>5. Len(a \o b) >= Len(a)
  BY <1>3
<1>6. ToSet(a \o b) = Elements(a \o b) /\ ToSet(a) = Elements(a) /\ ToSet(b) = Elements(b)
  BY <1>1, <1>4
<1> QED BY <1>2, <1>5, <1>6

(* A new search. *)
LEMMA StartKeeps ==
  ASSUME NEW s, IsSearches(s), NEW sc, NEW es \in Seq(Reports), NEW D, Walking(s, sc, es, D),
         \A w \in Scout : InHands(sc[w]) \subseteq Tasks,
         NEW t, t = StartDiscovery(s)
  PROVE  Walking(t, sc, es, D)
<1> DEFINE K == DOMAIN s.known
           n == s.next
           R == RootTasks(n)
           A == Alive(s, sc)
           new == [found |-> <<>>, consumed |-> 0, outstanding |-> Cardinality(Origins),
                   finished |-> Origins = {}]
<1>1. n \in Nat /\ n \notin K /\ \A q \in K : q \in Nat /\ q < n
  BY DEF IsSearches, Walking
<1>2. /\ t.next = n + 1 /\ t.tasks = s.tasks \cup R
      /\ t.known = [q \in K \cup {n} |-> IF q = n THEN new ELSE s.known[q]]
  BY DEF StartDiscovery, RootTasks, RootTask, Origins
<1>3. WalkOK(A, D, K)
  BY DEF Walking
<1> HIDE DEF K, n, R, A, new
<1>4. /\ WalkOK(A \cup R, D, K \cup {n}) /\ OfSearch(n, A \cup R) = R
      /\ \A q \in K : OfSearch(q, A \cup R) = OfSearch(q, A)
      /\ \A u \in D : u.search # n
  <2>1. R = RootTasks(n)
    BY DEF R
  <2>2. /\ WalkOK(A \cup RootTasks(n), D, K \cup {n})
        /\ OfSearch(n, A \cup RootTasks(n)) = RootTasks(n)
        /\ \A q \in K : OfSearch(q, A \cup RootTasks(n)) = OfSearch(q, A)
        /\ \A u \in D : u.search # n
    BY <1>1, <1>3, WalkStarts
  <2> QED BY <2>1, <2>2
<1>5. /\ Cardinality(R) = Cardinality(Origins) /\ IsFiniteSet(R) /\ (R = {} <=> Origins = {})
      /\ \A x \in R : x.search = n
      /\ IsFiniteSet(Origins)
  BY <1>1, RootTaskParts DEF R
<1>6. Alive(t, sc) = A \cup R
  BY <1>2 DEF Alive, A
<1>7. DOMAIN t.known = K \cup {n} /\ t.known[n] = new /\ \A q \in K : t.known[q] = s.known[q]
  BY <1>1, <1>2
<1>8. R \cap A = {}
  <2>1. \A x \in A : x.search \in K
    BY <1>3 DEF WalkOK
  <2> QED BY <1>1, <1>5, <2>1
<1>9. HandsApart(t, sc)
  <2>1. \A w \in Scout : InHands(sc[w]) \subseteq A
    BY DEF Alive, A
  <2>2. HandsApart(s, sc)
    BY DEF Walking
  <2> QED BY <1>2, <1>8, <2>1, <2>2 DEF HandsApart
<1>10. \A i \in DOMAIN es : es[i].search \in K
  BY DEF Walking, K
<1>11. ASSUME NEW q \in K
       PROVE  SearchOK(t.known[q], Heard(t.known[q], q, es), q, A \cup R, D)
  <2>1. SearchOK(s.known[q], Heard(s.known[q], q, es), q, A, D)
    BY DEF Walking, K, A
  <2>2. OfSearch(q, A \cup R) = OfSearch(q, A) /\ t.known[q] = s.known[q]
    BY <1>4, <1>7
  <2> QED BY <2>1, <2>2 DEF SearchOK
<1>12. SearchOK(new, Heard(new, n, es), n, A \cup R, D)
  <2>1. Heard(new, n, es) = new
    <3>1. \A i \in DOMAIN es : es[i].search # n
      BY <1>1, <1>10
    <3> QED BY <3>1, HeardNothing
  <2>2. PICK b \in BOOLEAN : b = (Origins = {})
    OBVIOUS
  <2>3. PICK c : c = Cardinality(Origins)
    OBVIOUS
  <2>4. c \in Nat
    BY <1>5, <2>3, FS_CardinalityType
  <2>5. new = [found |-> <<>>, consumed |-> 0, outstanding |-> c, finished |-> b]
    BY <2>2, <2>3 DEF new
  <2>6. new \in SearchRecords
    <3>1. <<>> \in Seq(Place)
      OBVIOUS
    <3> QED BY <2>4, <2>5, <3>1 DEF SearchRecords
  <2>7. new.outstanding = c /\ new.finished = b /\ new.found = <<>> /\ new.consumed = 0
    BY <2>5
  <2>8. ToSet(new.found) \subseteq Artifacts /\ new.consumed <= Len(new.found)
    BY <2>7 DEF ToSet
  <2>9. new.outstanding = Cardinality(OfSearch(n, A \cup R))
    BY <1>4, <1>5, <2>3, <2>7
  <2>10. new.finished => OfSearch(n, A \cup R) = {}
    BY <1>4, <1>5, <2>2, <2>7
  <2>11. \A u \in D : u.search = n => Accepted(u.place) \subseteq ToSet(new.found)
    BY <1>4
  <2> QED BY <2>1, <2>6, <2>8, <2>9, <2>10, <2>11 DEF SearchOK
<1>13. \A q \in K \cup {n} :
         /\ q \in Nat /\ q < n + 1
         /\ SearchOK(t.known[q], Heard(t.known[q], q, es), q, A \cup R, D)
  <2>1. ASSUME NEW q \in K PROVE q \in Nat /\ q < n + 1
    BY <1>1
  <2>2. n < n + 1
    BY <1>1
  <2> QED BY <1>1, <1>7, <1>11, <1>12, <2>1, <2>2
<1> QED BY <1>2, <1>4, <1>6, <1>7, <1>9, <1>10, <1>13 DEF Walking

(* One thread, and the others. *)
Others(sc, w) == UNION {InHands(sc[v]) : v \in Scout \ {w}}

LEMMA HandsSplit ==
  ASSUME NEW s, NEW sc, HandsApart(s, sc), NEW w \in Scout
  PROVE  /\ Alive(s, sc) = s.tasks \cup InHands(sc[w]) \cup Others(sc, w)
         /\ InHands(sc[w]) \cap s.tasks = {} /\ Others(sc, w) \cap s.tasks = {}
         /\ InHands(sc[w]) \cap Others(sc, w) = {}
BY ZenonT(40) DEF Alive, Others, HandsApart

(* One thread does something else; what it then holds is nowhere else. *)
Moves(sc, tc, w, a) == DOMAIN sc = Scout /\ tc = [sc EXCEPT ![w] = a]
Fits(a, t, sc, w) ==
  /\ InHands(a) \cap t.tasks = {} /\ Others(sc, w) \cap t.tasks = {}
  /\ InHands(a) \cap Others(sc, w) = {}

LEMMA HandsJoin ==
  ASSUME NEW s, NEW sc, HandsApart(s, sc), NEW w \in Scout, NEW a,
         NEW t, NEW tc, Moves(sc, tc, w, a), Fits(a, t, sc, w)
  PROVE  /\ HandsApart(t, tc)
         /\ Alive(t, tc) = t.tasks \cup InHands(a) \cup Others(sc, w)
<1>1. tc[w] = a /\ \A v \in Scout \ {w} : tc[v] = sc[v]
  BY DEF Moves
<1>0. /\ InHands(a) \cap t.tasks = {} /\ Others(sc, w) \cap t.tasks = {}
      /\ InHands(a) \cap Others(sc, w) = {}
  BY DEF Fits
<1>2. \A v \in Scout \ {w} : InHands(sc[v]) \subseteq Others(sc, w)
  BY DEF Others
<1>3. \A v, u \in Scout : v # u => InHands(sc[v]) \cap InHands(sc[u]) = {}
  BY DEF HandsApart
<1>4. ASSUME NEW v \in Scout PROVE InHands(tc[v]) \cap t.tasks = {}
  BY <1>0, <1>1, <1>2
<1>5. ASSUME NEW v \in Scout, NEW u \in Scout, v # u
      PROVE  InHands(tc[v]) \cap InHands(tc[u]) = {}
  BY <1>0, <1>1, <1>2, <1>3, <1>5
<1>6. Others(tc, w) = Others(sc, w)
  BY <1>1 DEF Others
<1>7. HandsApart(t, tc)
  BY <1>4, <1>5 DEF HandsApart
<1>8. Alive(t, tc) = t.tasks \cup InHands(tc[w]) \cup Others(tc, w)
  BY <1>7, HandsSplit
<1> QED BY <1>1, <1>6, <1>7, <1>8

(* What moves a task from the queue to a hand, or back, leaves the walk.   *)
LEMMA MoveKeeps ==
  ASSUME NEW s, NEW sc, NEW es, NEW D, Walking(s, sc, es, D), NEW t, NEW tc,
         HandsApart(t, tc), Alive(t, tc) = Alive(s, sc), t.known = s.known, t.next = s.next
  PROVE  Walking(t, tc, es, D)
BY DEF Walking

LEMMA TakeKeeps ==
  ASSUME NEW s, NEW sc \in [Scout -> Activities], NEW es, NEW D,
         Walking(s, sc, es, D), NEW w \in Scout, sc[w] = AtRest, NEW x \in s.tasks,
         NEW t, t.tasks = s.tasks \ {x}, t.known = s.known, t.next = s.next,
         NEW a, a = [at |-> "read", task |-> x],
         NEW tc, Moves(sc, tc, w, a)
  PROVE  Walking(t, tc, es, D)
<1>1. HandsApart(s, sc)
  BY DEF Walking
<1>2. InHands(sc[w]) = {}
  BY DEF InHands, AtRest
<1>4. InHands(a) = {x}
  BY DEF InHands
<1>6. /\ Alive(s, sc) = s.tasks \cup Others(sc, w)
      /\ Others(sc, w) \cap s.tasks = {}
  BY <1>1, <1>2, HandsSplit
<1>7. Fits(a, t, sc, w)
  BY <1>4, <1>6 DEF Fits
<1>8. HandsApart(t, tc) /\ Alive(t, tc) = t.tasks \cup InHands(a) \cup Others(sc, w)
  BY <1>1, <1>7, HandsJoin
<1>9. Alive(t, tc) = Alive(s, sc)
  BY <1>4, <1>6, <1>8
<1> QED BY <1>8, <1>9, MoveKeeps

LEMMA PushKeeps ==
  ASSUME NEW s, NEW sc \in [Scout -> Activities], NEW es, NEW D,
         Walking(s, sc, es, D), NEW w \in Scout, sc[w].at = "push",
         NEW t, t.tasks = s.tasks \cup sc[w].tasks, t.known = s.known, t.next = s.next,
         NEW a, InHands(a) = {},
         NEW tc, Moves(sc, tc, w, a)
  PROVE  Walking(t, tc, es, D)
<1>1. HandsApart(s, sc)
  BY DEF Walking
<1>2. InHands(sc[w]) = sc[w].tasks /\ InHands(a) = {}
  BY DEF InHands
<1>4. /\ Alive(s, sc) = s.tasks \cup InHands(sc[w]) \cup Others(sc, w)
      /\ Others(sc, w) \cap s.tasks = {} /\ InHands(sc[w]) \cap Others(sc, w) = {}
  BY <1>1, HandsSplit
<1>5. Fits(a, t, sc, w)
  BY <1>2, <1>4 DEF Fits
<1>6. HandsApart(t, tc) /\ Alive(t, tc) = t.tasks \cup InHands(a) \cup Others(sc, w)
  BY ZenonT(40), <1>1, <1>5, HandsJoin
<1>7. Alive(t, tc) = Alive(s, sc)
  BY <1>2, <1>4, <1>6
<1> QED BY <1>6, <1>7, MoveKeeps

(* The search of a task that is read hears of what it brings. *)
LEMMA SearchGoesOn ==
  ASSUME NEW A, NEW D, NEW K, WalkOK(A, D, K), NEW x \in A, NEW k, NEW h, NEW q, x.search = q,
         SearchOK(k, h, q, A, D),
         NEW e \in Reports, ToSet(e.found) = Accepted(x.place),
         e.spawned = Cardinality(Children(x)),
         NEW g, Adds(h, g, e)
  PROVE  SearchOK(k, g, q, (A \ {x}) \cup Children(x), D \cup {x})
<1> DEFINE B == (A \ {x}) \cup Children(x)
           c == Cardinality(OfSearch(q, A))
<1>1. /\ h \in SearchRecords /\ h.outstanding = c
      /\ h.finished => OfSearch(q, A) = {}
      /\ k.finished => h = k
      /\ \A y \in {k, h} : ToSet(y.found) \subseteq Artifacts /\ y.consumed <= Len(y.found)
      /\ \A u \in D : u.search = q => Accepted(u.place) \subseteq ToSet(h.found)
  BY DEF SearchOK
<1>2. /\ IsFiniteSet(OfSearch(q, A)) /\ x \in OfSearch(q, A)
      /\ IsFiniteSet(OfSearch(q, B))
      /\ Cardinality(OfSearch(q, B)) = Cardinality(OfSearch(q, A)) - 1 + Cardinality(Children(x))
  <2>1. /\ IsFiniteSet(OfSearch(x.search, A)) /\ x \in OfSearch(x.search, A)
        /\ IsFiniteSet(OfSearch(x.search, (A \ {x}) \cup Children(x)))
        /\ Cardinality(OfSearch(x.search, (A \ {x}) \cup Children(x)))
             = Cardinality(OfSearch(x.search, A)) - 1 + Cardinality(Children(x))
    BY ZenonT(60), WalkGoesOn
  <2> QED BY <2>1
<1>3. c \in Nat /\ c # 0
  BY <1>2, FS_CardinalityType, FS_EmptySet
<1>4. ~h.finished /\ ~k.finished
  BY <1>1, <1>2
<1>5. /\ g \in SearchRecords /\ g.found = h.found \o e.found /\ g.consumed = h.consumed
      /\ g.outstanding = IF h.outstanding + e.spawned = 0 THEN 0
                         ELSE h.outstanding + e.spawned - 1
      /\ g.finished <=> (h.finished \/ g.outstanding = 0)
  BY DEF Adds
<1>6. e.spawned \in Nat /\ e.found \in Seq(Place) /\ h.found \in Seq(Place) /\ h.consumed \in Nat
  BY <1>1 DEF Reports, SearchRecords
<1>7. g.outstanding = Cardinality(OfSearch(q, B))
  <2> HIDE DEF c, B
  <2>1. h.outstanding + e.spawned # 0
    BY <1>1, <1>3, <1>6
  <2>2. g.outstanding = c + e.spawned - 1
    BY <1>1, <1>5, <2>1
  <2>3. Cardinality(OfSearch(q, B)) = c - 1 + e.spawned
    BY <1>2 DEF c
  <2> QED BY <1>3, <1>6, <2>2, <2>3
<1>8. g.finished => OfSearch(q, B) = {}
  <2> HIDE DEF B
  <2> QED BY <1>2, <1>4, <1>5, <1>7, FS_EmptySet
<1>9. /\ ToSet(g.found) = ToSet(h.found) \cup Accepted(x.place)
      /\ Len(g.found) >= Len(h.found) /\ Len(g.found) \in Nat /\ Len(h.found) \in Nat
  <2>1. PICK a \in Seq(Place) : a = h.found
    BY <1>6
  <2>2. PICK b \in Seq(Place) : b = e.found
    BY <1>6
  <2>3. g.found = a \o b
    BY <1>5, <2>1, <2>2
  <2>4. ToSet(a \o b) = ToSet(a) \cup ToSet(b) /\ Len(a \o b) >= Len(a)
    BY MembersOfConcat
  <2>5. Len(a \o b) \in Nat /\ Len(a) \in Nat
    OBVIOUS
  <2> QED BY <2>1, <2>2, <2>3, <2>4, <2>5
<1>10. Accepted(x.place) \subseteq Artifacts
  BY WalkFinds DEF WalkOK
<1>11. ToSet(g.found) \subseteq Artifacts /\ g.consumed <= Len(g.found)
  <2>1. ToSet(h.found) \subseteq Artifacts /\ h.consumed <= Len(h.found)
    BY <1>1
  <2>2. g.consumed <= Len(g.found)
    <3>1. g.consumed = h.consumed
      BY <1>5
    <3>2. h.consumed \in Nat /\ h.consumed <= Len(h.found)
      BY <1>6, <2>1
    <3>3. Len(h.found) \in Nat /\ Len(g.found) \in Nat /\ Len(h.found) <= Len(g.found)
      BY <1>9
    <3> QED BY <3>1, <3>2, <3>3
  <2> QED BY <1>9, <1>10, <2>1, <2>2
<1>12. \A u \in D \cup {x} : u.search = q => Accepted(u.place) \subseteq ToSet(g.found)
  BY <1>1, <1>9
<1>13. ToSet(k.found) \subseteq Artifacts /\ k.consumed <= Len(k.found)
  BY <1>1
<1>14. \A y \in {k, g} : ToSet(y.found) \subseteq Artifacts /\ y.consumed <= Len(y.found)
  BY <1>11, <1>13
<1> HIDE DEF B
<1>15. SearchOK(k, g, q, B, D \cup {x})
  BY <1>4, <1>5, <1>7, <1>8, <1>12, <1>14 DEF SearchOK
<1> QED BY <1>15 DEF B

(* A task that is read, the report on it, and what is left to be pushed. *)
Reads(y, x) == y.at = "read" /\ y.task = x
ReportOn(e, x) ==
  e = [search |-> x.search, found |-> SetToSeq(Accepted(x.place)),
       spawned |-> Cardinality(Children(x))]
LeftOf(a, x) == a = IF Children(x) = {} THEN AtRest ELSE [at |-> "push", tasks |-> Children(x)]

LEMMA DiscoverKeeps ==
  ASSUME NEW s, NEW sc \in [Scout -> Activities], NEW es \in Seq(Reports), NEW D,
         Walking(s, sc, es, D), NEW w \in Scout, NEW x, Reads(sc[w], x), NEW e, ReportOn(e, x), NEW a, LeftOf(a, x),
         NEW tc, Moves(sc, tc, w, a)
  PROVE  Walking(s, tc, Append(es, e), D \cup {x}) /\ x \in Tasks
<1> DEFINE A == Alive(s, sc)
           B == (A \ {x}) \cup Children(x)
           E == D \cup {x}
           K == DOMAIN s.known
           fs == Append(es, e)
<1>1. HandsApart(s, sc) /\ WalkOK(A, D, K)
  BY DEF Walking
<1>2. InHands(sc[w]) = {x}
  BY DEF InHands, Reads
<1>3. InHands(a) = Children(x)
  BY DEF InHands, AtRest, LeftOf
<1>4. /\ A = s.tasks \cup {x} \cup Others(sc, w)
      /\ {x} \cap s.tasks = {} /\ Others(sc, w) \cap s.tasks = {} /\ {x} \cap Others(sc, w) = {}
  BY <1>1, <1>2, HandsSplit
<1> HIDE DEF A, K
<1>5. x \in A /\ InWalk(x) /\ x \in Tasks /\ x.search \in K /\ x \notin D
  <2>1. x \in A
    BY <1>4
  <2> QED BY <1>1, <2>1 DEF WalkOK, InWalk
<1>6. /\ WalkOK(B, E, K) /\ Children(x) \cap A = {}
      /\ \A q : q # x.search => OfSearch(q, B) = OfSearch(q, A)
  <2>1. /\ WalkOK((A \ {x}) \cup Children(x), D \cup {x}, K) /\ Children(x) \cap A = {}
        /\ \A q : q # x.search => OfSearch(q, (A \ {x}) \cup Children(x)) = OfSearch(q, A)
    <3>1. WalkOK(A, D, K)
      BY <1>1
    <3>2. x \in A
      BY <1>5
    <3>3. WalkOK((A \ {x}) \cup Children(x), D \cup {x}, K)
      BY <3>1, <3>2, WalkGoesOn
    <3>4. Children(x) \cap A = {}
      BY <3>1, <3>2, WalkGoesOn
    <3>5. \A q : q # x.search => OfSearch(q, (A \ {x}) \cup Children(x)) = OfSearch(q, A)
      <4>1. \A c \in Children(x) : c.search = x.search
        BY <1>5 DEF Children, Tasks
      <4> QED BY <4>1 DEF OfSearch
    <3> QED BY <3>3, <3>4, <3>5
  <2> QED BY <2>1
<1>7. HandsApart(s, tc) /\ Alive(s, tc) = s.tasks \cup InHands(a) \cup Others(sc, w)
  <2>1. Fits(a, s, sc, w)
    BY <1>3, <1>4, <1>6 DEF Fits
  <2> QED BY <1>1, <2>1, HandsJoin
<1>8. Alive(s, tc) = B
  BY <1>3, <1>4, <1>7
<1> HIDE DEF B, fs
<1>9. /\ e \in Reports /\ e.search = x.search /\ ToSet(e.found) = Accepted(x.place)
      /\ e.spawned = Cardinality(Children(x))
  <2>1. x.place \in Place /\ x.search \in Nat
    BY <1>5 DEF Tasks
  <2>2. SetToSeq(Accepted(x.place)) \in Seq(Place) /\ ToSet(SetToSeq(Accepted(x.place))) = Accepted(x.place)
    BY <2>1, AcceptedInOrder
  <2>3. Cardinality(Children(x)) \in Nat
    BY <1>5, ChildrenParts, FS_CardinalityType
  <2>4. PICK f \in Seq(Place) : f = SetToSeq(Accepted(x.place))
    BY <2>2
  <2>5. PICK n \in Nat : n = Cardinality(Children(x))
    BY <2>3
  <2>6. e = [search |-> x.search, found |-> f, spawned |-> n]
    BY <2>4, <2>5 DEF ReportOn
  <2> QED BY <2>1, <2>2, <2>4, <2>5, <2>6 DEF Reports
<1>10. \A q \in K : q \in Nat /\ q < s.next /\ SearchOK(s.known[q], Heard(s.known[q], q, es), q, A, D)
  BY DEF Walking, K, A
<1>11. ASSUME NEW q \in K
       PROVE  SearchOK(s.known[q], Heard(s.known[q], q, fs), q, B, E)
  <2>1. PICK k : k = s.known[q]
    OBVIOUS
  <2>2. PICK h : h = Heard(k, q, es)
    OBVIOUS
  <2>3. SearchOK(k, h, q, A, D)
    BY <1>10, <2>1, <2>2
  <2>4. PICK g : g = Told(h, q, e)
    OBVIOUS
  <2>5. Heard(k, q, fs) = g
    BY <2>2, <2>4, HeardMore DEF fs
  <2>6. SearchOK(k, g, q, B, E)
    <3>1. CASE q = x.search
      <4>1. e.search = q
        BY <1>9, <3>1
      <4>2. h \in SearchRecords
        BY <2>3 DEF SearchOK
      <4>3. Adds(h, g, e)
        BY <1>9, <2>4, <4>1, <4>2, ToldParts
      <4>4. WalkOK(A, D, K) /\ x \in A
        BY <1>1, <1>5
      <4>5. SearchOK(k, g, q, (A \ {x}) \cup Children(x), D \cup {x})
        BY <1>9, <2>3, <3>1, <4>1, <4>3, <4>4, SearchGoesOn
      <4> QED BY <4>5 DEF B
    <3>2. CASE q # x.search
      <4>1. g = h
        BY <1>9, <2>4, <3>2 DEF Told
      <4>2. OfSearch(q, B) = OfSearch(q, A)
        BY <1>6, <3>2
      <4>3. \A u \in E : u.search = q => u \in D
        BY <3>2
      <4> HIDE DEF E
      <4> QED BY <2>3, <4>1, <4>2, <4>3 DEF SearchOK
    <3> QED BY <3>1, <3>2
  <2> QED BY <2>1, <2>5, <2>6
<1>12. \A i \in DOMAIN fs : fs[i].search \in K
  <2>1. \A i \in DOMAIN es : es[i].search \in K
    BY DEF Walking, K
  <2>2. /\ DOMAIN fs = 1 .. (Len(es) + 1) /\ DOMAIN es = 1 .. Len(es) /\ Len(es) \in Nat
        /\ \A i \in 1 .. Len(es) : fs[i] = es[i]
        /\ fs[Len(es) + 1] = e
    BY AppendParts, SMTT(40) DEF fs
  <2>3. PICK n \in Nat : n = Len(es)
    BY <2>2
  <2>4. \A i \in 1 .. (n + 1) : i \in 1 .. n \/ i = n + 1
    OBVIOUS
  <2> QED BY <1>5, <1>9, <2>1, <2>2, <2>3, <2>4
<1> HIDE DEF E
<1>13. Walking(s, tc, fs, E)
  BY <1>6, <1>7, <1>8, <1>10, <1>11, <1>12 DEF Walking, K
<1> QED BY <1>5, <1>13 DEF fs, E

(* All that was under way is applied, and perhaps handed out. *)
CaughtUp(s, t, es) ==
  /\ t.tasks = s.tasks /\ t.next = s.next /\ DOMAIN t.known = DOMAIN s.known
  /\ \A q \in DOMAIN s.known :
       LET h == Heard(s.known[q], q, es)
       IN  t.known[q] = h \/ t.known[q] = [h EXCEPT !.consumed = Len(h.found)]

LEMMA HearingKeeps ==
  ASSUME NEW s, NEW sc, NEW es, NEW D, Walking(s, sc, es, D), NEW t, CaughtUp(s, t, es)
  PROVE  Walking(t, sc, <<>>, D)
<1> DEFINE K == DOMAIN s.known
           A == Alive(s, sc)
<1>1. HandsApart(s, sc) /\ WalkOK(A, D, K) /\ HandsApart(t, sc) /\ Alive(t, sc) = A
  BY DEF Walking, HandsApart, Alive, CaughtUp
<1>2. \A q \in K : q \in Nat /\ q < s.next /\ SearchOK(s.known[q], Heard(s.known[q], q, es), q, A, D)
  BY DEF Walking
<1> HIDE DEF K, A
<1>3. ASSUME NEW q \in K
      PROVE  SearchOK(t.known[q], Heard(t.known[q], q, <<>>), q, A, D)
  <2>1. PICK h : h = Heard(s.known[q], q, es)
    OBVIOUS
  <2>2. PICK g : g = t.known[q]
    OBVIOUS
  <2>3. g = h \/ g = [h EXCEPT !.consumed = Len(h.found)]
    BY <2>1, <2>2 DEF K, CaughtUp
  <2>4. Heard(g, q, <<>>) = g
    <3>1. <<>> \in Seq(Reports)
      OBVIOUS
    <3>2. PICK z \in Seq(Reports) : z = <<>>
      BY <3>1
    <3>3. \A i \in DOMAIN z : z[i].search # q
      BY <3>2
    <3>4. Heard(g, q, z) = g
      BY <3>3, HeardNothing
    <3> QED BY <3>2, <3>4
  <2>5. /\ h \in SearchRecords /\ h.outstanding = Cardinality(OfSearch(q, A))
        /\ h.finished => OfSearch(q, A) = {}
        /\ ToSet(h.found) \subseteq Artifacts /\ h.consumed <= Len(h.found)
        /\ \A u \in D : u.search = q => Accepted(u.place) \subseteq ToSet(h.found)
    BY <1>2, <2>1 DEF SearchOK
  <2>6. /\ g \in SearchRecords /\ g.outstanding = h.outstanding /\ g.finished = h.finished
        /\ g.found = h.found /\ g.consumed <= Len(g.found)
    <3>1. CASE g = h
      BY <2>5, <3>1
    <3>2. CASE g = [h EXCEPT !.consumed = Len(h.found)]
      <4>1. h.found \in Seq(Place) /\ DOMAIN h = {"found", "consumed", "outstanding", "finished"}
        BY <2>5 DEF SearchRecords
      <4>2. PICK n : n = Len(h.found)
        OBVIOUS
      <4>3. n \in Nat /\ n <= n
        BY <4>1, <4>2
      <4>4. g = [h EXCEPT !.consumed = n]
        BY <3>2, <4>2
      <4>5. g.outstanding = h.outstanding /\ g.finished = h.finished /\ g.found = h.found /\ g.consumed = n
        BY <4>1, <4>4
      <4>6. g \in SearchRecords
        BY <2>5, <4>3, <4>4 DEF SearchRecords
      <4> QED BY <4>2, <4>3, <4>5, <4>6
    <3> QED BY <2>3, <3>1, <3>2
  <2>7. SearchOK(g, g, q, A, D)
    BY <2>5, <2>6 DEF SearchOK
  <2> QED BY <2>2, <2>4, <2>7
<1>4. \A i \in DOMAIN <<>> : <<>>[i].search \in DOMAIN t.known
  OBVIOUS
<1>5. DOMAIN t.known = K /\ t.next = s.next
  BY DEF K, CaughtUp
<1> QED BY <1>1, <1>2, <1>3, <1>4, <1>5 DEF Walking
-----------------------------------------------------------------------------
(* FoundInv, of the steps. *)

(* The walk goes on, with what is done now. *)
LEMMA FoundAgain ==
  ASSUME NEW D \in SUBSET Tasks, NEW t, NEW tc, NEW fs, Walking(t, tc, fs, D),
         searches' = t, scout' = tc, finds' = fs
  PROVE  FoundInv'
<1>1. Walking(searches', scout', finds', D)
  OBVIOUS
<1> QED BY <1>1 DEF FoundInv

LEMMA FoundStays ==
  ASSUME FoundInv, UNCHANGED <<searches, scout, finds>>
  PROVE  FoundInv'
<1>1. PICK D \in SUBSET Tasks : Walking(searches, scout, finds, D)
  BY DEF FoundInv
<1> QED BY <1>1, FoundAgain

(* What the threads hold are tasks. *)
LEMMA HandsAreTasks ==
  ASSUME NEW sc \in [Scout -> Activities], NEW w \in Scout
  PROVE  InHands(sc[w]) \subseteq Tasks
<1>1. PICK x \in Activities : x = sc[w]
  OBVIOUS
<1>2. CASE x = AtRest
  BY <1>1, <1>2 DEF InHands, AtRest
<1>3. CASE x \in [at : {"read"}, task : Tasks]
  BY <1>1, <1>3 DEF InHands
<1>4. CASE x \in [at : {"push"}, tasks : SUBSET Tasks]
  BY <1>1, <1>4 DEF InHands
<1> QED BY <1>2, <1>3, <1>4 DEF Activities

LEMMA RestartCleanerFound ==
  ASSUME ListInv, FoundInv, scenario \in Scenarios, RestartCleaner
  PROVE  FoundInv'
<1>1. Becomes(Begin(State)) /\ UNCHANGED <<scout, finds>>
  BY DEF RestartCleaner, Screen, Press
<1>2. PICK s : s = State
  OBVIOUS
<1>3. PICK t : t = Begin(s)
  OBVIOUS
<1>4. IsState(s) /\ s.searches = searches
  BY <1>2 DEF ListInv, State
<1>5. t.searches = s.searches \/ t.searches = StartDiscovery(s.searches)
  BY <1>3, <1>4, BeginOK
<1>6. searches' = t.searches
  BY <1>1, <1>2, <1>3 DEF Becomes
<1>7. CASE t.searches = searches
  BY <1>1, <1>6, <1>7, FoundStays
<1>8. CASE t.searches = StartDiscovery(searches)
  <2>1. PICK D \in SUBSET Tasks : Walking(searches, scout, finds, D)
    BY DEF FoundInv
  <2>2. IsSearches(searches) /\ finds \in Seq(Reports) /\ scout \in [Scout -> Activities]
    BY StateIsList DEF ListInv
  <2>3. PICK a : a = searches
    OBVIOUS
  <2>4. PICK b : b = t.searches
    OBVIOUS
  <2>5. PICK c \in [Scout -> Activities] : c = scout
    BY <2>2
  <2>6. PICK e \in Seq(Reports) : e = finds
    BY <2>2
  <2>7. IsSearches(a) /\ b = StartDiscovery(a) /\ Walking(a, c, e, D)
    BY <1>8, <2>1, <2>2, <2>3, <2>4, <2>5, <2>6
  <2>8. \A w \in Scout : InHands(c[w]) \subseteq Tasks
    BY HandsAreTasks
  <2>9. Walking(b, c, e, D)
    BY <2>7, <2>8, StartKeeps
  <2>10. searches' = b /\ scout' = c /\ finds' = e
    BY <1>1, <1>6, <2>4, <2>5, <2>6
  <2> QED BY <2>9, <2>10, FoundAgain
<1> QED BY <1>4, <1>5, <1>7, <1>8

LEMMA ScoutStepFound ==
  ASSUME ListInv, FoundInv, NEW w \in Scout, ScoutStepOf(w)
  PROVE  FoundInv'
<1>1. PICK D \in SUBSET Tasks : Walking(searches, scout, finds, D)
  BY DEF FoundInv
<1>2. IsSearches(searches) /\ finds \in Seq(Reports) /\ scout \in [Scout -> Activities]
  BY StateIsList DEF ListInv
<1>3. PICK s : s = searches
  OBVIOUS
<1>4. PICK sc \in [Scout -> Activities] : sc = scout
  BY <1>2
<1>5. PICK es \in Seq(Reports) : es = finds
  BY <1>2
<1>6. PICK t : t = searches'
  OBVIOUS
<1>7. PICK tc : tc = scout'
  OBVIOUS
<1>8. Walking(s, sc, es, D) /\ IsSearches(s)
  BY <1>1, <1>2, <1>3, <1>4, <1>5
<1>9. CASE TakeDiscovery(w)
  <2>1. PICK x \in s.tasks :
          /\ t = [s EXCEPT !.tasks = @ \ {x}]
          /\ tc = [sc EXCEPT ![w] = [at |-> "read", task |-> x]]
    BY <1>3, <1>4, <1>6, <1>7, <1>9 DEF TakeDiscovery
  <2>2. sc[w] = AtRest /\ finds' = es
    BY <1>4, <1>5, <1>9 DEF TakeDiscovery
  <2>3. t.tasks = s.tasks \ {x} /\ t.known = s.known /\ t.next = s.next
    BY <1>8, <2>1 DEF IsSearches
  <2>4. PICK a : a = [at |-> "read", task |-> x]
    OBVIOUS
  <2>5. Moves(sc, tc, w, a)
    BY <2>1, <2>4 DEF Moves
  <2>6. Walking(t, tc, es, D)
    BY <1>8, <2>2, <2>3, <2>4, <2>5, TakeKeeps
  <2> QED BY <1>6, <1>7, <2>2, <2>6, FoundAgain
<1>10. CASE Discover(w)
  <2>1. PICK x : x = sc[w].task
    OBVIOUS
  <2>2. PICK e : e = [search |-> x.search, found |-> SetToSeq(Accepted(x.place)),
                      spawned |-> Cardinality(Children(x))]
    OBVIOUS
  <2>3. PICK a : a = IF Children(x) = {} THEN AtRest ELSE [at |-> "push", tasks |-> Children(x)]
    OBVIOUS
  <2>4. /\ scout[w].at = "read" /\ finds' = Append(es, e) /\ tc = [sc EXCEPT ![w] = a]
        /\ searches' = s
    BY <1>3, <1>4, <1>5, <1>7, <1>10, <2>1, <2>2, <2>3 DEF Discover
  <2>5. Moves(sc, tc, w, a)
    BY <2>4 DEF Moves
  <2>6. Walking(s, tc, Append(es, e), D \cup {x}) /\ x \in Tasks
    <3>1. Reads(sc[w], x) /\ ReportOn(e, x) /\ LeftOf(a, x)
      BY <1>4, <2>1, <2>2, <2>3, <2>4 DEF Reads, ReportOn, LeftOf
    <3> QED BY <1>8, <2>5, <3>1, DiscoverKeeps
  <2>7. D \cup {x} \in SUBSET Tasks
    BY <2>6
  <2> QED BY <1>7, <2>4, <2>6, <2>7, FoundAgain
<1>11. CASE PushDiscoveries(w)
  <2>1. /\ sc[w].at = "push" /\ t = [s EXCEPT !.tasks = @ \cup sc[w].tasks]
        /\ tc = [sc EXCEPT ![w] = AtRest] /\ finds' = es
    BY <1>3, <1>4, <1>5, <1>6, <1>7, <1>11 DEF PushDiscoveries
  <2>2. t.tasks = s.tasks \cup sc[w].tasks /\ t.known = s.known /\ t.next = s.next
    BY <1>8, <2>1 DEF IsSearches
  <2>3. PICK a : a = AtRest
    OBVIOUS
  <2>4. InHands(a) = {}
    BY <2>3 DEF InHands, AtRest
  <2>5. Moves(sc, tc, w, a)
    BY <2>1, <2>3 DEF Moves
  <2>6. Walking(t, tc, es, D)
    BY <1>8, <2>1, <2>2, <2>4, <2>5, PushKeeps
  <2> QED BY <1>6, <1>7, <2>1, <2>6, FoundAgain
<1> QED BY <1>9, <1>10, <1>11 DEF ScoutStepOf, ScoutStep

LEMMA TickFound ==
  ASSUME ListInv, DiskInv, FoundInv, Tick
  PROVE  FoundInv'
<1>1. PICK D \in SUBSET Tasks : Walking(searches, scout, finds, D)
  BY DEF FoundInv
<1>2. IsSearches(searches) /\ finds \in Seq(Reports)
  BY StateIsList DEF ListInv
<1>3. PICK s : s = searches
  OBVIOUS
<1>4. PICK es \in Seq(Reports) : es = finds
  BY <1>2
<1>5. PICK u : u = FoldLeft(ApplyDiscoveryProgress, s, es)
  OBVIOUS
<1>6. PICK t : t = searches'
  OBVIOUS
<1>7. PICK sc : sc = scout
  OBVIOUS
<1>8. t = u \/ \E q : t = TakeDiscovered(u, q)
  BY <1>3, <1>4, <1>5, <1>6, TickList
<1>9. finds' = <<>> /\ scout' = sc
  BY <1>7, TickParts
<1>10. /\ DOMAIN s = {"known", "next", "tasks"} /\ Walking(s, sc, es, D)
  BY <1>1, <1>2, <1>3, <1>4, <1>7 DEF IsSearches
<1>11. /\ DOMAIN u = DOMAIN s /\ u.tasks = s.tasks /\ u.next = s.next
       /\ DOMAIN u.known = DOMAIN s.known
       /\ \A q \in DOMAIN s.known : u.known[q] = Heard(s.known[q], q, es)
  BY <1>5, <1>10, AllHeard
<1>12. CaughtUp(s, t, es)
  <2>1. CASE t = u
    BY <1>11, <2>1 DEF CaughtUp
  <2>2. ASSUME NEW q \in DOMAIN u.known, t = TakeDiscovered(u, q)
        PROVE  CaughtUp(s, t, es)
    <3> DEFINE k == [u.known[q] EXCEPT !.consumed = Len(u.known[q].found)]
    <3>1. t = [u EXCEPT !.known[q] = k]
      BY <2>2 DEF TakeDiscovered
    <3>2. k = [u.known[q] EXCEPT !.consumed = Len(u.known[q].found)]
      OBVIOUS
    <3> HIDE DEF k
    <3>3. t.tasks = u.tasks /\ t.next = u.next /\ t.known = [u.known EXCEPT ![q] = k]
      BY <1>10, <1>11, <3>1
    <3> QED BY <1>11, <3>2, <3>3 DEF CaughtUp
  <2>3. \A q : q \notin DOMAIN u.known => TakeDiscovered(u, q) = u
    BY DEF TakeDiscovered
  <2> QED BY <1>8, <2>1, <2>2, <2>3
<1>13. Walking(t, sc, <<>>, D)
  BY <1>10, <1>12, HearingKeeps
<1> QED BY <1>6, <1>9, <1>13, FoundAgain

LEMMA InitFound ==
  ASSUME Init
  PROVE  FoundInv
<1>1. PICK sc : sc = [w \in Scout |-> AtRest]
  OBVIOUS
<1>2. searches = NoSearches /\ scout = sc /\ finds = <<>>
  BY <1>1 DEF Init, DiscoveryInit
<1>3. \A w \in Scout : InHands(sc[w]) = {}
  BY <1>1 DEF InHands, AtRest
<1>4. NoSearches.tasks = {} /\ DOMAIN NoSearches.known = {}
  BY DEF NoSearches
<1>5. Alive(NoSearches, sc) = {} /\ HandsApart(NoSearches, sc)
  BY <1>3, <1>4 DEF Alive, HandsApart
<1>6. WalkOK({}, {}, {})
  <2>1. IsFiniteSet({})
    BY FS_EmptySet
  <2> QED BY <2>1 DEF WalkOK
<1>7. Walking(NoSearches, sc, <<>>, {})
  BY <1>4, <1>5, <1>6 DEF Walking
<1>8. {} \in SUBSET Tasks
  OBVIOUS
<1> QED BY <1>2, <1>7, <1>8 DEF FoundInv

LEMMA FoundKept ==
  ASSUME OperationsInv, FoundInv, [Next]_vars
  PROVE  FoundInv'
<1>1. ListInv /\ DiskInv /\ scenario \in Scenarios
  BY DEF OperationsInv, DiskInv
<1>2. CASE UserStep
  <2>1. CASE RestartCleaner
    BY <1>1, <2>1, RestartCleanerFound
  <2>2. CASE ~RestartCleaner
    <3>1. UNCHANGED discoveryVars
      BY <1>2, <2>2
         DEF UserStep, ToggleMark, RequestDeletion, RescanDirectory, RequestCleaning, SelectTargets,
             ChangeRules, ConfirmRun, ConfirmElevation, CloseDialog, RequestCancel, DismissOperation
    <3> QED BY <3>1, FoundStays DEF discoveryVars
  <2> QED BY <2>1, <2>2
<1>3. CASE RunForeground
  <2>1. UNCHANGED <<scout, finds>>
    BY <1>3 DEF RunForeground
  <2>2. searches' = searches
    <3>1. UNCHANGED <<list, searches>> \/ \E outcomes : Becomes(AbsorbReport(State, outcomes))
      BY <1>3, Zenon DEF RunForeground
    <3>2. ASSUME NEW outcomes, Becomes(AbsorbReport(State, outcomes))
          PROVE  searches' = searches
      <4>1. PICK s : s = State
        OBVIOUS
      <4>2. PICK t : t = AbsorbReport(s, outcomes)
        OBVIOUS
      <4>3. IsState(s) /\ s.searches = searches
        BY <1>1, <4>1 DEF ListInv, State
      <4>4. t.searches = s.searches
        BY <4>2, <4>3, AbsorbReportOK
      <4> QED BY <3>2, <4>1, <4>2, <4>3, <4>4 DEF Becomes
    <3> QED BY <3>1, <3>2
  <2> QED BY <2>1, <2>2, FoundStays
<1>4. CASE Tick
  BY <1>1, <1>4, TickFound
<1>5. ASSUME NEW w \in Scout, ScoutStepOf(w)
      PROVE  FoundInv'
  BY <1>1, <1>5, ScoutStepFound
<1>6. CASE WorkerStep \/ ReadAgain \/ Vanish \/ AnswerInventory \/ UNCHANGED vars
  <2>1. UNCHANGED discoveryVars
    BY <1>6 DEF WorkerStep, ReadAgain, Vanish, AnswerInventory, vars
  <2> QED BY <2>1, FoundStays DEF discoveryVars
<1> QED BY <1>2, <1>3, <1>4, <1>5, <1>6 DEF Next

(* A finished search has found every artifact below its roots that the     *)
(* rules accept and nothing else, whatever order its tasks are taken in    *)
(* and its reports arrive in.                                              *)
THEOREM EverythingFound == Spec => []FinishedMeansAllFound
<1>1. Init => OperationsInv /\ FoundInv
  BY InitIsGood, InitFound
<1>2. OperationsInv /\ FoundInv /\ [Next]_vars => FoundInv'
  BY FoundKept
<1>3. OperationsInv /\ FoundInv => FinishedMeansAllFound
  <2> SUFFICES ASSUME OperationsInv, FoundInv, NEW q \in DOMAIN searches.known
               PROVE  LET s == searches.known[q]
                      IN  /\ ToSet(s.found) \subseteq Artifacts
                          /\ s.finished => ToSet(s.found) = Artifacts
                          /\ s.consumed <= Len(s.found)
    BY DEF FinishedMeansAllFound, Artifacts, Origins
  <2>1. PICK D \in SUBSET Tasks : Walking(searches, scout, finds, D)
    BY DEF FoundInv
  <2>2. PICK A : A = Alive(searches, scout)
    OBVIOUS
  <2>3. PICK k : k = searches.known[q]
    OBVIOUS
  <2>4. PICK h : h = Heard(searches.known[q], q, finds)
    OBVIOUS
  <2>5. PICK K : K = DOMAIN searches.known
    OBVIOUS
  <2>6. WalkOK(A, D, K) /\ SearchOK(k, h, q, A, D) /\ q \in K /\ q \in Nat
    BY <2>1, <2>2, <2>3, <2>4, <2>5 DEF Walking
  <2>7. ToSet(k.found) \subseteq Artifacts /\ k.consumed <= Len(k.found)
    BY <2>6 DEF SearchOK
  <2>8. ASSUME k.finished
        PROVE  Artifacts \subseteq ToSet(k.found)
    <3>1. OfSearch(q, A) = {}
      BY <2>6, <2>8 DEF SearchOK
    <3>2. \A u \in D : u.search = q => Accepted(u.place) \subseteq ToSet(k.found)
      BY <2>6, <2>8 DEF SearchOK
    <3> QED BY <2>6, <3>1, <3>2, WalkEnds
  <2> QED BY <2>3, <2>7, <2>8
<1> QED BY <1>1, <1>2, <1>3, OperationsInvariant, PTL DEF Spec

=============================================================================
