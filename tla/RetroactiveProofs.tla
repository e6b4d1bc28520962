------------------------- MODULE RetroactiveProofs -------------------------
(***************************************************************************)
(* What the retroactive process promises, proved for every log, any number *)
(* of ids, contracts and runs, and every fetch limit, with the live loop   *)
(* down while the process runs (~Overlap).                                 *)
(*                                                                         *)
(* The three properties speak of what lies behind a checkpoint or a flag.  *)
(* The invariant says how it got there: between the position `current' of  *)
(* an id and its queue no event of its contracts is left out (QueueOK), so *)
(* all up to `current' were attempted (LoopOK), and the checkpoint is not  *)
(* past it (BehindOK); the contracts of the run are those a later run      *)
(* would find (TargetsOK).  AppliedOK gives, for each stored event, the    *)
(* reason why it will not be stored again.                                 *)
(***************************************************************************)
EXTENDS Retroactive, SequenceTheorems, FiniteSetTheorems, WellFoundedInduction, TLAPS

Labels == {"idle", "begin", "fetch", "pop", "process", "checkpoint", "mark", "delete", "done", "failed"}

TypeOK ==
    /\ live \in {"old", "new", "off"} /\ run \in {"off", "found", "working"}
    /\ pointer \in 0..Len(Log) /\ last \in 0..Len(Log) /\ runs \in Nat
    /\ registry \in [Addresses -> {"absent", "handled", "unhandled"}]
    /\ checkpoint \in [Ids -> 0..NoCheckpoint]
    /\ retroApplied \in [Events -> Nat]
    /\ targets \in [Ids -> SUBSET Addresses]
    /\ pc \in [Ids -> Labels]
    /\ current \in [Ids -> 0..Len(Log)]
    /\ queue \in [Ids -> Seq(Events)]
    /\ attempted \subseteq Events /\ exposed \subseteq Events
    /\ caughtUp \in [Addresses -> 0..Len(Log)]

\* The process and the live loop do not run at the same time, and before the
\* first run nothing is stored that depends on one.
LiveOK ==
    /\ run # "off" => live = "off" /\ runs > 0
    /\ live = "old" => runs = 0
    /\ runs = 0 => \A s \in Ids : checkpoint[s] = NoCheckpoint
    /\ run # "working" => \A s \in Ids : pc[s] = "idle"

\* The contracts a run works on are the unhandled ones, until it marks them.
TargetsOK ==
    \A s \in Ids :
        /\ run = "found" \/ pc[s] \in {"begin", "fetch", "pop", "process", "checkpoint", "mark"}
              => targets[s] = Newly(s)
        /\ pc[s] = "delete" => Newly(s) = {}

\* What the loop of an id has behind it
LoopOK(s) ==
    /\ pc[s] \in {"fetch", "pop", "checkpoint"} =>
          \A e \in EventsOf(targets[s]) : e <= current[s] => e \in attempted
    /\ pc[s] = "process" =>
          /\ current[s] \in EventsOf(targets[s])
          /\ \A e \in EventsOf(targets[s]) : e < current[s] => e \in attempted
    /\ pc[s] = "mark" =>
          \A e \in EventsOf(targets[s]) : e < last => e \in attempted

\* and before it.
QueueOK(s) ==
    /\ pc[s] \in {"fetch", "pop", "process", "checkpoint"} =>
          \A i \in DOMAIN queue[s] :
              /\ queue[s][i] \in EventsOf(targets[s]) /\ current[s] < queue[s][i]
              /\ \A j \in DOMAIN queue[s] : i < j => queue[s][i] < queue[s][j]
              /\ \A e \in EventsOf(targets[s]) : current[s] < e /\ e < queue[s][i] =>
                    \E j \in DOMAIN queue[s] : queue[s][j] = e
    /\ pc[s] = "pop" /\ queue[s] = <<>> =>
          \A e \in EventsOf(targets[s]) : e <= last => e <= current[s]

\* The checkpoint follows the loop.
BehindOK(s) ==
    checkpoint[s] # NoCheckpoint =>
        /\ pc[s] \in {"fetch", "pop", "checkpoint"} => checkpoint[s] <= current[s]
        /\ pc[s] = "process" => checkpoint[s] < current[s]

IdOfEvent(e) == IdOf[Log[e].addr]

\* Why no later run will hand e to its handler, or how it could happen
SafeFromRepeat(e) ==
    LET s == IdOfEvent(e) IN
    \/ e \in exposed
    \/ pc[s] = "checkpoint" /\ current[s] = e
    \/ checkpoint[s] # NoCheckpoint /\ e <= checkpoint[s]
    \/ registry[Log[e].addr] # "unhandled"

\* The run under way has not come to e.
StillToCome(e) ==
    LET s == IdOfEvent(e) IN
    \/ run = "found" \/ pc[s] = "begin"
    \/ pc[s] \in {"fetch", "pop", "checkpoint"} /\ current[s] < e
    \/ pc[s] = "process" /\ current[s] <= e

AppliedOK ==
    \A e \in Events :
        /\ retroApplied[e] <= runs
        /\ StillToCome(e) => retroApplied[e] < runs
        /\ retroApplied[e] > 0 => SafeFromRepeat(e)
        /\ retroApplied[e] > 1 => e \in exposed

IInv ==
    /\ TypeOK /\ LiveOK /\ TargetsOK
    /\ \A s \in Ids : LoopOK(s) /\ QueueOK(s) /\ BehindOK(s)
    /\ AppliedOK
    /\ CheckpointCoversPrefix /\ HandledCaughtUp
-----------------------------------------------------------------------------
(* Lemmas about the log and the queue. *)

\* The log is finite, and the pointers that are not NoCheckpoint are its positions.
LEMMA LogFacts ==
    /\ Len(Log) \in Nat /\ Events = 1..Len(Log) /\ NoCheckpoint \in Nat
    /\ NoCheckpoint \notin 0..Len(Log) /\ 0..Len(Log) \subseteq 0..NoCheckpoint
    /\ \A e \in Events : Log[e].addr \in Addresses /\ IdOfEvent(e) \in Ids
    /\ \A A : EventsOf(A) \subseteq Events
    /\ Events \subseteq 0..Len(Log) /\ 0 \notin Events
    /\ \A n \in 0..NoCheckpoint : n # NoCheckpoint => n \in 0..Len(Log)
    /\ 0 \in 0..Len(Log) /\ \A n \in 0..Len(Log) : n # 0 => n \in Events
    /\ NoCheckpoint \in 0..NoCheckpoint
<1>1. Len(Log) \in Nat /\ \A e \in 1..Len(Log) : Log[e] \in [addr : Addresses, pool : BOOLEAN]
  BY RetroAssumption, ElementOfSeq, LenProperties
<1>. QED BY <1>1, RetroAssumption DEF Events, NoCheckpoint, IdOfEvent, EventsOf

\* An event of a contract that an id's run works on has that id.
LEMMA NewlyFacts ==
    ASSUME NEW s \in Ids, NEW e \in EventsOf(Newly(s))
    PROVE  IdOfEvent(e) = s /\ registry[Log[e].addr] = "unhandled" /\ e \in Events
BY DEF EventsOf, Newly, IdOfEvent

\* A set of numbers that is not empty has a least one.
LEMMA LeastElement ==
    ASSUME NEW S \in SUBSET Nat, S # {}
    PROVE  \E m \in S : \A n \in S : m <= n
<1>. DEFINE R == OpToRel(<, Nat)
<1>1. IsWellFoundedOn(R, Nat)
  BY NatLessThanWellFounded
<1>2. \A x, y \in Nat : <<x, y>> \in R <=> x < y
  BY DEF OpToRel
<1>. HIDE DEF R
<1>3. PICK m \in S : \A n \in S : ~(<<n, m>> \in R)
  BY <1>1, WFMin
<1>4. ASSUME NEW n \in S PROVE m <= n
  <2>1. m \in Nat /\ n \in Nat
    OBVIOUS
  <2>2. ~(n < m)
    BY <1>2, <1>3, <2>1, Zenon
  <2>. QED BY <2>1, <2>2
<1>. QED BY <1>4

\* The indexer gives the first events of the range, and none only if there is none.
LEMMA LimitedFacts ==
    ASSUME NEW F \in SUBSET Events
    PROVE  /\ Limited(F) \subseteq F
           /\ \A e \in Limited(F), f \in F : f < e => f \in Limited(F)
           /\ Limited(F) = {} => F = {}
<1>1. ASSUME NEW G \in SUBSET F PROVE IsFiniteSet(G) /\ Cardinality(G) \in Nat
  <2>1. IsFiniteSet(Events)
    BY LogFacts, FS_Interval
  <2>. QED BY <2>1, FS_Subset, FS_CardinalityType
<1>2. F \subseteq Nat
  BY LogFacts
<1>3. ASSUME NEW e \in Limited(F), NEW f \in F, f < e
      PROVE  f \in Limited(F)
  <2>. DEFINE B(x) == {g \in F : g <= x}
  <2>1. B(f) \subseteq B(e) /\ B(e) \in SUBSET F /\ B(f) \in SUBSET F
    <3>1. e \in Nat /\ f \in Nat
      BY <1>2 DEF Limited
    <3>2. ASSUME NEW g \in F, g <= f PROVE g <= e
      <4>1. g \in Nat
        BY <1>2
      <4>. QED BY <1>3, <3>1, <3>2, <4>1
    <3>. QED BY <3>2
  <2>2. Cardinality(B(f)) <= Cardinality(B(e))
    BY <1>1, <2>1, FS_Subset
  <2>3. Cardinality(B(e)) <= FetchLimit
    BY DEF Limited
  <2>4. Cardinality(B(f)) \in Nat /\ Cardinality(B(e)) \in Nat /\ FetchLimit \in Nat
    BY <1>1, <2>1, RetroAssumption
  <2>. HIDE DEF B
  <2>5. Cardinality(B(f)) <= FetchLimit
    BY <2>2, <2>3, <2>4
  <2>. QED BY <2>5 DEF Limited, B
<1>4. ASSUME F # {} PROVE Limited(F) # {}
  <2>1. PICK m \in F : \A n \in F : m <= n
    BY <1>2, <1>4, LeastElement
  <2>2. {f \in F : f <= m} = {m}
    <3>1. ASSUME NEW f \in F, f <= m PROVE f = m
      <4>1. f \in Nat /\ m \in Nat /\ m <= f
        BY <1>2, <2>1
      <4>. QED BY <3>1, <4>1
    <3>2. m <= m
      BY <1>2
    <3>. QED BY <3>1, <3>2
  <2>3. Cardinality({f \in F : f <= m}) = 1
    BY <2>2, FS_Singleton
  <2>4. m \in Limited(F)
    BY <2>3, RetroAssumption DEF Limited
  <2>. QED BY <2>4
<1>. QED BY <1>3, <1>4 DEF Limited

\* A queue in order gives each event of its set once, at increasing positions.
LEMMA InOrderFacts ==
    ASSUME NEW F \in SUBSET Events, NEW q \in InOrder(F)
    PROVE  /\ q \in Seq(Events)
           /\ \A i \in DOMAIN q : q[i] \in F
           /\ \A e \in F : \E i \in DOMAIN q : q[i] = e
           /\ \A i, j \in DOMAIN q : i < j => q[i] < q[j]
           /\ q = <<>> => F = {}
<1>1. IsFiniteSet(F)
  <2>1. IsFiniteSet(Events)
    BY LogFacts, FS_Interval
  <2>. QED BY <2>1, FS_Subset
<1>2. Cardinality(F) \in Nat
  BY <1>1, FS_CardinalityType
<1>3. q \in [1..Cardinality(F) -> F]
  BY DEF InOrder
<1>4. q \in Seq(Events)
  BY <1>2, <1>3, SeqDef
<1>5. \A i \in DOMAIN q : q[i] \in F
  BY <1>3
<1>6. /\ \A e \in F : \E i \in DOMAIN q : q[i] = e
      /\ \A i, j \in DOMAIN q : i < j => q[i] < q[j]
  BY DEF InOrder
<1>7. q = <<>> => DOMAIN q = {}
  BY <1>4, LenProperties, EmptySeq
<1>. QED BY <1>4, <1>5, <1>6, <1>7

\* The head and the tail of a queue, by position.
LEMMA PoppedFacts ==
    ASSUME NEW q \in Seq(Events), q # <<>>
    PROVE  /\ Head(q) \in Events /\ Tail(q) \in Seq(Events)
           /\ 1 \in DOMAIN q /\ Head(q) = q[1]
           /\ \A i \in DOMAIN Tail(q) : i \in Nat \ {0} /\ i + 1 \in DOMAIN q /\ Tail(q)[i] = q[i + 1]
           /\ \A i \in DOMAIN q : i # 1 => i - 1 \in DOMAIN Tail(q) /\ Tail(q)[i - 1] = q[i]
<1>1. /\ Head(q) \in Events /\ Tail(q) \in Seq(Events) /\ Len(Tail(q)) = Len(q) - 1
      /\ \A i \in 1..Len(Tail(q)) : Tail(q)[i] = q[i + 1]
  BY HeadTailProperties
<1>2. Len(q) \in Nat \ {0} /\ DOMAIN q = 1..Len(q)
  BY EmptySeq, LenProperties
<1>3. DOMAIN Tail(q) = 1..(Len(q) - 1)
  BY <1>1, LenProperties
<1>4. Head(q) = q[1]
  OBVIOUS
<1>. QED BY <1>1, <1>2, <1>3, <1>4
-----------------------------------------------------------------------------
(* Types, and what the step of an id leaves alone. *)

\* A step of one id keeps the types.
LEMMA StepTypes ==
    ASSUME TypeOK, NEW s \in Ids, LoopOK(s), StrategyStep(s)
    PROVE  TypeOK'
<1>. USE DEF TypeOK, GoTo, Labels, locals, tables, history
<1>1. CASE Begin(s)
  <2>1. StartPointer(s) \in 0..Len(Log) /\ <<>> \in Seq(Events)
    BY LogFacts, EmptySeq DEF StartPointer
  <2>. QED BY <1>1, <2>1 DEF Begin
<1>2. CASE BeginFails(s)
  BY <1>2 DEF BeginFails
<1>3. CASE Fetch(s)
  <2>1. Fetched(s) \in SUBSET Events
    BY LogFacts DEF Fetched, Limited
  <2>2. \A q \in InOrder(Fetched(s)) : q \in Seq(Events)
    BY <2>1, InOrderFacts
  <2>. QED BY <1>3, <2>2 DEF Fetch
<1>4. CASE FetchFails(s)
  BY <1>4 DEF FetchFails
<1>5. CASE Pop(s)
  <2>1. queue[s] # <<>> => Head(queue[s]) \in 0..Len(Log) /\ Tail(queue[s]) \in Seq(Events)
    BY PoppedFacts, LogFacts
  <2>2. CASE queue[s] = <<>>
    BY <1>5, <2>2 DEF Pop
  <2>3. CASE queue[s] # <<>>
    BY <1>5, <2>1, <2>3 DEF Pop
  <2>. QED BY <2>2, <2>3
<1>6. CASE Process(s)
  <2>1. current[s] \in Events
    BY <1>6, LogFacts DEF Process, LoopOK
  <2>. QED BY <1>6, <2>1 DEF Process
<1>7. CASE ProcessFails(s)
  <2>1. current[s] \in Events
    BY <1>7, LogFacts DEF ProcessFails, LoopOK
  <2>. QED BY <1>7, <2>1 DEF ProcessFails
<1>8. CASE UpdateCheckpoint(s)
  <2>1. current[s] \in 0..NoCheckpoint
    BY LogFacts
  <2>. QED BY <1>8, <2>1 DEF UpdateCheckpoint, NewCheckpoint
<1>9. CASE UpdateCheckpointFails(s)
  <2>1. {current[s]} \ {0} \subseteq Events
    BY LogFacts
  <2>. QED BY <1>9, <2>1 DEF UpdateCheckpointFails
<1>10. CASE Mark(s)
  BY <1>10 DEF Mark
<1>11. CASE DeleteCheckpoint(s)
  <2>1. NoCheckpoint \in 0..NoCheckpoint
    BY LogFacts
  <2>. QED BY <1>11, <2>1 DEF DeleteCheckpoint
<1>. QED
  BY <1>1, <1>2, <1>3, <1>4, <1>5, <1>6, <1>7, <1>8, <1>9, <1>10, <1>11 DEF StrategyStep

\* It touches the entries of that id only.
LEMMA StepFrame ==
    ASSUME TypeOK, NEW s \in Ids, StrategyStep(s)
    PROVE  /\ UNCHANGED <<live, pointer, run, last, targets, runs>>
           /\ attempted \subseteq attempted' /\ exposed \subseteq exposed'
           /\ \A t \in Ids \ {s} :
                 /\ pc'[t] = pc[t] /\ current'[t] = current[t]
                 /\ queue'[t] = queue[t] /\ checkpoint'[t] = checkpoint[t]
           /\ pc[s] # "idle"
<1>. USE DEF TypeOK, GoTo, Labels, locals, tables, history
<1>1. CASE Begin(s)
  BY <1>1 DEF Begin
<1>2. CASE BeginFails(s)
  BY <1>2 DEF BeginFails
<1>3. CASE Fetch(s)
  BY <1>3 DEF Fetch
<1>4. CASE FetchFails(s)
  BY <1>4 DEF FetchFails
<1>5. CASE Pop(s)
  BY <1>5 DEF Pop
<1>6. CASE Process(s)
  BY <1>6 DEF Process
<1>7. CASE ProcessFails(s)
  BY <1>7 DEF ProcessFails
<1>8. CASE UpdateCheckpoint(s)
  BY <1>8 DEF UpdateCheckpoint
<1>9. CASE UpdateCheckpointFails(s)
  BY <1>9 DEF UpdateCheckpointFails
<1>10. CASE Mark(s)
  BY <1>10 DEF Mark
<1>11. CASE DeleteCheckpoint(s)
  BY <1>11 DEF DeleteCheckpoint
<1>. QED
  BY <1>1, <1>2, <1>3, <1>4, <1>5, <1>6, <1>7, <1>8, <1>9, <1>10, <1>11 DEF StrategyStep

\* Marking takes contracts out of the unhandled ones of its id; nothing else
\* that a step of an id does touches the flags.
LEMMA StepNewly ==
    ASSUME IInv, NEW s \in Ids, StrategyStep(s)
    PROVE  /\ ~Mark(s) => registry' = registry
           /\ \A a \in Addresses : registry[a] # "unhandled" => registry'[a] # "unhandled"
           /\ \A t \in Ids : Newly(t)' \subseteq Newly(t)
           /\ \A t \in Ids \ {s} : Newly(t)' = Newly(t)
           /\ ~Mark(s) => Newly(s)' = Newly(s)
<1>1. CASE Mark(s)
  <2>1. PICK M \in SUBSET targets[s] :
           registry' = [a \in Addresses |-> IF a \in M THEN "handled" ELSE registry[a]]
    BY <1>1 DEF Mark
  <2>2. targets[s] = Newly(s)
    BY <1>1 DEF Mark, IInv, TargetsOK
  <2>3. \A a \in M : IdOf[a] = s
    BY <2>2 DEF Newly
  <2>. QED BY <1>1, <2>1, <2>3 DEF Newly
<1>2. CASE ~Mark(s)
  <2>1. registry' = registry
    BY <1>2 DEF StrategyStep, Begin, BeginFails, Fetch, FetchFails, Pop, Process, ProcessFails,
                UpdateCheckpoint, UpdateCheckpointFails, DeleteCheckpoint, tables
  <2>. QED BY <1>2, <2>1 DEF Newly
<1>. QED BY <1>1, <1>2

\* The live loop stays down.
LEMMA StepLive ==
    ASSUME IInv, NEW s \in Ids, StrategyStep(s)
    PROVE  LiveOK'
<1>1. run = "working" /\ runs > 0 /\ live = "off"
  BY StepFrame DEF IInv, LiveOK
<1>2. run' = "working" /\ runs' = runs /\ live' = "off"
  BY <1>1, StepFrame DEF IInv
<1>3. runs \in Nat
  BY DEF IInv, TypeOK
<1>. QED BY <1>1, <1>2, <1>3 DEF LiveOK

\* Its contracts stay those a later run would find, until it marks them.
LEMMA StepTargets ==
    ASSUME IInv, NEW s \in Ids, StrategyStep(s)
    PROVE  TargetsOK'
<1>1. run = "working" /\ run' = "working" /\ targets' = targets
  BY StepFrame DEF IInv, LiveOK
<1>2. pc \in [Ids -> Labels] /\ targets \in [Ids -> SUBSET Addresses]
  BY DEF IInv, TypeOK
<1>3. ASSUME NEW t \in Ids \ {s}
      PROVE  /\ pc'[t] \in {"begin", "fetch", "pop", "process", "checkpoint", "mark"}
                => targets'[t] = Newly(t)'
             /\ pc'[t] = "delete" => Newly(t)' = {}
  BY <1>1, StepFrame, StepNewly DEF IInv, TargetsOK
<1>4. CASE Mark(s)
  <2>1. PICK M \in SUBSET targets[s] :
           /\ registry' = [a \in Addresses |-> IF a \in M THEN "handled" ELSE registry[a]]
           /\ GoTo(s, IF M = targets[s] THEN "delete" ELSE "failed")
    BY <1>4 DEF Mark
  <2>2. targets[s] = Newly(s)
    BY <1>4 DEF Mark, IInv, TargetsOK
  <2>3. pc'[s] \in {"delete", "failed"} /\ (pc'[s] = "delete" => M = Newly(s))
    BY <1>2, <2>1, <2>2 DEF GoTo
  <2>4. M = Newly(s) => Newly(s)' = {}
    BY <2>1 DEF Newly
  <2>. QED BY <1>1, <1>3, <2>3, <2>4 DEF TargetsOK
<1>5. CASE ~Mark(s)
  <2>1. /\ pc[s] \in {"begin", "fetch", "pop", "process", "checkpoint", "mark", "delete"}
        /\ pc'[s] # "delete"
        /\ pc'[s] \in {"begin", "fetch", "pop", "process", "checkpoint", "mark"} => pc[s] # "delete"
    BY <1>2, <1>5 DEF StrategyStep, Begin, BeginFails, Fetch, FetchFails, Pop, Process, ProcessFails,
                UpdateCheckpoint, UpdateCheckpointFails, DeleteCheckpoint, GoTo, Labels
  <2>2. Newly(s)' = Newly(s)
    BY <1>5, StepNewly
  <2>3. pc'[s] \in {"begin", "fetch", "pop", "process", "checkpoint", "mark"}
           => targets'[s] = Newly(s)'
    BY <1>1, <2>1, <2>2 DEF IInv, TargetsOK
  <2>. QED BY <1>1, <1>3, <2>1, <2>3 DEF TargetsOK
<1>. QED BY <1>4, <1>5

\* The loops of the other ids stay as they are.
LEMMA OthersKeep ==
    ASSUME IInv, NEW s \in Ids, StrategyStep(s), NEW t \in Ids \ {s}
    PROVE  (LoopOK(t) /\ QueueOK(t) /\ BehindOK(t))'
<1>1. /\ pc'[t] = pc[t] /\ current'[t] = current[t] /\ queue'[t] = queue[t]
      /\ checkpoint'[t] = checkpoint[t] /\ targets' = targets /\ last' = last
      /\ attempted \subseteq attempted'
  BY StepFrame DEF IInv
<1>2. LoopOK(t) /\ QueueOK(t) /\ BehindOK(t)
  BY DEF IInv
<1>3. LoopOK(t)'
  BY <1>1, <1>2 DEF LoopOK
<1>4. QueueOK(t)'
  BY <1>1, <1>2 DEF QueueOK
<1>5. BehindOK(t)'
  BY <1>1, <1>2 DEF BehindOK
<1>. QED BY <1>3, <1>4, <1>5

\* The loop of the id itself: what is behind it and what is before it.
LEMMA StepLoop ==
    ASSUME IInv, NEW s \in Ids, StrategyStep(s)
    PROVE  (LoopOK(s) /\ QueueOK(s) /\ BehindOK(s))'
<1>. DEFINE E == EventsOf(targets[s])
<1>1. /\ targets' = targets /\ last' = last /\ attempted \subseteq attempted'
      /\ EventsOf(targets'[s]) = E
  BY StepFrame DEF IInv
<1>2. /\ pc \in [Ids -> Labels] /\ current \in [Ids -> 0..Len(Log)]
      /\ queue \in [Ids -> Seq(Events)] /\ checkpoint \in [Ids -> 0..NoCheckpoint]
  BY DEF IInv, TypeOK
<1>3. LoopOK(s) /\ QueueOK(s) /\ BehindOK(s)
  BY DEF IInv
<1>4. E \subseteq Events /\ E \subseteq Nat
  BY LogFacts
<1>5. CASE Begin(s)
  <2>1. /\ pc'[s] = "fetch" /\ current'[s] = StartPointer(s) /\ queue'[s] = <<>>
        /\ checkpoint' = checkpoint /\ attempted' = attempted
    BY <1>2, <1>5 DEF Begin, GoTo, tables, history
  <2>2. targets[s] = Newly(s)
    BY <1>5 DEF Begin, IInv, TargetsOK
  <2>3. \A e \in E : e <= StartPointer(s) => e \in attempted
    <3>1. CASE checkpoint[s] = NoCheckpoint
      BY <3>1, LogFacts, <1>4 DEF StartPointer
    <3>2. CASE checkpoint[s] # NoCheckpoint
      BY <3>2, <2>2 DEF StartPointer, IInv, CheckpointCoversPrefix
    <3>. QED BY <3>1, <3>2
  <2>4. LoopOK(s)'
    BY <1>1, <2>1, <2>3 DEF LoopOK
  <2>5. QueueOK(s)'
    BY <2>1 DEF QueueOK
  <2>6. BehindOK(s)'
    BY <1>2, <2>1, LogFacts DEF BehindOK, StartPointer
  <2>. QED BY <2>4, <2>5, <2>6
<1>6. CASE BeginFails(s) \/ UpdateCheckpointFails(s) \/ DeleteCheckpoint(s)
  <2>1. pc'[s] \in {"failed", "done"}
    BY <1>2, <1>6 DEF BeginFails, UpdateCheckpointFails, DeleteCheckpoint, GoTo
  <2>. QED BY <2>1 DEF LoopOK, QueueOK, BehindOK
<1>7. CASE Fetch(s)
  <2>1. /\ pc[s] = "fetch" /\ pc'[s] = "pop" /\ current' = current
        /\ checkpoint' = checkpoint /\ attempted' = attempted
    BY <1>2, <1>7 DEF Fetch, GoTo, tables, history
  <2>2. LoopOK(s)'
    BY <1>1, <1>3, <2>1 DEF LoopOK
  <2>3. BehindOK(s)'
    BY <1>3, <2>1 DEF BehindOK
  <2>4. CASE queue[s] # <<>>
    <3>1. queue' = queue
      BY <1>7, <2>4 DEF Fetch
    <3>2. QueueOK(s)'
      BY <1>1, <1>3, <2>1, <2>4, <3>1 DEF QueueOK
    <3>. QED BY <2>2, <2>3, <3>2
  <2>5. CASE queue[s] = <<>>
    <3>. DEFINE F == {e \in E : current[s] < e /\ e <= last}
    <3>1. PICK q \in InOrder(Fetched(s)) : queue' = [queue EXCEPT ![s] = q]
      BY <1>7, <2>5 DEF Fetch
    <3>2. Fetched(s) = Limited(F) /\ F \in SUBSET Events
      BY <1>4 DEF Fetched
    <3>3. /\ Limited(F) \subseteq F
          /\ \A e \in Limited(F), f \in F : f < e => f \in Limited(F)
          /\ Limited(F) = {} => F = {}
      BY <3>2, LimitedFacts
    <3>4. /\ \A i \in DOMAIN q : q[i] \in Limited(F)
          /\ \A e \in Limited(F) : \E i \in DOMAIN q : q[i] = e
          /\ \A i, j \in DOMAIN q : i < j => q[i] < q[j]
          /\ q = <<>> => Limited(F) = {}
      <4>1. Limited(F) \in SUBSET Events /\ q \in InOrder(Limited(F))
        BY <3>1, <3>2, <3>3
      <4>. HIDE DEF F
      <4>. QED BY <4>1, InOrderFacts
    <3>5. queue'[s] = q
      BY <1>2, <3>1
    <3>6. ASSUME NEW i \in DOMAIN q
          PROVE  /\ q[i] \in E /\ current[s] < q[i]
                 /\ \A e \in E : current[s] < e /\ e < q[i] => \E j \in DOMAIN q : q[j] = e
      <4>1. q[i] \in Limited(F) /\ q[i] \in F
        BY <3>3, <3>4
      <4>2. q[i] \in E /\ current[s] < q[i] /\ q[i] <= last
        BY <4>1
      <4>3. ASSUME NEW e \in E, current[s] < e, e < q[i]
            PROVE  \E j \in DOMAIN q : q[j] = e
        <5>1. e <= last
          <6>1. e \in Nat /\ q[i] \in Nat /\ last \in Nat
            BY <1>4, <4>2 DEF IInv, TypeOK
          <6>. QED BY <4>2, <4>3, <6>1
        <5>2. e \in F
          BY <4>3, <5>1
        <5>. QED BY <3>3, <3>4, <4>1, <4>3, <5>2
      <4>. QED BY <4>2, <4>3
    <3>7. ASSUME q = <<>>, NEW e \in E, e <= last
          PROVE  e <= current[s]
      <4>1. e \notin F
        BY <3>3, <3>4, <3>7
      <4>2. ~(current[s] < e)
        BY <3>7, <4>1
      <4>3. e \in Nat /\ current[s] \in Nat
        BY <1>2, <1>4, LogFacts
      <4>. QED BY <4>2, <4>3
    <3>. HIDE DEF E, F
    <3>8. current'[s] = current[s] /\ last' = last /\ EventsOf(targets'[s]) = E
      BY <1>1, <2>1
    <3>9. \A i \in DOMAIN queue'[s] :
              /\ queue'[s][i] \in E /\ current'[s] < queue'[s][i]
              /\ \A j \in DOMAIN queue'[s] : i < j => queue'[s][i] < queue'[s][j]
              /\ \A e \in E : current'[s] < e /\ e < queue'[s][i] =>
                    \E j \in DOMAIN queue'[s] : queue'[s][j] = e
      BY <3>4, <3>5, <3>6, <3>8, Zenon
    <3>10. queue'[s] = <<>> => \A e \in E : e <= last' => e <= current'[s]
      BY <3>5, <3>7, <3>8, Zenon
    <3>11. QueueOK(s)'
      BY <3>8, <3>9, <3>10, Zenon DEF QueueOK
    <3>. QED BY <2>2, <2>3, <3>11
  <2>. QED BY <2>4, <2>5
<1>8. CASE FetchFails(s)
  <2>1. /\ pc[s] = "fetch" /\ pc'[s] = "checkpoint" /\ current' = current /\ queue' = queue
        /\ checkpoint' = checkpoint /\ attempted' = attempted
    BY <1>2, <1>8 DEF FetchFails, GoTo, tables, history, locals
  <2>2. LoopOK(s)' /\ BehindOK(s)'
    BY <1>1, <1>3, <2>1 DEF LoopOK, BehindOK
  <2>3. QueueOK(s)'
    BY <1>1, <1>3, <2>1 DEF QueueOK
  <2>. QED BY <2>2, <2>3
<1>9. CASE Pop(s)
  <2>1. /\ pc[s] = "pop" /\ checkpoint' = checkpoint /\ attempted' = attempted
    BY <1>9 DEF Pop, tables, history
  <2>2. CASE queue[s] = <<>>
    <3>1. pc'[s] = "mark"
      BY <1>2, <1>9, <2>2 DEF Pop, GoTo
    <3>2. \A e \in E : e < last => e <= current[s]
      <4>1. \A e \in E : e <= last => e <= current[s]
        BY <1>3, <2>1, <2>2 DEF QueueOK
      <4>. QED BY <4>1, <1>4 DEF IInv, TypeOK
    <3>3. LoopOK(s)'
      BY <1>1, <1>3, <2>1, <3>1, <3>2 DEF LoopOK
    <3>. QED BY <3>1, <3>3 DEF QueueOK, BehindOK
  <2>3. CASE queue[s] # <<>>
    <3>. DEFINE q == queue[s]
                n == Head(q)
    <3>1. /\ current'[s] = n /\ queue'[s] = Tail(q)
          /\ pc'[s] = IF HasReachedLastEvent(n) THEN "mark" ELSE "process"
      BY <1>2, <1>9, <2>3 DEF Pop, GoTo
    <3>2. /\ n \in Events /\ 1 \in DOMAIN q /\ n = q[1]
          /\ \A i \in DOMAIN Tail(q) : i \in Nat \ {0} /\ i + 1 \in DOMAIN q /\ Tail(q)[i] = q[i + 1]
          /\ \A i \in DOMAIN q : i # 1 => i - 1 \in DOMAIN Tail(q) /\ Tail(q)[i - 1] = q[i]
          /\ \A i \in DOMAIN q : i \in Nat \ {0}
      BY <1>2, <2>3, PoppedFacts, LenProperties
    <3>3. \A i \in DOMAIN q :
              /\ q[i] \in E /\ current[s] < q[i]
              /\ \A j \in DOMAIN q : i < j => q[i] < q[j]
              /\ \A e \in E : current[s] < e /\ e < q[i] => \E j \in DOMAIN q : q[j] = e
      BY <1>3, <2>1 DEF QueueOK
    <3>4. \A e \in E : e <= current[s] => e \in attempted
      BY <1>3, <2>1 DEF LoopOK
    <3>. HIDE DEF E, q, n
    <3>5. n \in E /\ current[s] < n /\ current[s] \in Nat /\ n \in Nat
      BY <1>2, <1>4, <3>2, <3>3, LogFacts
    <3>6. \A i \in DOMAIN q : i # 1 => n < q[i]
      BY <3>2, <3>3
    <3>7. ASSUME NEW e \in E, e < n
          PROVE  e \in attempted
      <4>1. ~(current[s] < e)
        <5>1. SUFFICES ASSUME current[s] < e PROVE FALSE
          OBVIOUS
        <5>2. PICK j \in DOMAIN q : q[j] = e
          BY <3>2, <3>3, <3>7, <5>1
        <5>. QED BY <1>4, <3>2, <3>5, <3>6, <3>7, <5>2
      <4>. QED BY <1>4, <3>4, <3>5, <4>1
    <3>8. ASSUME NEW i \in DOMAIN Tail(q)
          PROVE  /\ Tail(q)[i] \in E /\ n < Tail(q)[i]
                 /\ \A j \in DOMAIN Tail(q) : i < j => Tail(q)[i] < Tail(q)[j]
                 /\ \A e \in E : n < e /\ e < Tail(q)[i] => \E j \in DOMAIN Tail(q) : Tail(q)[j] = e
      <4>1. i + 1 \in DOMAIN q /\ i + 1 # 1 /\ Tail(q)[i] = q[i + 1] /\ i \in Nat
        BY <3>2
      <4>2. Tail(q)[i] \in E /\ n < Tail(q)[i]
        BY <3>3, <3>6, <4>1
      <4>3. ASSUME NEW j \in DOMAIN Tail(q), i < j
            PROVE  Tail(q)[i] < Tail(q)[j]
        <5>1. j + 1 \in DOMAIN q /\ Tail(q)[j] = q[j + 1] /\ i + 1 < j + 1
          BY <3>2, <4>1, <4>3
        <5>. QED BY <3>3, <4>1, <5>1
      <4>4. ASSUME NEW e \in E, n < e, e < Tail(q)[i]
            PROVE  \E j \in DOMAIN Tail(q) : Tail(q)[j] = e
        <5>1. current[s] < e
          BY <1>4, <3>5, <4>4
        <5>2. PICK j \in DOMAIN q : q[j] = e
          BY <3>3, <4>1, <4>4, <5>1
        <5>3. j # 1
          BY <1>4, <3>2, <3>5, <4>4, <5>2
        <5>. QED BY <3>2, <5>2, <5>3
      <4>. QED BY <4>2, <4>3, <4>4
    <3>9. /\ current'[s] = n /\ queue'[s] = Tail(q) /\ last' = last
          /\ attempted' = attempted /\ EventsOf(targets'[s]) = E /\ last \in Nat
      BY <1>1, <2>1, <3>1 DEF q, n, IInv, TypeOK
    <3>10. CASE pc'[s] = "process"
      <4>1. LoopOK(s)'
        BY <3>5, <3>7, <3>9, <3>10 DEF LoopOK
      <4>2. QueueOK(s)'
        BY <3>8, <3>9, <3>10, Zenon DEF QueueOK
      <4>3. BehindOK(s)'
        BY <1>2, <1>3, <2>1, <3>5, <3>9, <3>10, LogFacts DEF BehindOK
      <4>. QED BY <4>1, <4>2, <4>3
    <3>11. CASE pc'[s] = "mark"
      <4>1. n >= last
        BY <3>1, <3>11 DEF HasReachedLastEvent, q, n
      <4>2. ASSUME NEW e \in E, e < last PROVE e \in attempted
        <5>1. e \in Nat /\ e < n
          BY <1>4, <3>5, <3>9, <4>1, <4>2
        <5>. QED BY <3>7, <5>1
      <4>3. LoopOK(s)'
        BY <3>9, <3>11, <4>2 DEF LoopOK
      <4>. QED BY <4>3, <3>11 DEF QueueOK, BehindOK
    <3>. QED BY <3>1, <3>10, <3>11
  <2>. QED BY <2>2, <2>3
<1>10. CASE Process(s) \/ ProcessFails(s)
  <2>1. /\ pc[s] = "process" /\ pc'[s] = "checkpoint" /\ current' = current /\ queue' = queue
        /\ checkpoint' = checkpoint /\ attempted' = attempted \cup {current[s]}
    BY <1>2, <1>10 DEF Process, ProcessFails, GoTo, tables, history, locals
  <2>2. \A e \in E : e <= current[s] => e \in attempted'
    <3>1. \A e \in E : e < current[s] => e \in attempted
      BY <1>3, <2>1 DEF LoopOK
    <3>2. current[s] \in Nat
      BY <1>2, LogFacts
    <3>. QED BY <1>4, <2>1, <3>1, <3>2
  <2>3. LoopOK(s)'
    BY <1>1, <2>1, <2>2 DEF LoopOK
  <2>4. QueueOK(s)'
    BY <1>1, <1>3, <2>1, Zenon DEF QueueOK
  <2>5. BehindOK(s)'
    BY <1>2, <1>3, <2>1, LogFacts DEF BehindOK
  <2>. QED BY <2>3, <2>4, <2>5
<1>11. CASE UpdateCheckpoint(s)
  <2>1. /\ pc[s] = "checkpoint" /\ pc'[s] = "fetch" /\ current' = current /\ queue' = queue
        /\ checkpoint'[s] = current[s] /\ attempted' = attempted
    BY <1>2, <1>11 DEF UpdateCheckpoint, NewCheckpoint, GoTo, tables, history, locals
  <2>2. LoopOK(s)'
    BY <1>1, <1>3, <2>1 DEF LoopOK
  <2>3. QueueOK(s)'
    BY <1>1, <1>3, <2>1 DEF QueueOK
  <2>4. BehindOK(s)'
    BY <1>2, <2>1, LogFacts DEF BehindOK
  <2>. QED BY <2>2, <2>3, <2>4
<1>12. CASE Mark(s)
  <2>1. pc'[s] \in {"delete", "failed"}
    BY <1>2, <1>12 DEF Mark, GoTo
  <2>. QED BY <2>1 DEF LoopOK, QueueOK, BehindOK
<1>. QED
  BY <1>5, <1>6, <1>7, <1>8, <1>9, <1>10, <1>11, <1>12 DEF StrategyStep

\* The checkpoints cover what was handed to the handlers.
LEMMA StepCovers ==
    ASSUME IInv, NEW s \in Ids, StrategyStep(s)
    PROVE  CheckpointCoversPrefix'
<1>1. /\ attempted \subseteq attempted' /\ \A t \in Ids : Newly(t)' \subseteq Newly(t)
      /\ \A t \in Ids \ {s} : checkpoint'[t] = checkpoint[t]
  BY StepFrame, StepNewly DEF IInv
<1>2. \A t \in Ids : EventsOf(Newly(t))' \subseteq EventsOf(Newly(t))
  BY <1>1 DEF EventsOf
<1>3. ASSUME NEW t \in Ids, checkpoint'[t] = checkpoint[t]
      PROVE  checkpoint'[t] # NoCheckpoint =>
                \A e \in EventsOf(Newly(t))' : e <= checkpoint'[t] => e \in attempted'
  BY <1>1, <1>2, <1>3 DEF IInv, CheckpointCoversPrefix
<1>4. CASE UpdateCheckpoint(s)
  <2>1. pc[s] = "checkpoint" /\ checkpoint'[s] = current[s]
    BY <1>4 DEF UpdateCheckpoint, NewCheckpoint, IInv, TypeOK
  <2>2. \A e \in EventsOf(Newly(s)) : e <= current[s] => e \in attempted
    BY <2>1 DEF IInv, LoopOK, TargetsOK
  <2>3. \A e \in EventsOf(Newly(s))' : e <= checkpoint'[s] => e \in attempted'
    BY <1>1, <1>2, <2>1, <2>2
  <2>. QED BY <1>1, <1>3, <2>3 DEF CheckpointCoversPrefix
<1>5. CASE DeleteCheckpoint(s)
  <2>1. checkpoint'[s] = NoCheckpoint \/ checkpoint'[s] = checkpoint[s]
    BY <1>5 DEF DeleteCheckpoint, IInv, TypeOK
  <2>. QED BY <1>1, <1>3, <2>1 DEF CheckpointCoversPrefix
<1>6. CASE ~UpdateCheckpoint(s) /\ ~DeleteCheckpoint(s)
  <2>1. checkpoint' = checkpoint
    BY <1>6 DEF StrategyStep, Begin, BeginFails, Fetch, FetchFails, Pop, Process, ProcessFails,
                UpdateCheckpointFails, Mark, tables
  <2>. QED BY <1>3, <2>1 DEF CheckpointCoversPrefix
<1>. QED BY <1>4, <1>5, <1>6

\* A contract that is marked has been caught up with.
LEMMA StepHandled ==
    ASSUME IInv, NEW s \in Ids, StrategyStep(s)
    PROVE  HandledCaughtUp'
<1>1. attempted \subseteq attempted'
  BY StepFrame DEF IInv
<1>2. CASE Mark(s)
  <2>1. PICK M \in SUBSET targets[s] :
           caughtUp' = [a \in Addresses |-> IF a \in M THEN last ELSE caughtUp[a]]
    BY <1>2 DEF Mark
  <2>2. \A e \in EventsOf(targets[s]) : e < last => e \in attempted
    BY <1>2 DEF Mark, IInv, LoopOK
  <2>3. ASSUME NEW a \in Addresses, NEW e \in EventsOf({a}), e < caughtUp'[a]
        PROVE  e \in attempted'
    <3>1. CASE a \in M
      BY <1>1, <2>1, <2>2, <2>3, <3>1 DEF EventsOf
    <3>2. CASE a \notin M
      BY <1>1, <2>1, <2>3, <3>2 DEF IInv, HandledCaughtUp
    <3>. QED BY <3>1, <3>2
  <2>. QED BY <2>3 DEF HandledCaughtUp
<1>3. CASE ~Mark(s)
  <2>1. caughtUp' = caughtUp
    BY <1>3 DEF StrategyStep, Begin, BeginFails, Fetch, FetchFails, Pop, Process, ProcessFails,
                UpdateCheckpoint, UpdateCheckpointFails, DeleteCheckpoint, history
  <2>. QED BY <1>1, <2>1 DEF IInv, HandledCaughtUp
<1>. QED BY <1>2, <1>3

\* An event is stored once by a run, and again only if it was exposed.
LEMMA StepApplied ==
    ASSUME IInv, NEW s \in Ids, StrategyStep(s)
    PROVE  AppliedOK'
<1>1. /\ run = "working" /\ run' = "working" /\ runs' = runs /\ runs \in Nat
      /\ exposed \subseteq exposed'
      /\ \A t \in Ids \ {s} : pc'[t] = pc[t] /\ current'[t] = current[t] /\ checkpoint'[t] = checkpoint[t]
  BY StepFrame DEF IInv, LiveOK, TypeOK
<1>2. /\ pc \in [Ids -> Labels] /\ current \in [Ids -> 0..Len(Log)]
      /\ checkpoint \in [Ids -> 0..NoCheckpoint] /\ retroApplied \in [Events -> Nat]
  BY DEF IInv, TypeOK
<1>3. \A a \in Addresses : registry[a] # "unhandled" => registry'[a] # "unhandled"
  BY StepNewly
<1>4. \A e \in Events : IdOfEvent(e) \in Ids /\ Log[e].addr \in Addresses /\ e \in Nat
  BY LogFacts
\* Of other ids
<1>5. ASSUME NEW e \in Events, IdOfEvent(e) # s
      PROVE  /\ StillToCome(e)' => StillToCome(e)
             /\ SafeFromRepeat(e) => SafeFromRepeat(e)'
  BY <1>1, <1>3, <1>4, <1>5 DEF StillToCome, SafeFromRepeat, IdOfEvent
\* Of this id, unless the step stores it
<1>6. ASSUME NEW e \in Events, IdOfEvent(e) = s
      PROVE  /\ StillToCome(e)' => StillToCome(e)
             /\ SafeFromRepeat(e) => SafeFromRepeat(e)'
  <2>. DEFINE p == pc[s]
              q == pc'[s]
              c == current[s]
              d == current'[s]
              k == checkpoint[s]
              l == checkpoint'[s]
  <2>1. /\ StillToCome(e) <=> \/ p = "begin"
                              \/ p \in {"fetch", "pop", "checkpoint"} /\ c < e
                              \/ p = "process" /\ c <= e
        /\ StillToCome(e)' <=> \/ q = "begin"
                               \/ q \in {"fetch", "pop", "checkpoint"} /\ d < e
                               \/ q = "process" /\ d <= e
    BY <1>1, <1>6 DEF StillToCome, IdOfEvent
  <2>2. /\ SafeFromRepeat(e) => \/ e \in exposed'
                                \/ p = "checkpoint" /\ c = e
                                \/ k # NoCheckpoint /\ e <= k
                                \/ registry'[Log[e].addr] # "unhandled"
        /\ SafeFromRepeat(e)' <=> \/ e \in exposed'
                                  \/ q = "checkpoint" /\ d = e
                                  \/ l # NoCheckpoint /\ e <= l
                                  \/ registry'[Log[e].addr] # "unhandled"
    BY <1>1, <1>3, <1>4, <1>6 DEF SafeFromRepeat, IdOfEvent
  <2>3. /\ c \in Nat /\ d \in Nat /\ c # NoCheckpoint /\ k \in Nat /\ e \in Nat /\ e # 0
        /\ k # NoCheckpoint => /\ p \in {"fetch", "pop", "checkpoint"} => k <= c
                               /\ p = "process" => k < c
    <3>1. current' \in [Ids -> 0..Len(Log)]
      BY StepTypes DEF IInv, TypeOK
    <3>2. c \in 0..Len(Log) /\ d \in 0..Len(Log) /\ k \in 0..NoCheckpoint /\ Len(Log) \in Nat /\ NoCheckpoint \in Nat
      BY <1>2, <3>1, LogFacts
    <3>3. c # NoCheckpoint /\ e \in Nat /\ e # 0
      BY <1>4, <3>2, LogFacts
    <3>4. BehindOK(s)
      BY DEF IInv
    <3>. QED BY <3>2, <3>3, <3>4 DEF BehindOK
  <2>4. CASE UpdateCheckpoint(s)
    <3>1. p = "checkpoint" /\ q = "fetch" /\ d = c /\ l = c
      BY <1>2, <2>4 DEF UpdateCheckpoint, GoTo, locals, NewCheckpoint
    <3>. HIDE DEF p, q, c, d, k, l
    <3>. QED BY <2>1, <2>2, <2>3, <3>1
  <2>5. CASE UpdateCheckpointFails(s)
    <3>1. p = "checkpoint" /\ q = "failed" /\ l = k /\ (c # 0 => c \in exposed')
      BY <1>2, <2>5 DEF UpdateCheckpointFails, GoTo, tables
    <3>. HIDE DEF p, q, c, d, k, l
    <3>. QED BY <2>1, <2>2, <2>3, <3>1
  <2>6. CASE DeleteCheckpoint(s)
    <3>1. p = "delete" /\ q \in {"done", "failed"} /\ Newly(s) = {} /\ registry' = registry
      BY <1>2, <2>6 DEF DeleteCheckpoint, GoTo, IInv, TargetsOK
    <3>2. registry'[Log[e].addr] # "unhandled"
      BY <1>4, <1>6, <3>1 DEF Newly, IdOfEvent
    <3>. HIDE DEF p, q, c, d, k, l
    <3>. QED BY <2>1, <2>2, <3>1, <3>2
  <2>7. CASE Pop(s)
    <3>1. /\ p = "pop" /\ l = k /\ c <= d /\ q \in {"mark", "process"}
          /\ q = "process" => c < d
      <4>1. p = "pop" /\ l = k
        BY <2>7 DEF Pop, tables
      <4>2. CASE queue[s] = <<>>
        BY <1>2, <2>3, <2>7, <4>1, <4>2 DEF Pop, GoTo
      <4>3. CASE queue[s] # <<>>
        <5>1. queue[s] \in Seq(Events)
          BY DEF IInv, TypeOK
        <5>2. Head(queue[s]) \in Events /\ 1 \in DOMAIN queue[s] /\ Head(queue[s]) = queue[s][1]
          BY <4>3, <5>1, PoppedFacts
        <5>3. c < Head(queue[s])
          BY <4>1, <5>2 DEF IInv, QueueOK
        <5>4. d = Head(queue[s]) /\ q \in {"mark", "process"}
          BY <1>2, <2>7, <4>3 DEF Pop, GoTo
        <5>. QED BY <2>3, <4>1, <5>3, <5>4
      <4>. QED BY <4>2, <4>3
    <3>. HIDE DEF p, q, c, d, k, l
    <3>. QED BY <2>1, <2>2, <2>3, <3>1
  <2>8. CASE Begin(s)
    <3>1. p = "begin" /\ q = "fetch" /\ l = k
      BY <1>2, <2>8 DEF Begin, GoTo, tables
    <3>. HIDE DEF p, q, c, d, k, l
    <3>. QED BY <2>1, <2>2, <3>1
  <2>9. CASE BeginFails(s) \/ Fetch(s) \/ FetchFails(s) \/ Process(s) \/ ProcessFails(s) \/ Mark(s)
    <3>1. /\ d = c /\ l = k
          /\ \/ p = "begin" /\ q = "failed"
             \/ p = "fetch" /\ q \in {"pop", "checkpoint"}
             \/ p = "process" /\ q = "checkpoint"
             \/ p = "mark" /\ q \in {"delete", "failed"}
      BY <1>2, <2>9 DEF BeginFails, Fetch, FetchFails, Process, ProcessFails, Mark, GoTo, tables, locals
    <3>. HIDE DEF p, q, c, d, k, l
    <3>. QED BY <2>1, <2>2, <2>3, <3>1
  <2>. QED BY <2>4, <2>5, <2>6, <2>7, <2>8, <2>9 DEF StrategyStep
<1>7. ASSUME ~Process(s)
      PROVE  AppliedOK'
  <2>1. retroApplied' = retroApplied
    BY <1>7 DEF StrategyStep, Begin, BeginFails, Fetch, FetchFails, Pop, ProcessFails,
                UpdateCheckpoint, UpdateCheckpointFails, Mark, DeleteCheckpoint, tables
  <2>2. ASSUME NEW e \in Events
        PROVE  /\ retroApplied'[e] <= runs'
               /\ StillToCome(e)' => retroApplied'[e] < runs'
               /\ retroApplied'[e] > 0 => SafeFromRepeat(e)'
               /\ retroApplied'[e] > 1 => e \in exposed'
    BY <1>1, <1>5, <1>6, <2>1 DEF IInv, AppliedOK
  <2>. QED BY <2>2 DEF AppliedOK
<1>8. CASE Process(s)
  <2>. DEFINE c == current[s]
  <2>1. /\ pc[s] = "process" /\ pc'[s] = "checkpoint" /\ current' = current
        /\ retroApplied' = [retroApplied EXCEPT ![c] = @ + 1]
    BY <1>2, <1>8 DEF Process, GoTo, locals
  <2>2. /\ c \in EventsOf(Newly(s)) /\ c \in Events /\ IdOfEvent(c) = s
        /\ registry[Log[c].addr] = "unhandled"
    <3>1. c \in EventsOf(Newly(s))
      BY <2>1 DEF IInv, LoopOK, TargetsOK
    <3>. QED BY <3>1, NewlyFacts
  <2>3. retroApplied[c] < runs
    BY <1>4, <2>1, <2>2 DEF IInv, AppliedOK, StillToCome
  <2>4. retroApplied[c] > 0 => c \in exposed
    <3>1. checkpoint[s] # NoCheckpoint => checkpoint[s] < c
      BY <2>1 DEF IInv, BehindOK
    <3>2. ~(checkpoint[s] # NoCheckpoint /\ c <= checkpoint[s])
      BY <1>2, <1>4, <2>2, <3>1, LogFacts
    <3>3. retroApplied[c] > 0 => SafeFromRepeat(c)
      BY <2>2 DEF IInv, AppliedOK
    <3>. QED BY <2>1, <2>2, <3>2, <3>3 DEF SafeFromRepeat
  <2>5. ASSUME NEW e \in Events \ {c}
        PROVE  /\ retroApplied'[e] <= runs'
               /\ StillToCome(e)' => retroApplied'[e] < runs'
               /\ retroApplied'[e] > 0 => SafeFromRepeat(e)'
               /\ retroApplied'[e] > 1 => e \in exposed'
    BY <1>1, <1>2, <1>5, <1>6, <2>1 DEF IInv, AppliedOK
  <2>6. ASSUME NEW e \in Events, e = c
        PROVE  /\ retroApplied'[e] <= runs'
               /\ ~StillToCome(e)'
               /\ SafeFromRepeat(e)'
               /\ retroApplied'[e] > 1 => e \in exposed'
    <3>1. retroApplied'[e] = retroApplied[e] + 1 /\ retroApplied[e] \in Nat
      BY <1>2, <2>1, <2>6
    <3>2. retroApplied'[e] > 1 => e \in exposed'
      BY <1>1, <2>4, <2>6, <3>1
    <3>3. retroApplied'[e] <= runs'
      BY <1>1, <2>3, <2>6, <3>1
    <3>4. IdOfEvent(e) = s /\ pc'[s] = "checkpoint" /\ current'[s] = e
      BY <2>1, <2>2, <2>6
    <3>5. SafeFromRepeat(e)'
      BY <3>4 DEF SafeFromRepeat, IdOfEvent
    <3>6. ~StillToCome(e)'
      BY <1>1, <1>4, <3>4 DEF StillToCome, IdOfEvent
    <3>. QED BY <3>2, <3>3, <3>5, <3>6
  <2>. QED BY <2>5, <2>6 DEF AppliedOK
<1>. QED BY <1>7, <1>8
-----------------------------------------------------------------------------
(* The steps of the live loop and of the process as a whole. *)

\* Before the first step nothing is stored.
LEMMA InitOK == Init => IInv
<1>. SUFFICES ASSUME Init PROVE IInv
  OBVIOUS
<1>1. TypeOK
  BY LogFacts, EmptySeq DEF Init, TypeOK, Labels
<1>2. LiveOK /\ TargetsOK
  BY DEF Init, LiveOK, TargetsOK
<1>3. ASSUME NEW s \in Ids PROVE LoopOK(s) /\ QueueOK(s) /\ BehindOK(s)
  BY DEF Init, LoopOK, QueueOK, BehindOK
<1>4. AppliedOK
  BY LogFacts DEF Init, AppliedOK, StillToCome, SafeFromRepeat
<1>5. CheckpointCoversPrefix
  BY DEF Init, CheckpointCoversPrefix
<1>6. HandledCaughtUp
  <2>1. \A a \in Addresses : caughtUp[a] = 0
    BY DEF Init
  <2>. QED BY <2>1, LogFacts DEF HandledCaughtUp
<1>. QED BY <1>1, <1>2, <1>3, <1>4, <1>5, <1>6 DEF IInv

\* With every id at rest, what is said of the loops is void.
LEMMA AtRest ==
    ASSUME NEW s \in Ids, pc[s] \in {"idle", "begin", "done", "failed"}
    PROVE  LoopOK(s) /\ QueueOK(s) /\ BehindOK(s)
BY DEF LoopOK, QueueOK, BehindOK

\* The live loop runs while the process does not: it only takes contracts
\* away from the next run, or comes before the first.
LEMMA LiveStepOK ==
    ASSUME IInv, LiveStep
    PROVE  IInv'
<1>1. /\ run = "off" /\ run' = run /\ runs' = runs /\ live' = live /\ pc' = pc
      /\ \A s \in Ids : pc[s] = "idle"
      /\ live \in {"old", "new"}
  BY DEF IInv, TypeOK, LiveOK, LiveStep, locals
<1>2. /\ checkpoint' = checkpoint /\ retroApplied' = retroApplied /\ last' = last /\ targets' = targets
      /\ current' = current /\ queue' = queue
      /\ attempted' = attempted /\ exposed' = exposed /\ caughtUp' = caughtUp
  BY DEF LiveStep, locals, history
<1>3. /\ pointer' \in 0..Len(Log)
      /\ registry' \in [Addresses -> {"absent", "handled", "unhandled"}]
  BY LogFacts DEF IInv, TypeOK, LiveStep
<1>4. TypeOK'
  BY <1>1, <1>2, <1>3 DEF IInv, TypeOK
<1>5. LiveOK' /\ TargetsOK'
  BY <1>1, <1>2 DEF IInv, LiveOK, TargetsOK
<1>6. \A s \in Ids : (LoopOK(s) /\ QueueOK(s) /\ BehindOK(s))'
  BY <1>1, AtRest DEF LoopOK, QueueOK, BehindOK
<1>7. live = "new" => \A a \in Addresses : registry'[a] = "unhandled" => registry[a] = "unhandled"
  BY DEF IInv, TypeOK, LiveStep, Handles
<1>8. AppliedOK'
  <2>1. ASSUME NEW e \in Events
        PROVE  IdOfEvent(e) \in Ids /\ Log[e].addr \in Addresses
    BY LogFacts
  <2>2. ASSUME NEW e \in Events PROVE ~StillToCome(e)'
    BY <1>1, <2>1 DEF StillToCome, IdOfEvent
  <2>3. ASSUME NEW e \in Events, retroApplied[e] > 0
        PROVE  live = "new" /\ SafeFromRepeat(e)
    BY <1>1, <2>3 DEF IInv, TypeOK, AppliedOK, LiveOK
  <2>4. ASSUME NEW e \in Events, retroApplied[e] > 0
        PROVE  SafeFromRepeat(e)'
    BY <1>1, <1>2, <1>7, <2>1, <2>3, <2>4 DEF SafeFromRepeat, IdOfEvent
  <2>. QED BY <1>1, <1>2, <2>2, <2>4 DEF IInv, AppliedOK
<1>9. CheckpointCoversPrefix'
  <2>1. ASSUME NEW s \in Ids, checkpoint[s] # NoCheckpoint
        PROVE  Newly(s)' \subseteq Newly(s)
    <3>1. live = "new"
      BY <1>1, <2>1 DEF IInv, LiveOK
    <3>. QED BY <1>7, <3>1 DEF Newly
  <2>. QED BY <1>2, <2>1 DEF IInv, CheckpointCoversPrefix, EventsOf
<1>10. HandledCaughtUp'
  BY <1>2 DEF IInv, HandledCaughtUp
<1>. QED BY <1>4, <1>5, <1>6, <1>8, <1>9, <1>10 DEF IInv

\* A build is deployed.
LEMMA DeployOK ==
    ASSUME ~Overlap, IInv, StopOld \/ StartNew
    PROVE  IInv'
<1>1. /\ UNCHANGED <<tables, run, pc, locals, runs, history>>
      /\ live' \in {"off", "new"}
      /\ run # "off" => live' = "off"
  BY DEF IInv, LiveOK, StopOld, StartNew
<1>2. /\ TypeOK' /\ LiveOK' /\ TargetsOK'
      /\ CheckpointCoversPrefix' /\ HandledCaughtUp'
  BY <1>1 DEF IInv, TypeOK, LiveOK, TargetsOK, CheckpointCoversPrefix, HandledCaughtUp, Newly, tables, locals, history
<1>3. AppliedOK'
  BY <1>1 DEF IInv, AppliedOK, SafeFromRepeat, StillToCome, IdOfEvent, tables, locals, history
<1>4. \A s \in Ids : (LoopOK(s) /\ QueueOK(s) /\ BehindOK(s))'
  BY <1>1 DEF IInv, LoopOK, QueueOK, BehindOK, tables, locals, history
<1>. QED BY <1>2, <1>3, <1>4 DEF IInv

\* A run finds its contracts: every event of theirs may be stored once more.
LEMMA FindOK ==
    ASSUME ~Overlap, IInv, FindStrategies
    PROVE  IInv'
<1>1. /\ UNCHANGED <<live, tables, pc, last, current, queue, history>>
      /\ live = "off" /\ run = "off" /\ run' \in {"off", "found"} /\ runs' = runs + 1 /\ runs \in Nat
      /\ targets' = [s \in Ids |-> Newly(s)]
      /\ \A s \in Ids : pc[s] = "idle"
  BY DEF IInv, TypeOK, LiveOK, FindStrategies
<1>2. TypeOK'
  <2>1. targets' \in [Ids -> SUBSET Addresses] /\ runs' \in Nat
    BY <1>1 DEF Newly
  <2>. QED BY <1>1, <2>1 DEF IInv, TypeOK, tables, history
<1>3. LiveOK' /\ TargetsOK'
  BY <1>1 DEF IInv, LiveOK, TargetsOK, Newly, tables
<1>4. \A s \in Ids : (LoopOK(s) /\ QueueOK(s) /\ BehindOK(s))'
  BY <1>1 DEF LoopOK, QueueOK, BehindOK
<1>5. AppliedOK'
  <2>1. ASSUME NEW e \in Events
        PROVE  /\ SafeFromRepeat(e) <=> SafeFromRepeat(e)'
               /\ retroApplied'[e] = retroApplied[e] /\ retroApplied[e] \in Nat
    BY <1>1 DEF IInv, TypeOK, SafeFromRepeat, IdOfEvent, tables, history
  <2>2. ASSUME NEW e \in Events
        PROVE  retroApplied[e] <= runs'  /\ retroApplied[e] < runs'
    BY <1>1, <2>1 DEF IInv, AppliedOK
  <2>. QED BY <1>1, <2>1, <2>2 DEF IInv, AppliedOK, history
<1>6. CheckpointCoversPrefix' /\ HandledCaughtUp'
  BY <1>1 DEF IInv, CheckpointCoversPrefix, HandledCaughtUp, Newly, tables, history
<1>. QED BY <1>2, <1>3, <1>4, <1>5, <1>6 DEF IInv

\* The pointer of the live loop, at rest, is the end of the run.
LEMMA ReadPointerOK ==
    ASSUME IInv, ReadPointer
    PROVE  IInv'
<1>1. /\ UNCHANGED <<live, tables, targets, current, queue, runs, history>>
      /\ run = "found" /\ run' = "working" /\ last' = pointer
      /\ pc' = [s \in Ids |-> IF targets[s] = {} THEN "idle" ELSE "begin"]
      /\ \A s \in Ids : pc[s] = "idle"
  BY DEF IInv, LiveOK, ReadPointer
<1>2. TypeOK'
  <2>1. pc' \in [Ids -> Labels]
    BY <1>1 DEF Labels
  <2>. QED BY <1>1, <2>1 DEF IInv, TypeOK, tables, history
<1>3. LiveOK' /\ TargetsOK'
  BY <1>1 DEF IInv, LiveOK, TargetsOK, Newly, tables
<1>4. \A s \in Ids : (LoopOK(s) /\ QueueOK(s) /\ BehindOK(s))'
  BY <1>1 DEF LoopOK, QueueOK, BehindOK
<1>5. AppliedOK'
  <2>1. ASSUME NEW e \in Events
        PROVE  (SafeFromRepeat(e) => SafeFromRepeat(e)') /\ StillToCome(e)
    <3>1. IdOfEvent(e) \in Ids
      BY LogFacts
    <3>. QED BY <1>1, <3>1 DEF SafeFromRepeat, StillToCome, IdOfEvent, tables, history
  <2>. QED BY <1>1, <2>1 DEF IInv, AppliedOK, tables, history
<1>6. CheckpointCoversPrefix' /\ HandledCaughtUp'
  BY <1>1 DEF IInv, CheckpointCoversPrefix, HandledCaughtUp, Newly, tables, history
<1>. QED BY <1>2, <1>3, <1>4, <1>5, <1>6 DEF IInv

\* The process ends or is killed: what it had in hand is exposed.
LEMMA StoppedOK ==
    ASSUME IInv, Finish \/ Crash
    PROVE  IInv'
<1>1. /\ UNCHANGED <<live, tables, runs, attempted, caughtUp>> /\ run # "off"
      /\ Stopped /\ exposed \subseteq exposed'
      /\ \A s \in Ids : pc[s] = "checkpoint" /\ current[s] # 0 => current[s] \in exposed'
  BY DEF Finish, Crash, history
<1>2. exposed' \subseteq Events
  <2>1. \A s \in Ids : current[s] # 0 => current[s] \in Events
    BY LogFacts DEF IInv, TypeOK
  <2>. QED BY <2>1 DEF IInv, TypeOK, Finish, Crash, history
<1>3. TypeOK'
  BY <1>1, <1>2, LogFacts, EmptySeq DEF IInv, TypeOK, Labels, Stopped, tables
<1>4. LiveOK' /\ TargetsOK'
  BY <1>1 DEF IInv, LiveOK, TargetsOK, Newly, Stopped, tables
<1>5. \A s \in Ids : (LoopOK(s) /\ QueueOK(s) /\ BehindOK(s))'
  BY <1>1 DEF LoopOK, QueueOK, BehindOK, Stopped
<1>6. AppliedOK'
  <2>1. ASSUME NEW e \in Events
        PROVE  (SafeFromRepeat(e) => SafeFromRepeat(e)') /\ ~StillToCome(e)'
    <3>1. IdOfEvent(e) \in Ids /\ e # 0
      BY LogFacts
    <3>. QED BY <1>1, <3>1 DEF SafeFromRepeat, StillToCome, IdOfEvent, Stopped, tables
  <2>. QED BY <1>1, <2>1 DEF IInv, AppliedOK, tables
<1>7. CheckpointCoversPrefix' /\ HandledCaughtUp'
  BY <1>1 DEF IInv, CheckpointCoversPrefix, HandledCaughtUp, Newly, tables
<1>. QED BY <1>3, <1>4, <1>5, <1>6, <1>7 DEF IInv
-----------------------------------------------------------------------------
(* The invariant, when the live loop and the process take turns. *)

\* Every step keeps the invariant.
LEMMA NextOK ==
    ASSUME ~Overlap, IInv, [Next]_vars
    PROVE  IInv'
<1>1. ASSUME NEW s \in Ids, StrategyStep(s)
      PROVE  IInv'
  <2>1. TypeOK' /\ LiveOK' /\ TargetsOK'
    BY <1>1, StepTypes, StepLive, StepTargets DEF IInv
  <2>2. \A t \in Ids : (LoopOK(t) /\ QueueOK(t) /\ BehindOK(t))'
    BY <1>1, StepLoop, OthersKeep
  <2>3. AppliedOK' /\ CheckpointCoversPrefix' /\ HandledCaughtUp'
    BY <1>1, StepApplied, StepCovers, StepHandled
  <2>. QED BY <2>1, <2>2, <2>3 DEF IInv
<1>2. CASE UNCHANGED vars
  <2>1. /\ TypeOK' /\ LiveOK' /\ TargetsOK'
        /\ CheckpointCoversPrefix' /\ HandledCaughtUp'
    BY <1>2 DEF IInv, TypeOK, LiveOK, TargetsOK, CheckpointCoversPrefix, HandledCaughtUp, Newly,
                vars, tables, locals, history
  <2>2. AppliedOK'
    BY <1>2 DEF IInv, AppliedOK, SafeFromRepeat, StillToCome, IdOfEvent, vars, tables, locals, history
  <2>3. \A s \in Ids : (LoopOK(s) /\ QueueOK(s) /\ BehindOK(s))'
    BY <1>2 DEF IInv, LoopOK, QueueOK, BehindOK, vars, tables, locals, history
  <2>. QED BY <2>1, <2>2, <2>3 DEF IInv
<1>. QED BY <1>1, <1>2, LiveStepOK, DeployOK, FindOK, ReadPointerOK, StoppedOK DEF Next

\* So it holds throughout.
LEMMA Inductive ==
    ASSUME ~Overlap
    PROVE  Spec => []IInv
<1>1. IInv /\ [Next]_vars => IInv'
  BY NextOK
<1>. QED BY <1>1, InitOK, PTL DEF Spec

\* While the live loop is down during a run, a contract that a run marks as
\* handled has had each of its events before the pointer handed to its handler,
\* for any log, any number of ids, contracts and runs, and wherever the runs of
\* processRetroactiveStrategies are killed or fail.
THEOREM CatchesUp ==
    ASSUME ~Overlap
    PROVE  Spec => []HandledCaughtUp
<1>1. IInv => HandledCaughtUp
  BY DEF IInv
<1>. QED BY <1>1, Inductive, PTL

\* Under the same condition, what upsertCheckpoint wrote for an id is never past
\* an event of a contract the next run would find and that no handler was given.
THEOREM ResumesFromCheckpoint ==
    ASSUME ~Overlap
    PROVE  Spec => []CheckpointCoversPrefix
<1>1. IInv => CheckpointCoversPrefix
  BY DEF IInv
<1>. QED BY <1>1, Inductive, PTL

\* Under the same condition, an event is stored once by a run, and once in all
\* unless a run lost it between storing it and upsertCheckpoint.
THEOREM RepeatsNothingElse ==
    ASSUME ~Overlap
    PROVE  Spec => []RepeatedOnlyIfExposed
<1>1. IInv => RepeatedOnlyIfExposed
  BY DEF IInv, AppliedOK, RepeatedOnlyIfExposed
<1>. QED BY <1>1, Inductive, PTL
=============================================================================
