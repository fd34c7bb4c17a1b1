------------------------- MODULE DeliveryWorkerProofs -------------------------
(***************************************************************************)
(* Proofs about DeliveryWorker, for any number of items, workers and        *)
(* crashes.                                                                *)
(*                                                                         *)
(* ToldOnce follows from who holds an item: between the claim and the       *)
(* outcome one worker does, and whatever may be sent again has so far only  *)
(* been sent by sends taken for failures.                                  *)
(*                                                                         *)
(* The bound of the attempts is an argument about stale lists.  A worker is *)
(* stale for an item if, by the attempts it saw, its claim will not be the  *)
(* last.  From the last attempt that is allowed but one, nobody becomes     *)
(* stale any more, whoever made that attempt is not, and every attempt that *)
(* is not the last uses up one who is.                                     *)
(***************************************************************************)
EXTENDS DeliveryWorker, FiniteSetTheorems, TLAPS

ItemRow == [status : {"pending", "retryable", "processing", "delivered", "failed"},
            attempts : Nat, later : BOOLEAN]

Holds(w, i) == worker[w].pc \in {"send", "delivered", "failed"} /\ worker[w].item = i
Stale(i) == {w \in Workers : i \in worker[w].list /\ worker[w].seen[i] + 1 < MaxAttempts}
\* The item is waiting, or its holder may put it back.
Returns(i) ==
    \/ item[i].status \in Waiting
    \/ \E w \in Workers : Holds(w, i) /\ worker[w].seen[i] < MaxAttempts

WorkerKnows(w) ==
    /\ worker[w].pc \in {"rest", "next", "send", "delivered", "failed"}
    /\ worker[w].list \subseteq Items
    /\ At(w, "rest") => worker[w].list = {}
    /\ worker[w].seen \in [Items -> Nat]
    /\ \A i \in Items : worker[w].seen[i] <= item[i].attempts
    /\ worker[w].pc \in {"send", "delivered", "failed"} => worker[w].item \in Items
    /\ \A i \in Items : Holds(w, i) => item[i].status = "processing"

HoldersExclude(w, v) == \A i \in Items : Holds(w, i) /\ Holds(v, i) => w = v

Unsent(i) ==
    item[i].status \in Waiting \/ (\E w \in Workers : Holds(w, i) /\ worker[w].pc \in {"send", "failed"})
        => sent[i] <= misjudged[i]

AttemptsBound(i) ==
    /\ item[i].attempts + 1 <= MaxAttempts + Cardinality(Workers)
    /\ Returns(i) /\ item[i].attempts + 1 >= MaxAttempts
          => item[i].attempts + Cardinality(Stale(i)) + 2 <= MaxAttempts + Cardinality(Workers)

WorkerInv ==
    /\ item \in [Items -> ItemRow]
    /\ sent \in [Items -> Nat] /\ misjudged \in [Items -> Nat]
    /\ worker = [w \in Workers |-> worker[w]]
    /\ \A w \in Workers : WorkerKnows(w)
    /\ \A w, v \in Workers : HoldersExclude(w, v)
    /\ \A i \in Items : Unsent(i) /\ AttemptsBound(i)
    /\ ToldOnce

-----------------------------------------------------------------------------
(* What one worker's step leaves of the others. *)

LEMMA WorkersMove ==
  ASSUME WorkerInv, NEW w \in Workers, NEW state, Becomes(w, state), WorkerKnows(w)',
         \A i \in Items : item[i].attempts <= item'[i].attempts /\ item'[i].attempts \in Nat,
         \A i \in Items : item'[i].status = item[i].status \/ item[i].status \in Waiting \/ Holds(w, i),
         \A i \in Items : Holds(w, i)' => Holds(w, i) \/ item[i].status \in Waiting
  PROVE  /\ worker' = [v \in Workers |-> worker'[v]] /\ worker'[w] = state
         /\ \A v \in Workers \ {w} : worker'[v] = worker[v]
         /\ \A v \in Workers : WorkerKnows(v)'
         /\ \A u, v \in Workers : HoldersExclude(u, v)'
<1>1. /\ worker' = [v \in Workers |-> worker'[v]] /\ worker'[w] = state
      /\ \A v \in Workers \ {w} : worker'[v] = worker[v]
  BY DEF WorkerInv, Becomes
<1>2. \A v \in Workers : WorkerKnows(v)
  BY DEF WorkerInv
<1>3. \A v \in Workers, i \in Items : Holds(v, i) => item[i].status = "processing"
  BY <1>2 DEF WorkerKnows
<1>4. \A v \in Workers, i \in Items : Holds(v, i) /\ Holds(w, i) => v = w
  BY DEF WorkerInv, HoldersExclude
<1>5. \A v \in Workers \ {w}, i \in Items : Holds(v, i)' <=> Holds(v, i)
  BY <1>1 DEF Holds
<1>6. ASSUME NEW v \in Workers \ {w} PROVE WorkerKnows(v)'
  <2>1. \A i \in Items : worker[v].seen[i] <= item'[i].attempts
    <3>1. \A i \in Items : worker[v].seen[i] \in Nat /\ item[i].attempts \in Nat /\ worker[v].seen[i] <= item[i].attempts
      BY <1>2 DEF WorkerKnows, WorkerInv, ItemRow
    <3> QED
      BY <3>1
  <2>2. \A i \in Items : Holds(v, i)' => item'[i].status = "processing"
    BY <1>3, <1>4, <1>5 DEF Waiting
  <2> QED
    BY <1>1, <1>2, <2>1, <2>2 DEF WorkerKnows, At
<1>7. ASSUME NEW u \in Workers, NEW v \in Workers, NEW i \in Items, Holds(u, i)', Holds(v, i)' PROVE u = v
  <2>1. CASE u # w /\ v # w
    BY <1>5, <1>7, <2>1 DEF WorkerInv, HoldersExclude
  <2>2. ASSUME NEW x \in Workers \ {w}, Holds(x, i), Holds(w, i)' PROVE FALSE
    BY <1>3, <1>4, <2>2 DEF Waiting
  <2> QED
    BY <1>5, <1>7, <2>1, <2>2
<1> QED
  BY <1>1, <1>6, <1>7 DEF HoldersExclude

LEMMA WorkersCount ==
  ASSUME NEW i \in Items
  PROVE  /\ IsFiniteSet(Workers) /\ Cardinality(Workers) \in Nat
         /\ Stale(i) \subseteq Workers /\ IsFiniteSet(Stale(i)) /\ Cardinality(Stale(i)) \in Nat
<1>1. IsFiniteSet(Workers)
  BY WorkerAssumption
<1>2. Stale(i) \subseteq Workers
  BY DEF Stale
<1> HIDE DEF Stale
<1> QED
  BY <1>1, <1>2, FS_Subset, FS_CardinalityType

\* The bound stays while no attempt is made and nobody becomes stale.
LEMMA AttemptsKept ==
  ASSUME WorkerInv, NEW i \in Items,
         item'[i].attempts = item[i].attempts,
         Returns(i)' => Returns(i),
         item[i].attempts + 1 >= MaxAttempts => Stale(i)' \subseteq Stale(i)
  PROVE  AttemptsBound(i)'
<1>1. AttemptsBound(i) /\ item[i].attempts \in Nat /\ MaxAttempts \in Nat
  BY WorkerAssumption DEF WorkerInv, ItemRow
<1>2. CASE Returns(i)' /\ item[i].attempts + 1 >= MaxAttempts
  <2>1. item[i].attempts + Cardinality(Stale(i)) + 2 <= MaxAttempts + Cardinality(Workers)
    BY <1>1, <1>2 DEF AttemptsBound
  <2>2. Cardinality(Stale(i)') <= Cardinality(Stale(i)) /\ IsFiniteSet(Stale(i)')
    <3> HIDE DEF Stale
    <3> QED
      BY <1>2, WorkersCount, FS_Subset
  <2>3. Cardinality(Stale(i)') \in Nat
    <3> HIDE DEF Stale
    <3> QED
      BY <2>2, FS_CardinalityType
  <2> QED
    BY <1>1, <2>1, <2>2, <2>3, WorkersCount DEF AttemptsBound
<1> QED
  BY <1>1, <1>2 DEF AttemptsBound

\* Others that are not at this item keep it from being neither more nor less
\* stale.
LEMMA StaleMoves ==
  ASSUME WorkerInv, NEW w \in Workers, \A v \in Workers \ {w} : worker'[v] = worker[v], NEW i \in Items,
         \/ i \notin worker'[w].list
         \/ i \in worker[w].list /\ worker'[w].seen[i] = worker[w].seen[i]
         \/ ~(worker'[w].seen[i] + 1 < MaxAttempts)
  PROVE  Stale(i)' \subseteq Stale(i)
BY DEF Stale

\* A step that makes no attempt.
LEMMA WorkersStep ==
  ASSUME WorkerInv, NEW w \in Workers, NEW state, Becomes(w, state), WorkerKnows(w)',
         item' \in [Items -> ItemRow], sent' \in [Items -> Nat], misjudged' \in [Items -> Nat],
         \A i \in Items : item'[i].attempts = item[i].attempts,
         \A i \in Items : item'[i].status = item[i].status \/ Holds(w, i),
         \A i \in Items : Holds(w, i)' => Holds(w, i),
         \A i \in Items : Holds(w, i)' => state.seen[i] = worker[w].seen[i],
         \A i \in Items : item'[i].status \in Waiting => item[i].status \in Waiting \/ worker[w].seen[i] < MaxAttempts,
         \A i \in Items : \/ i \notin state.list
                          \/ i \in worker[w].list /\ state.seen[i] = worker[w].seen[i]
                          \/ state.seen[i] = item[i].attempts,
         \A i \in Items : Unsent(i)', ToldOnce'
  PROVE  WorkerInv'
<1>1. /\ worker' = [v \in Workers |-> worker'[v]] /\ worker'[w] = state
      /\ \A v \in Workers \ {w} : worker'[v] = worker[v]
      /\ \A v \in Workers : WorkerKnows(v)'
      /\ \A u, v \in Workers : HoldersExclude(u, v)'
  <2>1. \A i \in Items : item[i].attempts <= item'[i].attempts /\ item'[i].attempts \in Nat
    BY DEF WorkerInv, ItemRow
  <2> QED
    BY <2>1, WorkersMove
<1>2. ASSUME NEW i \in Items PROVE AttemptsBound(i)'
  <2>1. Returns(i)' => Returns(i)
    <3>1. CASE item'[i].status \in Waiting
      BY <3>1 DEF Returns
    <3>2. ASSUME NEW v \in Workers, Holds(v, i)', worker'[v].seen[i] < MaxAttempts PROVE Returns(i)
      <4>1. Holds(v, i) /\ worker[v].seen[i] < MaxAttempts
        BY <1>1, <3>2 DEF Holds
      <4> QED
        BY <4>1 DEF Returns
    <3> QED
      BY <3>1, <3>2 DEF Returns
  <2>2. item[i].attempts + 1 >= MaxAttempts => Stale(i)' \subseteq Stale(i)
    <3>1. item[i].attempts \in Nat /\ MaxAttempts \in Nat
      BY WorkerAssumption DEF WorkerInv, ItemRow
    <3> QED
      BY <1>1, <3>1, StaleMoves
  <2> QED
    BY <2>1, <2>2, AttemptsKept
<1> QED
  BY <1>1, <1>2 DEF WorkerInv

-----------------------------------------------------------------------------
(* The steps. *)

LEMMA ListingSteps ==
  ASSUME WorkerInv, NEW w \in Workers,
         \/ ListDue(w) \/ Finish(w) \/ Crash(w)
         \/ \E i \in Items : Claim(w, i) /\ ~Claimable(i)
  PROVE  WorkerInv'
<1>1. WorkerKnows(w) /\ item \in [Items -> ItemRow] /\ \A i \in Items : item[i].attempts \in Nat
  BY DEF WorkerInv, ItemRow
<1>2. ASSUME NEW state, Becomes(w, state), UNCHANGED <<item, sent, misjudged>>,
             state.pc \in {"rest", "next"}, state.list \subseteq Items, state.pc = "rest" => state.list = {},
             state.seen \in [Items -> Nat], \A i \in Items : state.seen[i] <= item[i].attempts,
             \A i \in Items : \/ i \notin state.list
                              \/ i \in worker[w].list /\ state.seen[i] = worker[w].seen[i]
                              \/ state.seen[i] = item[i].attempts
      PROVE  WorkerInv'
  <2>1. worker'[w] = state /\ \A v \in Workers \ {w} : worker'[v] = worker[v]
    BY <1>2 DEF WorkerInv, Becomes
  <2>2. \A i \in Items : ~Holds(w, i)'
    BY <1>2, <2>1 DEF Holds
  <2>3. WorkerKnows(w)'
    BY <1>2, <2>1, <2>2 DEF WorkerKnows, At
  <2>4. \A i \in Items : Unsent(i)'
    <3> SUFFICES ASSUME NEW i \in Items PROVE Unsent(i)'
      OBVIOUS
    <3>1. Unsent(i)
      BY DEF WorkerInv
    <3>2. \A v \in Workers : Holds(v, i)' => v # w /\ Holds(v, i) /\ worker'[v] = worker[v]
      BY <2>1, <2>2 DEF Holds
    <3> QED
      BY <1>2, <3>1, <3>2 DEF Unsent
  <2>5. ToldOnce' /\ sent' \in [Items -> Nat] /\ misjudged' \in [Items -> Nat] /\ item' \in [Items -> ItemRow]
    BY <1>2 DEF WorkerInv, ToldOnce
  <2> QED
    BY <1>2, <2>2, <2>3, <2>4, <2>5, WorkersStep
<1>3. CASE ListDue(w)
  <2>1. Due \subseteq Items /\ [i \in Items |-> item[i].attempts] \in [Items -> Nat]
    BY <1>1 DEF Due
  <2> QED
    BY <1>1, <1>2, <1>3, <2>1 DEF ListDue
<1>4. CASE Finish(w) \/ Crash(w)
  <2>1. Resting.list = {} /\ Resting.pc = "rest" /\ Resting.seen \in [Items -> Nat] /\ \A i \in Items : Resting.seen[i] = 0
    BY DEF Resting
  <2>2. Becomes(w, Resting) /\ UNCHANGED <<item, sent, misjudged>>
    BY <1>4 DEF Finish, Crash
  <2> HIDE DEF Resting
  <2> QED
    BY <1>1, <1>2, <2>1, <2>2
<1>5. ASSUME NEW i \in Items, Claim(w, i), ~Claimable(i) PROVE WorkerInv'
  BY <1>1, <1>2, <1>5 DEF Claim, WorkerKnows
<1> QED
  BY <1>3, <1>4, <1>5

\* A claim makes the attempt that its own worker counts.
LEMMA Claims ==
  ASSUME WorkerInv, NEW w \in Workers, NEW i \in Items, Claim(w, i), Claimable(i)
  PROVE  WorkerInv'
<1> DEFINE a == item[i].attempts  seen == worker[w].seen
           state == [pc |-> "send", list |-> worker[w].list \ {i}, seen |-> [seen EXCEPT ![i] = @ + 1], item |-> i]
<1>1. /\ WorkerKnows(w) /\ item \in [Items -> ItemRow] /\ a \in Nat
      /\ Unsent(i) /\ AttemptsBound(i)
  BY DEF WorkerInv, ItemRow
<1>2. /\ worker[w].pc = "next" /\ i \in worker[w].list /\ item[i].status \in Waiting
      /\ item' = [item EXCEPT ![i].status = "processing", ![i].attempts = a + 1]
      /\ Becomes(w, state)
      /\ UNCHANGED <<sent, misjudged>>
  BY DEF Claim, Claimable, At
<1>3. /\ state.pc = "send" /\ state.list = worker[w].list \ {i} /\ state.item = i
      /\ state.seen = [seen EXCEPT ![i] = @ + 1]
  OBVIOUS
<1>4. /\ seen \in [Items -> Nat] /\ seen[i] \in Nat /\ seen[i] <= a /\ \A j \in Items : seen[j] <= item[j].attempts
  BY <1>1 DEF WorkerKnows
<1> HIDE DEF state, seen
<1>5. /\ item' \in [Items -> ItemRow] /\ item'[i].status = "processing" /\ item'[i].attempts = a + 1
      /\ \A j \in Items \ {i} : item'[j] = item[j]
  BY <1>1, <1>2 DEF ItemRow
<1>6. worker'[w] = state /\ \A v \in Workers \ {w} : worker'[v] = worker[v]
  BY <1>2 DEF WorkerInv, Becomes
<1>7. /\ state.seen \in [Items -> Nat] /\ state.seen[i] = seen[i] + 1
      /\ \A j \in Items \ {i} : state.seen[j] = seen[j]
  BY <1>3, <1>4
<1>8. \A j \in Items : Holds(w, j)' <=> j = i
  BY <1>3, <1>6 DEF Holds
<1>9. \A v \in Workers : ~Holds(v, i)
  BY <1>2 DEF WorkerInv, WorkerKnows, Waiting
<1>10. WorkerKnows(w)'
  <2>1. \A j \in Items : state.seen[j] <= item'[j].attempts
    <3>1. state.seen[i] <= item'[i].attempts
      BY <1>1, <1>4, <1>5, <1>7
    <3>2. \A j \in Items \ {i} : state.seen[j] <= item'[j].attempts
      BY <1>4, <1>5, <1>7
    <3> QED
      BY <3>1, <3>2
  <2> QED
    BY <1>1, <1>3, <1>5, <1>6, <1>7, <1>8, <2>1 DEF WorkerKnows, At
<1>11. /\ worker' = [v \in Workers |-> worker'[v]]
       /\ \A v \in Workers : WorkerKnows(v)'
       /\ \A u, v \in Workers : HoldersExclude(u, v)'
  <2>1. \A j \in Items : item[j].attempts <= item'[j].attempts /\ item'[j].attempts \in Nat
    BY <1>1, <1>5 DEF ItemRow
  <2>2. \A j \in Items : item'[j].status = item[j].status \/ item[j].status \in Waiting \/ Holds(w, j)
    BY <1>2, <1>5
  <2>3. \A j \in Items : Holds(w, j)' => Holds(w, j) \/ item[j].status \in Waiting
    BY <1>2, <1>8
  <2> QED
    BY <1>2, <1>10, <2>1, <2>2, <2>3, WorkersMove
<1>12. ASSUME NEW j \in Items PROVE Unsent(j)'
  <2>1. Unsent(j)
    BY DEF WorkerInv
  <2>2. CASE j = i
    BY <1>1, <1>2, <2>2 DEF Unsent
  <2>3. CASE j # i
    <3>1. \A v \in Workers : Holds(v, j)' => Holds(v, j) /\ worker'[v] = worker[v]
      BY <1>6, <1>8, <2>3 DEF Holds
    <3> QED
      BY <1>2, <1>5, <2>1, <2>3, <3>1 DEF Unsent
  <2> QED
    BY <2>2, <2>3
<1>13. ASSUME NEW j \in Items \ {i} PROVE AttemptsBound(j)'
  <2>1. Returns(j)' => Returns(j)
    <3>1. \A v \in Workers : Holds(v, j)' => Holds(v, j) /\ worker'[v] = worker[v]
      BY <1>6, <1>8 DEF Holds
    <3> QED
      BY <1>5, <3>1 DEF Returns
  <2>2. Stale(j)' \subseteq Stale(j)
    BY <1>3, <1>6, <1>7, StaleMoves DEF seen
  <2> QED
    BY <1>5, <2>1, <2>2, AttemptsKept
<1>14. AttemptsBound(i)'
  <2>1. Returns(i) /\ MaxAttempts \in Nat
    BY <1>2, WorkerAssumption DEF Returns
  <2>2. /\ IsFiniteSet(Workers) /\ Cardinality(Workers) \in Nat
        /\ Stale(i) \subseteq Workers /\ IsFiniteSet(Stale(i)) /\ Cardinality(Stale(i)) \in Nat
    BY WorkersCount
  <2>3. a + 1 >= MaxAttempts => a + Cardinality(Stale(i)) + 2 <= MaxAttempts + Cardinality(Workers)
    BY <1>1, <2>1 DEF AttemptsBound
  <2>4. item'[i].attempts + 1 <= MaxAttempts + Cardinality(Workers)
    BY <1>1, <1>5, <2>1, <2>2, <2>3
  <2>5. ASSUME Returns(i)', a + 2 >= MaxAttempts
        PROVE  a + 1 + Cardinality(Stale(i)') + 2 <= MaxAttempts + Cardinality(Workers)
    <3>1. seen[i] + 1 < MaxAttempts
      <4>1. item'[i].status \notin Waiting
        BY <1>5 DEF Waiting
      <4>2. PICK v \in Workers : Holds(v, i)' /\ worker'[v].seen[i] < MaxAttempts
        BY <2>5, <4>1 DEF Returns
      <4>3. v = w
        BY <1>8, <1>11, <4>2 DEF HoldersExclude
      <4> QED
        BY <1>6, <1>7, <4>2, <4>3
    <3>2. w \in Stale(i)
      BY <1>2, <3>1 DEF Stale, seen
    <3>3. Stale(i)' \subseteq Stale(i) \ {w}
      BY <1>3, <1>6 DEF Stale
    <3>4. Cardinality(Stale(i)') \in Nat /\ Cardinality(Stale(i)') <= Cardinality(Stale(i)) - 1
      <4> HIDE DEF Stale
      <4>1. IsFiniteSet(Stale(i) \ {w}) /\ Cardinality(Stale(i) \ {w}) = Cardinality(Stale(i)) - 1
        BY <2>2, <3>2, FS_RemoveElement
      <4> QED
        BY <3>3, <4>1, FS_Subset, FS_CardinalityType
    <3>5. Cardinality(Stale(i)) <= Cardinality(Workers)
      <4> HIDE DEF Stale
      <4> QED
        BY <2>2, FS_Subset
    <3> HIDE DEF Stale
    <3> QED
      BY <1>1, <2>1, <2>2, <2>3, <2>5, <3>4, <3>5
  <2> QED
    BY <1>1, <1>5, <2>1, <2>4, <2>5 DEF AttemptsBound
<1> QED
  BY <1>2, <1>5, <1>11, <1>12, <1>13, <1>14 DEF WorkerInv, ToldOnce

\* A send, or its omission, of the item its worker holds.
LEMMA Sends ==
  ASSUME WorkerInv, NEW w \in Workers,
         \/ \E arrives, raises \in BOOLEAN : Send(w, arrives, raises)
         \/ Mute(w)
  PROVE  WorkerInv'
<1>1. PICK i \in Items : i = worker[w].item /\ worker[w].pc = "send"
  BY DEF WorkerInv, WorkerKnows, Send, Mute, At
<1>2. WorkerKnows(w) /\ Holds(w, i) /\ Unsent(i) /\ sent[i] \in Nat /\ misjudged[i] \in Nat
  BY <1>1 DEF WorkerInv, Holds
<1>3. /\ sent[i] <= misjudged[i]
      /\ \A v \in Workers : Holds(v, i) => v = w
  BY <1>1, <1>2 DEF Unsent, WorkerInv, HoldersExclude
<1>4. ASSUME NEW pc \in {"failed", "delivered"}, Becomes(w, [worker[w] EXCEPT !.pc = pc]), UNCHANGED item,
             sent' = sent \/ sent' = [sent EXCEPT ![i] = @ + 1],
             misjudged' = misjudged \/ misjudged' = [misjudged EXCEPT ![i] = @ + 1],
             sent'[i] <= misjudged'[i] \/ (pc = "delivered" /\ sent'[i] <= 1 + misjudged'[i])
      PROVE  WorkerInv'
  <2> DEFINE state == [worker[w] EXCEPT !.pc = pc]
  <2>1. Becomes(w, state) /\ state.pc = pc /\ state.list = worker[w].list /\ state.seen = worker[w].seen /\ state.item = i
    BY <1>1, <1>4
  <2> HIDE DEF state
  <2>2. worker'[w] = state /\ \A v \in Workers \ {w} : worker'[v] = worker[v]
    BY <2>1 DEF WorkerInv, Becomes
  <2>3. \A j \in Items : Holds(w, j)' <=> j = i
    BY <1>4, <2>1, <2>2 DEF Holds
  <2>4. item[i].status = "processing"
    BY <1>2 DEF WorkerKnows
  <2>5. WorkerKnows(w)'
    BY <1>2, <1>4, <2>1, <2>2, <2>3, <2>4 DEF WorkerKnows, At
  <2>6. /\ sent' \in [Items -> Nat] /\ misjudged' \in [Items -> Nat] /\ item' \in [Items -> ItemRow]
        /\ \A j \in Items \ {i} : sent'[j] = sent[j] /\ misjudged'[j] = misjudged[j]
    BY <1>2, <1>4 DEF WorkerInv
  <2>7. ToldOnce'
    BY <1>4, <2>6 DEF WorkerInv, ToldOnce
  <2>8. ASSUME NEW j \in Items PROVE Unsent(j)'
    <3>1. CASE j = i
      <4>1. item'[i].status \notin Waiting
        BY <1>4, <2>4 DEF Waiting
      <4>2. \A v \in Workers : Holds(v, i)' => v = w
        BY <1>3, <2>2 DEF Holds
      <4> QED
        BY <1>4, <2>1, <2>2, <3>1, <4>1, <4>2 DEF Unsent
    <3>2. CASE j # i
      <4>1. \A v \in Workers : Holds(v, j)' => Holds(v, j) /\ worker'[v] = worker[v]
        BY <2>2, <2>3, <3>2 DEF Holds
      <4> QED
        BY <1>4, <2>6, <3>2, <4>1 DEF WorkerInv, Unsent
    <3> QED
      BY <3>1, <3>2
  <2> QED
    BY <1>2, <1>4, <2>1, <2>3, <2>5, <2>6, <2>7, <2>8, WorkersStep DEF WorkerKnows
<1>5. CASE Mute(w)
  <2>1. sent'[i] <= misjudged'[i]
    BY <1>3, <1>5 DEF Mute
  <2> QED
    BY <1>4, <1>5, <2>1 DEF Mute
<1>6. ASSUME NEW arrives \in BOOLEAN, NEW raises \in BOOLEAN, Send(w, arrives, raises) PROVE WorkerInv'
  <2>1. /\ sent' = (IF arrives THEN [sent EXCEPT ![i] = @ + 1] ELSE sent)
        /\ misjudged' = (IF arrives /\ raises THEN [misjudged EXCEPT ![i] = @ + 1] ELSE misjudged)
        /\ Becomes(w, [worker[w] EXCEPT !.pc = IF raises THEN "failed" ELSE "delivered"])
        /\ UNCHANGED item /\ (arrives \/ raises)
    BY <1>1, <1>6 DEF Send
  <2>2. sent \in [Items -> Nat] /\ misjudged \in [Items -> Nat]
    BY DEF WorkerInv
  <2>3. sent'[i] <= misjudged'[i] \/ (~raises /\ sent'[i] <= 1 + misjudged'[i])
    BY <1>2, <1>3, <2>1, <2>2
  <2>4. sent' = sent \/ sent' = [sent EXCEPT ![i] = @ + 1]
    BY <2>1
  <2>5. misjudged' = misjudged \/ misjudged' = [misjudged EXCEPT ![i] = @ + 1]
    BY <2>1
  <2>6. CASE raises
    BY <1>4, <2>1, <2>3, <2>4, <2>5, <2>6
  <2>7. CASE ~raises
    BY <1>4, <2>1, <2>3, <2>4, <2>5, <2>7
  <2> QED
    BY <2>6, <2>7
<1> QED
  BY <1>5, <1>6

\* What is put back was not the last attempt, and was not sent by this one.
LEMMA Records ==
  ASSUME WorkerInv, NEW w \in Workers, Record(w)
  PROVE  WorkerInv'
<1>1. PICK i \in Items : i = worker[w].item /\ worker[w].pc \in {"delivered", "failed"}
  BY DEF WorkerInv, WorkerKnows, Record
<1> DEFINE state == [pc |-> "next", list |-> worker[w].list, seen |-> worker[w].seen]
<1>2. /\ WorkerKnows(w) /\ Holds(w, i) /\ item \in [Items -> ItemRow] /\ item[i] \in ItemRow
      /\ worker[w].seen[i] \in Nat /\ MaxAttempts \in Nat
  BY <1>1, WorkerAssumption DEF WorkerInv, Holds, WorkerKnows
<1>3. item' = [item EXCEPT ![i] = Outcome(w)] /\ Becomes(w, state) /\ UNCHANGED <<sent, misjudged>>
  BY <1>1 DEF Record
<1>4. /\ Outcome(w) \in ItemRow /\ Outcome(w).attempts = item[i].attempts
      /\ Outcome(w).status \in Waiting => worker[w].pc = "failed" /\ worker[w].seen[i] < MaxAttempts
  <2> DEFINE Put(status, later) == [item[i] EXCEPT !.status = status, !.later = later]
  <2>1. ASSUME NEW status \in {"delivered", "failed", "retryable"}, NEW later \in BOOLEAN
        PROVE  /\ Put(status, later) \in ItemRow
               /\ Put(status, later).attempts = item[i].attempts
               /\ Put(status, later).status = status
    BY <1>2 DEF ItemRow
  <2>2. CASE worker[w].pc = "delivered"
    <3>1. Outcome(w) = [item[i] EXCEPT !.status = "delivered"]
      BY <1>1, <2>2 DEF Outcome, At
    <3> QED
      BY <1>2, <3>1 DEF ItemRow, Waiting
  <2>3. CASE worker[w].pc = "failed"
    <3>1. Outcome(w) = [item[i] EXCEPT !.status = IF Terminal(w) THEN "failed" ELSE "retryable", !.later = ~Terminal(w)]
      BY <1>1, <2>3 DEF Outcome, At
    <3>2. Terminal(w) <=> ~(worker[w].seen[i] < MaxAttempts)
      BY <1>1, <1>2 DEF Terminal
    <3>3. CASE Terminal(w)
      <4>1. Outcome(w) = Put("failed", FALSE)
        BY <3>1, <3>3
      <4> HIDE DEF Put
      <4> QED
        BY <2>1, <4>1 DEF Waiting
    <3>4. CASE ~Terminal(w)
      <4>1. Outcome(w) = Put("retryable", TRUE)
        BY <3>1, <3>4
      <4> HIDE DEF Put
      <4> QED
        BY <2>1, <2>3, <3>2, <3>4, <4>1
    <3> QED
      BY <3>3, <3>4
  <2> QED
    BY <1>1, <2>2, <2>3
<1>5. /\ item' \in [Items -> ItemRow] /\ item'[i] = Outcome(w) /\ \A j \in Items \ {i} : item'[j] = item[j]
  BY <1>2, <1>3, <1>4
<1>6. state.pc = "next" /\ state.list = worker[w].list /\ state.seen = worker[w].seen
  OBVIOUS
<1> HIDE DEF state
<1>7. worker'[w] = state /\ \A v \in Workers \ {w} : worker'[v] = worker[v]
  BY <1>3 DEF WorkerInv, Becomes
<1>8. \A j \in Items : ~Holds(w, j)' /\ item'[j].attempts = item[j].attempts
  BY <1>4, <1>5, <1>6, <1>7 DEF Holds
<1>9. WorkerKnows(w)'
  BY <1>2, <1>6, <1>7, <1>8 DEF WorkerKnows, At
<1>10. \A v \in Workers : Holds(v, i) => v = w
  BY <1>2 DEF WorkerInv, HoldersExclude
<1>11. ASSUME NEW j \in Items PROVE Unsent(j)'
  <2>1. Unsent(j) /\ Unsent(i)
    BY DEF WorkerInv
  <2>2. \A v \in Workers : Holds(v, j)' => v # w /\ Holds(v, j) /\ worker'[v] = worker[v]
    BY <1>7, <1>8 DEF Holds
  <2>3. CASE j # i
    BY <1>3, <1>5, <2>1, <2>2, <2>3 DEF Unsent
  <2>4. CASE j = i
    BY <1>1, <1>2, <1>3, <1>4, <1>5, <1>10, <2>1, <2>2, <2>4 DEF Unsent
  <2> QED
    BY <2>3, <2>4
<1>12. ToldOnce' /\ sent' \in [Items -> Nat] /\ misjudged' \in [Items -> Nat]
  BY <1>3 DEF WorkerInv, ToldOnce
<1>13. /\ \A j \in Items : item'[j].status = item[j].status \/ Holds(w, j)
       /\ \A j \in Items : item'[j].status \in Waiting => item[j].status \in Waiting \/ worker[w].seen[j] < MaxAttempts
  BY <1>2, <1>4, <1>5
<1>14. \A j \in Items : j \notin state.list \/ (j \in worker[w].list /\ state.seen[j] = worker[w].seen[j])
  BY <1>6
<1> QED
  BY <1>3, <1>5, <1>8, <1>9, <1>11, <1>12, <1>13, <1>14, WorkersStep

LEMMA TimePassing ==
  ASSUME WorkerInv, NEW i \in Items, BackoffEnds(i)
  PROVE  WorkerInv'
<1>1. /\ item' = [item EXCEPT ![i].later = FALSE] /\ UNCHANGED <<sent, worker, misjudged>>
      /\ item \in [Items -> ItemRow]
  BY DEF BackoffEnds, WorkerInv
<1>2. /\ item' \in [Items -> ItemRow]
      /\ \A j \in Items : item'[j].attempts = item[j].attempts /\ item'[j].status = item[j].status
  BY <1>1 DEF ItemRow
<1>3. \A w \in Workers : WorkerKnows(w)'
  BY <1>1, <1>2 DEF WorkerInv, WorkerKnows, At, Holds
<1>4. (\A w, v \in Workers : HoldersExclude(w, v)') /\ ToldOnce' /\ \A j \in Items : Unsent(j)'
  BY <1>1, <1>2 DEF WorkerInv, HoldersExclude, Holds, ToldOnce, Unsent
<1>5. ASSUME NEW j \in Items PROVE AttemptsBound(j)'
  <2>1. Returns(j)' => Returns(j)
    BY <1>1, <1>2 DEF Returns, Holds
  <2>2. Stale(j)' \subseteq Stale(j)
    BY <1>1 DEF Stale
  <2> QED
    BY <1>2, <2>1, <2>2, AttemptsKept
<1> QED
  BY <1>1, <1>2, <1>3, <1>4, <1>5 DEF WorkerInv

LEMMA WorkerStart == Init => WorkerInv
<1> SUFFICES ASSUME Init PROVE WorkerInv
  OBVIOUS
<1>1. /\ \A w \in Workers : worker[w] = Resting
      /\ \A i \in Items : item[i].status = "pending" /\ item[i].attempts = 0 /\ sent[i] = 0 /\ misjudged[i] = 0
      /\ item \in [Items -> ItemRow] /\ sent \in [Items -> Nat] /\ misjudged \in [Items -> Nat]
      /\ worker = [w \in Workers |-> worker[w]]
  BY DEF Init, ItemRow
<1>2. Resting.pc = "rest" /\ Resting.list = {} /\ Resting.seen \in [Items -> Nat] /\ \A i \in Items : Resting.seen[i] = 0
  BY DEF Resting
<1> HIDE DEF Resting
<1>3. /\ \A w \in Workers : WorkerKnows(w) /\ \A i \in Items : ~Holds(w, i)
      /\ \A w, v \in Workers : HoldersExclude(w, v)
  BY <1>1, <1>2 DEF WorkerKnows, HoldersExclude, Holds, At
<1>4. ToldOnce /\ \A i \in Items : Unsent(i)
  BY <1>1 DEF ToldOnce, Unsent
<1>5. ASSUME NEW i \in Items PROVE AttemptsBound(i)
  <2>1. /\ Cardinality(Workers) \in Nat /\ Cardinality(Workers) # 0
        /\ MaxAttempts \in Nat /\ MaxAttempts # 0
    BY WorkerAssumption, FS_EmptySet, FS_CardinalityType
  <2>2. Stale(i) = {}
    BY <1>1, <1>2 DEF Stale
  <2>3. Cardinality(Stale(i)) = 0
    BY <2>2, FS_EmptySet
  <2> QED
    BY <1>1, <2>1, <2>3 DEF AttemptsBound
<1> QED
  BY <1>1, <1>3, <1>4, <1>5 DEF WorkerInv

LEMMA WorkerNext == WorkerInv /\ [Next]_vars => WorkerInv'
<1> SUFFICES ASSUME WorkerInv, [Next]_vars PROVE WorkerInv'
  OBVIOUS
<1>1. CASE UNCHANGED vars
  <2>1. \A i \in Items : AttemptsBound(i)'
    BY <1>1 DEF vars, WorkerInv, AttemptsBound, Returns, Stale, Holds
  <2>2. \A w \in Workers : WorkerKnows(w)'
    BY <1>1 DEF vars, WorkerInv, WorkerKnows, Holds, At
  <2> QED
    BY <1>1, <2>1, <2>2 DEF vars, WorkerInv, HoldersExclude, Holds, Unsent, ToldOnce
<1>2. ASSUME NEW w \in Workers, Delivers(w) \/ Crash(w) PROVE WorkerInv'
  BY <1>2, ListingSteps, Claims, Sends, Records DEF Delivers
<1> QED
  BY <1>1, <1>2, TimePassing DEF Next

\* The inductive invariant: who holds an item, and what a list that is out of
\* date may still do.
THEOREM WorkerInvariance == Spec => []WorkerInv
BY WorkerStart, WorkerNext, PTL DEF Spec

\* No crash and no other worker repeats a send that was not taken for a failure
\* (claim: the conditional update of process_due).
THEOREM TheUserIsToldOnce == Spec => []ToldOnce
<1>1. WorkerInv => ToldOnce
  BY DEF WorkerInv
<1> QED
  BY <1>1, WorkerInvariance, PTL

\* Of any number of workers with lists out of date, each but one may grant an
\* item one attempt more than max_attempts (record_failure judges by the list's
\* attempt_count).
THEOREM OverrunIsOnePerWorker == Spec => []AttemptsOverrunIsBounded
<1>1. WorkerInv => AttemptsOverrunIsBounded
  <2> SUFFICES ASSUME WorkerInv, NEW i \in Items PROVE item[i].attempts <= MaxAttempts + Cardinality(Workers) - 1
    BY DEF AttemptsOverrunIsBounded
  <2>1. item[i].attempts \in Nat /\ MaxAttempts \in Nat /\ Cardinality(Workers) \in Nat
    BY WorkerAssumption, FS_CardinalityType DEF WorkerInv, ItemRow
  <2>2. item[i].attempts + 1 <= MaxAttempts + Cardinality(Workers)
    BY DEF WorkerInv, AttemptsBound
  <2> QED
    BY <2>1, <2>2
<1> QED
  BY <1>1, WorkerInvariance, PTL

-----------------------------------------------------------------------------
(* What SettledUnlessOrphaned rests on: its part that speaks of single steps. *)

\* What was delivered, or has failed for good, stays so, and no attempt is
\* taken back.
StaysSettled(i) ==
    /\ item[i].status \in {"delivered", "failed"} => item'[i].status = item[i].status
    /\ item[i].attempts <= item'[i].attempts

\* A settled item is never claimed again or settled in another way, by however
\* many workers with lists out of date (the claim's condition on the status).
THEOREM SettledStands == Spec => [][\A i \in Items : StaysSettled(i)]_vars
<1>1. ASSUME WorkerInv, Next, NEW i \in Items PROVE StaysSettled(i)
  <2>1. item \in [Items -> ItemRow] /\ item[i].attempts \in Nat
    BY <1>1 DEF WorkerInv, ItemRow
  <2>2. CASE item' = item
    BY <2>1, <2>2 DEF StaysSettled
  <2>3. ASSUME NEW w \in Workers, NEW j \in Items, Claim(w, j) PROVE StaysSettled(i)
    <3>1. CASE item' = [item EXCEPT ![j].status = "processing", ![j].attempts = @ + 1] /\ Claimable(j)
      BY <2>1, <3>1 DEF StaysSettled, Claimable, Waiting, ItemRow
    <3> QED
      BY <2>2, <2>3, <3>1 DEF Claim
  <2>4. ASSUME NEW w \in Workers, Record(w) PROVE StaysSettled(i)
    <3>1. PICK j \in Items : j = worker[w].item /\ item' = [item EXCEPT ![j] = Outcome(w)]
      BY <1>1, <2>4 DEF WorkerInv, WorkerKnows, Record
    <3>2. item[j].status = "processing" /\ item[j] \in ItemRow
      BY <1>1, <2>4, <3>1 DEF WorkerInv, WorkerKnows, Holds, Record
    <3>3. Outcome(w).attempts = item[j].attempts
      BY <3>1, <3>2 DEF Outcome, ItemRow
    <3> QED
      BY <2>1, <3>1, <3>2, <3>3 DEF StaysSettled
  <2>5. ASSUME NEW j \in Items, BackoffEnds(j) PROVE StaysSettled(i)
    BY <2>1, <2>5 DEF StaysSettled, BackoffEnds, ItemRow
  <2> QED
    BY <1>1, <2>2, <2>3, <2>4, <2>5 DEF Next, Delivers, Crash, ListDue, Finish, Mute, Send
<1>2. WorkerInv /\ [Next]_vars => [\A i \in Items : StaysSettled(i)]_vars
  BY <1>1
<1> QED
  BY <1>2, WorkerInvariance, PTL DEF Spec

\* An item that was claimed is in a worker's hand, or was in a dead one's.
InHandOrOrphaned ==
    \A i \in Items : item[i].status = "processing" => i \in orphans \/ \E w \in Workers : Holds(w, i)

\* A worker that does not hold the item stays out of the way of the one that does.
LEMMA HandsStay ==
  ASSUME WorkerInv, InHandOrOrphaned, NEW w \in Workers, NEW i \in Items, NEW state, Becomes(w, state),
         item[i].status = "processing", ~Holds(w, i), orphans \subseteq orphans'
  PROVE  i \in orphans' \/ \E v \in Workers : Holds(v, i)'
<1>1. CASE i \in orphans
  BY <1>1
<1>2. ASSUME NEW v \in Workers, Holds(v, i) PROVE \E u \in Workers : Holds(u, i)'
  <2>1. v # w /\ worker'[v] = worker[v]
    BY <1>2 DEF WorkerInv, Becomes
  <2>2. Holds(v, i)'
    BY <1>2, <2>1 DEF Holds
  <2> QED
    BY <2>2
<1> QED
  BY <1>1, <1>2 DEF InHandOrOrphaned

\* Nothing is lost but by a worker's death: what is in "processing" for ever was
\* left there by a crash (nothing selects it again), and by nothing else.
THEOREM NothingElseIsLost == Spec => []InHandOrOrphaned
<1>1. Init => InHandOrOrphaned
  BY DEF Init, InHandOrOrphaned
<1>2. ASSUME WorkerInv, InHandOrOrphaned, [Next]_vars PROVE InHandOrOrphaned'
  <2> SUFFICES ASSUME NEW i \in Items, item'[i].status = "processing"
               PROVE  i \in orphans' \/ \E v \in Workers : Holds(v, i)'
    BY DEF InHandOrOrphaned
  <2>1. item \in [Items -> ItemRow] /\ worker = [w \in Workers |-> worker[w]]
    BY <1>2 DEF WorkerInv
  <2>2. ASSUME NEW w \in Workers, NEW j \in Items, Claim(w, j)
        PROVE  i \in orphans' \/ \E v \in Workers : Holds(v, i)'
    <3>1. PICK state : Becomes(w, state) /\ (Claimable(j) => state.pc = "send" /\ state.item = j)
      BY <2>2 DEF Claim
    <3>2. worker'[w] = state
      BY <2>1, <3>1 DEF Becomes
    <3>3. CASE Claimable(j) /\ i = j
      BY <3>1, <3>2, <3>3 DEF Holds
    <3>4. CASE ~(Claimable(j) /\ i = j)
      <4>1. item'[i].status = item[i].status
        BY <2>1, <2>2, <3>4 DEF Claim
      <4>2. ~Holds(w, i) /\ orphans \subseteq orphans'
        BY <2>2 DEF Claim, At, Holds
      <4> QED
        BY <1>2, <3>1, <4>1, <4>2, HandsStay
    <3> QED
      BY <3>3, <3>4
  <2>3. ASSUME NEW w \in Workers, ListDue(w) \/ Finish(w)
        PROVE  i \in orphans' \/ \E v \in Workers : Holds(v, i)'
    <3>1. ~Holds(w, i) /\ item' = item /\ orphans' = orphans /\ \E state : Becomes(w, state)
      BY <2>3 DEF ListDue, Finish, At, Holds
    <3> QED
      BY <1>2, <3>1, HandsStay
  <2>4. ASSUME NEW w \in Workers, NEW pc \in {"delivered", "failed"}, At(w, "send"),
               Becomes(w, [worker[w] EXCEPT !.pc = pc]), UNCHANGED <<item, orphans>>
        PROVE  i \in orphans' \/ \E v \in Workers : Holds(v, i)'
    <3> DEFINE state == [worker[w] EXCEPT !.pc = pc]
    <3>1. CASE Holds(w, i)
      <4>1. state.pc = pc /\ state.item = i
        BY <2>4, <3>1 DEF At, Holds
      <4>2. worker'[w] = state
        BY <2>1, <2>4 DEF Becomes
      <4> HIDE DEF state
      <4>3. Holds(w, i)'
        BY <2>4, <4>1, <4>2 DEF Holds
      <4> QED
        BY <4>3
    <3>2. CASE ~Holds(w, i)
      BY <1>2, <2>4, <3>2, HandsStay
    <3> QED
      BY <3>1, <3>2
  <2>5. ASSUME NEW w \in Workers, Record(w)
        PROVE  i \in orphans' \/ \E v \in Workers : Holds(v, i)'
    <3>1. PICK j \in Items : /\ j = worker[w].item /\ item' = [item EXCEPT ![j] = Outcome(w)]
                             /\ orphans' = orphans /\ \E state : Becomes(w, state)
      BY <1>2, <2>5 DEF WorkerInv, WorkerKnows, Record
    <3>2. Outcome(w).status # "processing"
      BY <2>1, <3>1 DEF Outcome, ItemRow
    <3>3. i # j /\ item'[i] = item[i] /\ ~Holds(w, i)
      BY <2>1, <3>1, <3>2 DEF Holds
    <3> QED
      BY <1>2, <3>1, <3>3, HandsStay
  <2>6. ASSUME NEW w \in Workers, Crash(w)
        PROVE  i \in orphans' \/ \E v \in Workers : Holds(v, i)'
    <3>1. CASE Holds(w, i)
      BY <2>6, <3>1 DEF Crash, Holds
    <3>2. CASE ~Holds(w, i)
      <4>1. item' = item /\ orphans \subseteq orphans' /\ \E state : Becomes(w, state)
        BY <2>6 DEF Crash
      <4> QED
        BY <1>2, <3>2, <4>1, HandsStay
    <3> QED
      BY <3>1, <3>2
  <2>7. CASE worker' = worker /\ orphans' = orphans /\ item'[i].status = item[i].status
    BY <1>2, <2>7 DEF InHandOrOrphaned, Holds
  <2>8. ASSUME NEW j \in Items, BackoffEnds(j)
        PROVE  i \in orphans' \/ \E v \in Workers : Holds(v, i)'
    BY <2>1, <2>7, <2>8 DEF BackoffEnds, ItemRow
  <2>9. ASSUME NEW w \in Workers, Mute(w)
        PROVE  i \in orphans' \/ \E v \in Workers : Holds(v, i)'
    BY <2>4, <2>9 DEF Mute
  <2>10. ASSUME NEW w \in Workers, NEW arrives \in BOOLEAN, NEW raises \in BOOLEAN, Send(w, arrives, raises)
        PROVE  i \in orphans' \/ \E v \in Workers : Holds(v, i)'
    <3>1. CASE raises
      BY <2>4, <2>10, <3>1 DEF Send
    <3>2. CASE ~raises
      BY <2>4, <2>10, <3>2 DEF Send
    <3> QED
      BY <3>1, <3>2
  <2> QED
    BY <1>2, <2>2, <2>3, <2>5, <2>6, <2>7, <2>8, <2>9, <2>10 DEF Next, Delivers, vars
<1> QED
  BY <1>1, <1>2, WorkerInvariance, PTL DEF Spec
=============================================================================
