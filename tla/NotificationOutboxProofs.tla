----------------------- MODULE NotificationOutboxProofs -----------------------
(***************************************************************************)
(* What the way of a status change keeps, for any number of relay runs,    *)
(* consumers, events and citizens, whatever dies or is refused: the relay  *)
(* publishes a row once (IInv), the tasks and the notification rows are    *)
(* well formed (TInv), no committed change is lost (DInv), and no mail is  *)
(* sent that nothing explains (MailsAccounted).                            *)
(***************************************************************************)
EXTENDS NotificationOutbox, SequenceTheorems, FiniteSetTheorems, TLAPS

OutboxTyped ==
    /\ outbox \in Seq(Issues) /\ Len(outbox) <= MaxEvents
    /\ published \subseteq Recorded
    /\ batch  \in [Relays -> SUBSET Recorded]
    /\ handed \in [Relays -> SUBSET Recorded]
    /\ handoffs \in [Events -> Nat] /\ undone \in [Events -> Nat]

\* FOR UPDATE SKIP LOCKED: no row is in two batches, or in one and published.
RowsLocked ==
    /\ \A l \in Relays : handed[l] \subseteq batch[l] /\ batch[l] \cap published = {}
    /\ \A l, k \in Relays : l # k => batch[l] \cap batch[k] = {}

\* The row was handed to the broker by a run that has not been rolled back.
HandedOver(e) == e \in published \/ \E l \in Relays : e \in handed[l]

\* Every hand-over is either rolled back or the one that counts.
Accounted ==
    \A e \in Events : handoffs[e] = undone[e] + IF HandedOver(e) THEN 1 ELSE 0

IInv == OutboxTyped /\ RowsLocked /\ Accounted

LEMMA RecordedAreEvents ==
    ASSUME OutboxTyped
    PROVE  Recorded \subseteq Events /\ Len(outbox) \in Nat
  BY OutboxAssumption DEF OutboxTyped, Recorded, Events

LEMMA Initially == Init => IInv
<1> SUFFICES ASSUME Init PROVE IInv
  OBVIOUS
<1>1. OutboxTyped
  BY OutboxAssumption DEF Init, OutboxTyped, Recorded
<1>2. RowsLocked /\ Accounted
  BY DEF Init, RowsLocked, Accounted, HandedOver
<1> QED
  BY <1>1, <1>2 DEF IInv

\* Steps of the rest of the system: at most a row is added.
LEMMA Recording ==
    ASSUME IInv, UNCHANGED <<published, batch, handed, handoffs, undone>>,
           UNCHANGED outbox \/ \E i \in Issues : RecordStatusChanged(i)
    PROVE  IInv'
<1>1. RowsLocked' /\ Accounted'
  BY DEF IInv, RowsLocked, Accounted, HandedOver
<1>2. outbox' \in Seq(Issues) /\ Len(outbox') <= MaxEvents /\ Recorded \subseteq Recorded'
  <2>1. CASE UNCHANGED outbox
    BY <2>1 DEF IInv, OutboxTyped, Recorded
  <2>2. CASE \E i \in Issues : RecordStatusChanged(i)
    <3>1. PICK i \in Issues : RecordStatusChanged(i)
      BY <2>2
    <3>2. outbox' \in Seq(Issues) /\ Len(outbox') = Len(outbox) + 1
      BY <3>1 DEF IInv, OutboxTyped, RecordStatusChanged
    <3> QED
      BY <3>1, <3>2, RecordedAreEvents, OutboxAssumption
         DEF IInv, OutboxTyped, Recorded, RecordStatusChanged
  <2> QED
    BY <2>1, <2>2
<1>3. OutboxTyped'
  BY <1>2 DEF IInv, OutboxTyped
<1> QED
  BY <1>1, <1>3 DEF IInv

LEMMA LockBatchKeeps ==
    ASSUME IInv, NEW l \in Relays, LockBatch(l)
    PROVE  IInv'
<1>1. UNCHANGED <<outbox, published, handed, handoffs, undone>>
  BY DEF LockBatch, domainVars, historyVars
<1>2. PICK rows : /\ rows \subseteq Pending /\ batch' = [batch EXCEPT ![l] = rows]
  BY DEF LockBatch
<1>3. batch[l] = {} /\ rows \subseteq Recorded
  BY <1>2 DEF LockBatch, Pending
<1>4. OutboxTyped'
  BY <1>1, <1>2, <1>3 DEF IInv, OutboxTyped, Recorded
<1>5. RowsLocked'
  BY <1>1, <1>2, <1>3 DEF IInv, OutboxTyped, RowsLocked, Pending
<1>6. Accounted'
  BY <1>1 DEF IInv, Accounted, HandedOver
<1> QED
  BY <1>4, <1>5, <1>6 DEF IInv

LEMMA HandOverKeeps ==
    ASSUME IInv, NEW l \in Relays, HandOver(l)
    PROVE  IInv'
<1>1. PICK e \in batch[l] \ handed[l] :
          /\ handed' = [handed EXCEPT ![l] = @ \cup {e}]
          /\ handoffs' = [handoffs EXCEPT ![e] = @ + 1]
          /\ UNCHANGED <<outbox, published, batch, undone>>
  BY DEF HandOver, domainVars
<1>2. e \in Recorded /\ e \in Events
  BY RecordedAreEvents DEF IInv, OutboxTyped
<1>3. OutboxTyped'
  BY <1>1, <1>2 DEF IInv, OutboxTyped, Recorded
<1>4. RowsLocked'
  BY <1>1 DEF IInv, OutboxTyped, RowsLocked
<1>5. ~HandedOver(e)
  BY DEF IInv, RowsLocked, HandedOver
<1>6. HandedOver(e)'
  BY <1>1 DEF IInv, OutboxTyped, HandedOver
<1>7. \A d \in Events \ {e} : HandedOver(d)' <=> HandedOver(d)
  BY <1>1 DEF IInv, OutboxTyped, HandedOver
<1>8. Accounted'
  <2>1. handoffs'[e] = undone'[e] + 1
    BY <1>1, <1>2, <1>5 DEF IInv, OutboxTyped, Accounted
  <2>2. \A d \in Events \ {e} : handoffs'[d] = undone'[d] + IF HandedOver(d)' THEN 1 ELSE 0
    BY <1>1, <1>7 DEF IInv, OutboxTyped, Accounted
  <2> QED
    BY <1>6, <2>1, <2>2 DEF Accounted
<1> QED
  BY <1>3, <1>4, <1>8 DEF IInv

LEMMA CommitKeeps ==
    ASSUME IInv, NEW l \in Relays, CommitBatch(l)
    PROVE  IInv'
<1>1. /\ handed[l] = batch[l] /\ published' = published \cup batch[l]
      /\ batch' = [batch EXCEPT ![l] = {}] /\ handed' = [handed EXCEPT ![l] = {}]
      /\ UNCHANGED <<outbox, handoffs, undone>>
  BY DEF CommitBatch, domainVars, historyVars
<1>2. OutboxTyped'
  BY <1>1 DEF IInv, OutboxTyped, Recorded
<1>3. RowsLocked'
  BY <1>1 DEF IInv, OutboxTyped, RowsLocked
<1>4. \A e \in Events : HandedOver(e)' <=> HandedOver(e)
  BY <1>1 DEF IInv, OutboxTyped, HandedOver
<1>5. Accounted'
  BY <1>1, <1>4 DEF IInv, Accounted
<1> QED
  BY <1>2, <1>3, <1>5 DEF IInv

LEMMA AbortKeeps ==
    ASSUME IInv, NEW l \in Relays, AbortBatch(l)
    PROVE  IInv'
<1>1. /\ UNCHANGED <<outbox, published, handoffs>>
      /\ batch' = [batch EXCEPT ![l] = {}] /\ handed' = [handed EXCEPT ![l] = {}]
      /\ undone' = [e \in Events |-> undone[e] + IF e \in handed[l] THEN 1 ELSE 0]
  BY DEF AbortBatch, AbortBatchMarks, domainVars
<1>2. OutboxTyped'
  BY <1>1 DEF IInv, OutboxTyped, Recorded
<1>3. RowsLocked'
  BY <1>1 DEF IInv, OutboxTyped, RowsLocked
<1>4. \A e \in handed[l] : HandedOver(e) /\ ~HandedOver(e)'
  BY <1>1 DEF IInv, OutboxTyped, RowsLocked, HandedOver
<1>5. \A e \in Events \ handed[l] : HandedOver(e)' <=> HandedOver(e)
  BY <1>1 DEF IInv, OutboxTyped, HandedOver
<1>6. Accounted'
  <2> SUFFICES ASSUME NEW e \in Events
               PROVE  handoffs[e] = undone'[e] + IF HandedOver(e)' THEN 1 ELSE 0
    BY <1>1 DEF Accounted
  <2>1. /\ handoffs[e] = undone[e] + IF HandedOver(e) THEN 1 ELSE 0
        /\ undone[e] \in Nat
    BY DEF IInv, OutboxTyped, Accounted
  <2>2. CASE e \in handed[l]
    BY <1>1, <1>4, <2>1, <2>2
  <2>3. CASE e \notin handed[l]
    BY <1>1, <1>5, <2>1, <2>3
  <2> QED
    BY <2>2, <2>3
<1> QED
  BY <1>2, <1>3, <1>6 DEF IInv

LEMMA Stepwise == IInv /\ [Next]_vars => IInv'
<1> SUFFICES ASSUME IInv, [Next]_vars PROVE IInv'
  OBVIOUS
<1>1. CASE \E i \in Issues : ChangeStatus(i)
  BY <1>1, Recording DEF ChangeStatus, relayVars, historyVars
<1>2. CASE \E s, a \in Issues : MergeIssues(s, a)
  BY <1>2, Recording DEF MergeIssues, relayVars, historyVars
<1>3. CASE \/ \E r \in Reports, i \in Issues : JoinIssue(r, i)
           \/ \E i, n \in Issues, moved \in SUBSET Reports : SplitIssue(i, n, moved)
           \/ \E u \in Citizens, s \in Standings : ChangeStanding(u, s)
  BY <1>3, Recording DEF JoinIssue, SplitIssue, ChangeStanding, relayVars, historyVars
<1>4. CASE \E l \in Relays : RelayStep(l)
  BY <1>4, LockBatchKeeps, HandOverKeeps, CommitKeeps DEF RelayStep
<1>5. CASE \E l \in Relays : AbortBatch(l)
  BY <1>5, AbortKeeps
<1>6. CASE \E c \in Consumers : ConsumerStep(c)
  <2>1. UNCHANGED <<outbox, published, batch, handed, handoffs, undone>>
    BY <1>6 DEF ConsumerStep, Take, Generate, ListMails, SendMail, SaveSent, Acknowledge,
                domainVars, relayVars, historyVars
  <2> QED
    BY <2>1, Recording
<1>7. CASE \E c \in Consumers : ConsumerDies(c) \/ CallFails(c)
  <2>1. UNCHANGED <<outbox, published, batch, handed, handoffs, undone>>
    BY <1>7 DEF ConsumerDies, CallFails, domainVars, relayVars
  <2> QED
    BY <2>1, Recording
<1>8. CASE UNCHANGED vars
  BY <1>8, Recording DEF vars, domainVars, relayVars, historyVars
<1> QED
  BY <1>1, <1>2, <1>3, <1>4, <1>5, <1>6, <1>7, <1>8 DEF Next

\* For any number of overlapping relay_outbox runs: a row reaches the broker
\* once, and once more for each run that was rolled back after it had handed
\* the row over.
THEOREM RelayCorrect == Spec => []RowsPublishedOnce
<1>1. IInv => RowsPublishedOnce
  <2> SUFFICES ASSUME IInv, NEW e \in Recorded PROVE handoffs[e] <= 1 + undone[e]
    BY DEF RowsPublishedOnce
  <2>1. e \in Events
    BY RecordedAreEvents DEF IInv
  <2>2. /\ handoffs[e] = undone[e] + IF HandedOver(e) THEN 1 ELSE 0
        /\ undone[e] \in Nat
    BY <2>1 DEF IInv, OutboxTyped, Accounted
  <2> QED
    BY <2>2
<1> QED
  BY <1>1, Initially, Stepwise, PTL DEF Spec

-----------------------------------------------------------------------------
(***************************************************************************)
(* The broker's bag, one message at a time.                                *)
(***************************************************************************)
Copies(bag, e) ==
    {x \in Message \X Nat : x[1] \in DOMAIN bag /\ x[1].event = e /\ x[2] \in 1 .. bag[x[1]]}

\* The second bag is the first with one more copy of m.
OneMore(bag, m, more) ==
    /\ IsABag(bag) /\ IsABag(more) /\ DOMAIN more = DOMAIN bag \cup {m}
    /\ more[m] = (IF m \in DOMAIN bag THEN bag[m] ELSE 0) + 1
    /\ \A x \in DOMAIN bag : x # m => more[x] = bag[x]

LEMMA MessageAdded ==
    ASSUME NEW bag, IsABag(bag), NEW m, NEW more, more = bag (+) SetToBag({m})
    PROVE  OneMore(bag, m, more)
  BY DEF IsABag, SetToBag, (+), OneMore

LEMMA MessageTaken ==
    ASSUME NEW bag, IsABag(bag), NEW m \in DOMAIN bag, NEW less, less = bag (-) SetToBag({m})
    PROVE  OneMore(less, m, bag)
<1>1. /\ IsABag(bag (-) SetToBag({m}))
      /\ DOMAIN (bag (-) SetToBag({m})) = IF bag[m] = 1 THEN DOMAIN bag \ {m} ELSE DOMAIN bag
      /\ \A x \in DOMAIN (bag (-) SetToBag({m})) :
           (bag (-) SetToBag({m}))[x] = IF x = m THEN bag[m] - 1 ELSE bag[x]
  BY DEF IsABag, SetToBag, (-)
<1>2. /\ IsABag(less) /\ DOMAIN less = IF bag[m] = 1 THEN DOMAIN bag \ {m} ELSE DOMAIN bag
      /\ \A x \in DOMAIN less : less[x] = IF x = m THEN bag[m] - 1 ELSE bag[x]
  BY <1>1
<1>3. bag[m] \in Nat
  BY DEF IsABag
<1>4. m \in DOMAIN bag /\ DOMAIN bag = DOMAIN less \cup {m}
  BY <1>2
<1>5. bag[m] = (IF m \in DOMAIN less THEN less[m] ELSE 0) + 1
  <2>1. CASE bag[m] = 1
    <3>1. m \notin DOMAIN less
      BY <1>2, <2>1
    <3> QED
      BY <2>1, <3>1
  <2>2. CASE bag[m] # 1
    <3>1. m \in DOMAIN less /\ less[m] = bag[m] - 1
      BY <1>2, <1>4, <2>2
    <3> QED
      BY <1>3, <3>1
  <2> QED
    BY <2>1, <2>2
<1>6. \A x \in DOMAIN less : x # m => bag[x] = less[x]
  BY <1>2
<1> QED
  BY <1>2, <1>4, <1>5, <1>6 DEF OneMore

LEMMA CopyAdded ==
    ASSUME NEW bag, NEW more, NEW m \in Message, OneMore(bag, m, more), NEW e
    PROVE  /\ m.event # e => Copies(more, e) = Copies(bag, e)
           /\ m.event = e => \E x : /\ x \notin Copies(bag, e)
                                    /\ Copies(more, e) = Copies(bag, e) \cup {x}
<1> DEFINE n == (IF m \in DOMAIN bag THEN bag[m] ELSE 0) + 1
<1>1. /\ DOMAIN more = DOMAIN bag \cup {m} /\ more[m] = n
      /\ \A x \in DOMAIN bag : x # m => more[x] = bag[x]
  BY DEF OneMore
<1>2. n \in Nat /\ n > 0 /\ (m \in DOMAIN bag => bag[m] = n - 1) /\ (m \notin DOMAIN bag => n = 1)
  BY DEF OneMore, IsABag
<1> HIDE DEF n
<1>3. ASSUME m.event # e PROVE Copies(more, e) = Copies(bag, e)
  BY <1>1, <1>3 DEF Copies
<1>4. ASSUME m.event = e
      PROVE  \E x : x \notin Copies(bag, e) /\ Copies(more, e) = Copies(bag, e) \cup {x}
  <2>1. <<m, n>> \notin Copies(bag, e)
    BY <1>2 DEF Copies
  <2>2. ASSUME NEW x \in Message \X Nat
        PROVE  x \in Copies(more, e) <=> x \in Copies(bag, e) \/ x = <<m, n>>
    <3>1. CASE x[1] = m
      BY <1>1, <1>2, <1>4, <3>1 DEF Copies
    <3>2. CASE x[1] # m
      BY <1>1, <3>2 DEF Copies
    <3> QED
      BY <3>1, <3>2
  <2>3. Copies(more, e) = Copies(bag, e) \cup {<<m, n>>}
    BY <1>2, <2>2 DEF Copies
  <2> QED
    BY <2>1, <2>3
<1> QED
  BY <1>3, <1>4

\* A consumer that is idle has nothing in hand, one that works has a message of
\* a recorded event, and it sends a mail it has not saved yet no second time.
Working(c) ==
    /\ stage[c] = "idle" => task[c] = None
    /\ stage[c] # "idle" => task[c] \in Message /\ task[c].event \in Recorded
    /\ stage[c] # "sending" => todo[c] = {} /\ unsaved[c] = None
    /\ unsaved[c] \notin todo[c]

TasksTyped ==
    /\ IsABag(queue) /\ BagToSet(queue) \subseteq Message
    /\ \A m \in BagToSet(queue) : m.event \in Recorded
    /\ task \in [Consumers -> Message \cup {None}]
    /\ stage \in [Consumers -> {"idle", "taken", "generated", "sending"}]
    /\ todo \in [Consumers -> SUBSET Citizens]
    /\ unsaved \in [Consumers -> Citizens \cup {None}]
    /\ \A c \in Consumers : Working(c)

NoticesTyped ==
    /\ issueOf \in [Reports -> Issues \cup {None}]
    /\ standing \in [Citizens -> Standings]
    /\ owed \in [Events -> SUBSET Citizens]
    /\ inbox \subseteq Recorded \X Citizens
    /\ email \in [Events \X Citizens -> {"none", "pending", "sent"}]
    /\ accepted \in [Events \X Citizens -> Nat]
    /\ lostSaves \in [Events -> Nat]
    /\ givenUp \subseteq Events
    /\ faults \in 0 .. MaxFaults

TInv == IInv /\ TasksTyped /\ NoticesTyped

LEMMA TypesInitially == Init => TasksTyped /\ NoticesTyped
<1> SUFFICES ASSUME Init PROVE TasksTyped /\ NoticesTyped
  OBVIOUS
<1>1. NoticesTyped
  BY OutboxAssumption DEF Init, NoticesTyped, Standings, Events, Recorded
<1>2. IsABag(queue) /\ BagToSet(queue) = {}
  BY DEF Init, EmptyBag, SetToBag, IsABag, BagToSet
<1> QED
  BY <1>1, <1>2 DEF Init, TasksTyped, Working

\* What a step of one consumer may leave behind.
LEMMA ConsumerTyped ==
    ASSUME TInv, UNCHANGED outbox, NEW c \in Consumers,
           NEW m \in Message \cup {None}, NEW s \in {"idle", "taken", "generated", "sending"},
           NEW t \in SUBSET Citizens, NEW u \in Citizens \cup {None},
           task' = [task EXCEPT ![c] = m], stage' = [stage EXCEPT ![c] = s],
           todo' = [todo EXCEPT ![c] = t], unsaved' = [unsaved EXCEPT ![c] = u],
           s = "idle" => m = None, s # "idle" => m \in Message /\ m.event \in Recorded,
           s # "sending" => t = {} /\ u = None, u \notin t,
           IsABag(queue'), BagToSet(queue') \subseteq Message,
           \A x \in BagToSet(queue') : x.event \in Recorded
    PROVE  TasksTyped'
<1>1. Recorded' = Recorded
  BY DEF Recorded
<1>2. /\ task'[c] = m /\ stage'[c] = s /\ todo'[c] = t /\ unsaved'[c] = u
      /\ \A d \in Consumers \ {c} : /\ task'[d] = task[d] /\ stage'[d] = stage[d]
                                    /\ todo'[d] = todo[d] /\ unsaved'[d] = unsaved[d]
  BY DEF TInv, TasksTyped
<1>3. Working(c)'
  BY <1>1, <1>2 DEF Working
<1>4. \A d \in Consumers \ {c} : Working(d)'
  BY <1>1, <1>2 DEF TInv, TasksTyped, Working
<1>5. /\ task' \in [Consumers -> Message \cup {None}]
      /\ stage' \in [Consumers -> {"idle", "taken", "generated", "sending"}]
      /\ todo' \in [Consumers -> SUBSET Citizens]
      /\ unsaved' \in [Consumers -> Citizens \cup {None}]
  BY DEF TInv, TasksTyped
<1> QED
  BY <1>1, <1>3, <1>4, <1>5 DEF TasksTyped

\* The broker has a further message of a recorded event, or lost one to a consumer.
LEMMA QueueTyped ==
    ASSUME TInv, NEW m \in Message, m.event \in Recorded,
           queue' = queue (+) SetToBag({m})
    PROVE  /\ IsABag(queue') /\ BagToSet(queue') \subseteq Message
           /\ \A x \in BagToSet(queue') : x.event \in Recorded
<1>1. IsABag(queue)
  BY DEF TInv, TasksTyped
<1>2. IsABag(queue') /\ DOMAIN queue' = DOMAIN queue \cup {m}
  BY <1>1, MessageAdded DEF OneMore
<1> QED
  BY <1>2 DEF TInv, TasksTyped, BagToSet

LEMMA RowsTyped ==
    ASSUME TInv, UNCHANGED outbox \/ \E i \in Issues : RecordStatusChanged(i)
    PROVE  Recorded \subseteq Recorded' /\ \A e \in Recorded : outbox'[e] = outbox[e]
<1>1. CASE UNCHANGED outbox
  BY <1>1 DEF Recorded
<1>2. ASSUME NEW i \in Issues, RecordStatusChanged(i)
      PROVE  Recorded \subseteq Recorded' /\ \A e \in Recorded : outbox'[e] = outbox[e]
  <2>1. outbox \in Seq(Issues) /\ outbox' = Append(outbox, i)
    BY <1>2 DEF TInv, IInv, OutboxTyped, RecordStatusChanged
  <2> QED
    BY <2>1 DEF Recorded
<1> QED
  BY <1>1, <1>2

LEMMA ConcernedAreCitizens ==
    ASSUME NEW e
    PROVE  Concerned(e) \subseteq Citizens /\ Recipients(outbox[e]) \subseteq Citizens
  BY OutboxAssumption DEF Concerned, Notifiable, Recipients, Authors

LEMMA OwedTyped ==
    ASSUME TInv, OwedStill \/ UNCHANGED owed
    PROVE  owed' \in [Events -> SUBSET Citizens]
<1>1. ASSUME NEW e PROVE Concerned(e)' \subseteq Citizens
  BY OutboxAssumption DEF Concerned, Notifiable, Recipients, Authors
<1>2. owed \in [Events -> SUBSET Citizens]
  BY DEF TInv, NoticesTyped
<1>3. CASE OwedStill
  <2> DEFINE still(e) == CASE e \in Recorded -> owed[e] \cap Concerned(e)'
                           [] e \in Recorded' \ Recorded -> Concerned(e)'
                           [] OTHER -> {}
  <2>1. owed' = [e \in Events |-> still(e)]
    BY <1>3 DEF OwedStill
  <2>2. ASSUME NEW e \in Events PROVE still(e) \subseteq Citizens
    BY <1>1, <1>2
  <2> HIDE DEF still
  <2> QED
    BY <2>1, <2>2
<1> QED
  BY <1>2, <1>3

\* Changes of Issues and accounts, and the relay but for its call of the broker.
LEMMA ElsewhereTyped ==
    ASSUME TInv, UNCHANGED outbox \/ \E i \in Issues : RecordStatusChanged(i),
           UNCHANGED <<queue, taskVars, noticeVars, accepted, lostSaves, givenUp>>,
           OwedStill \/ UNCHANGED owed, standing' \in [Citizens -> Standings],
           issueOf' \in [Reports -> Issues \cup {None}], faults' \in 0 .. MaxFaults
    PROVE  TasksTyped' /\ NoticesTyped'
<1>1. Recorded \subseteq Recorded'
  BY RowsTyped
<1>2. \A c \in Consumers : Working(c)'
  BY <1>1 DEF TInv, TasksTyped, Working, taskVars
<1>3. owed' \in [Events -> SUBSET Citizens]
  BY OwedTyped
<1> QED
  BY <1>1, <1>2, <1>3 DEF TInv, TasksTyped, NoticesTyped, taskVars, noticeVars, Events

LEMMA NoticesStay ==
    ASSUME TInv, UNCHANGED <<domainVars, noticeVars, accepted, lostSaves, givenUp, faults>>
    PROVE  NoticesTyped'
  BY DEF TInv, NoticesTyped, domainVars, noticeVars, Events, Recorded

LEMMA TaskEnded ==
    ASSUME TInv, NEW c \in Consumers, EndTask(c), UNCHANGED outbox,
           \/ UNCHANGED queue
           \/ \E m \in Message : /\ m.event = task[c].event /\ stage[c] # "idle"
                                 /\ queue' = queue (+) SetToBag({m})
    PROVE  TasksTyped'
<1>1. /\ IsABag(queue') /\ BagToSet(queue') \subseteq Message
      /\ \A x \in BagToSet(queue') : x.event \in Recorded
  <2>1. CASE UNCHANGED queue
    BY <2>1 DEF TInv, TasksTyped
  <2>2. CASE \E m \in Message : /\ m.event = task[c].event /\ stage[c] # "idle"
                                /\ queue' = queue (+) SetToBag({m})
    <3>1. PICK m \in Message : /\ m.event = task[c].event /\ stage[c] # "idle"
                               /\ queue' = queue (+) SetToBag({m})
      BY <2>2
    <3>2. m.event \in Recorded
      BY <3>1 DEF TInv, TasksTyped, Working
    <3> QED
      BY <3>1, <3>2, QueueTyped
  <2> QED
    BY <2>1, <2>2
<1> QED
  BY <1>1, ConsumerTyped DEF EndTask

LEMMA RetriedMessage ==
    ASSUME NEW m \in Message, m.retry < MaxRetries
    PROVE  /\ [m EXCEPT !.retry = @ + 1] \in Message
           /\ [m EXCEPT !.retry = @ + 1].event = m.event
  BY OutboxAssumption DEF Message

\* What a failed or dead task puts back.
LEMMA PutBack ==
    ASSUME TInv, NEW c \in Consumers, stage[c] # "idle", Redeliver(c) \/ Retry(c)
    PROVE  \/ UNCHANGED queue /\ task[c].event \in givenUp'
           \/ \E m \in Message : m.event = task[c].event /\ queue' = queue (+) SetToBag({m})
<1>1. task[c] \in Message
  BY DEF TInv, TasksTyped, Working
<1>2. CASE Redeliver(c)
  BY <1>1, <1>2 DEF Redeliver
<1>3. CASE Retry(c)
  BY <1>1, <1>3, RetriedMessage DEF Retry
<1> QED
  BY <1>2, <1>3

LEMMA RelayTyped ==
    ASSUME TInv, NEW l \in Relays, RelayStep(l) \/ AbortBatch(l)
    PROVE  TasksTyped' /\ NoticesTyped'
<1>1. CASE LockBatch(l) \/ CommitBatch(l) \/ AbortBatch(l)
  BY <1>1, ElsewhereTyped, OutboxAssumption
     DEF LockBatch, CommitBatch, AbortBatch, TInv, NoticesTyped, domainVars, historyVars
<1>2. CASE HandOver(l)
  <2>1. PICK e \in batch[l] \ handed[l] :
           /\ queue' = queue (+) SetToBag({[event |-> e, retry |-> 0]})
           /\ UNCHANGED <<domainVars, taskVars, noticeVars, accepted, lostSaves, givenUp, faults>>
    BY <1>2 DEF HandOver
  <2>2. /\ [event |-> e, retry |-> 0] \in Message
        /\ [event |-> e, retry |-> 0].event \in Recorded
    BY RecordedAreEvents, OutboxAssumption DEF TInv, IInv, OutboxTyped, Message
  <2>3. /\ IsABag(queue') /\ BagToSet(queue') \subseteq Message
        /\ \A x \in BagToSet(queue') : x.event \in Recorded
    BY <2>1, <2>2, QueueTyped
  <2>4. Recorded' = Recorded /\ \A c \in Consumers : Working(c)'
    BY <2>1 DEF TInv, TasksTyped, Working, domainVars, taskVars, Recorded
  <2> QED
    BY <2>1, <2>3, <2>4, NoticesStay DEF TInv, TasksTyped, taskVars
<1> QED
  BY <1>1, <1>2 DEF RelayStep

LEMMA ConsumerStepTyped ==
    ASSUME TInv, NEW c \in Consumers, ConsumerStep(c)
    PROVE  TasksTyped' /\ NoticesTyped'
<1> USE DEF domainVars, taskVars
<1>0. /\ IsABag(queue) /\ BagToSet(queue) \subseteq Message
      /\ \A x \in BagToSet(queue) : x.event \in Recorded
  BY DEF TInv, TasksTyped
<1>w. Working(c) /\ task[c] \in Message \cup {None} /\ unsaved[c] \in Citizens \cup {None}
      /\ todo[c] \in SUBSET Citizens
  BY DEF TInv, TasksTyped
<1>1. ASSUME NEW m \in Message, Take(c, m)
      PROVE  TasksTyped' /\ NoticesTyped'
  <2>1. m \in DOMAIN queue /\ m.event \in Recorded /\ queue' = queue (-) SetToBag({m})
    BY <1>0, <1>1 DEF Take, BagIn, BagToSet
  <2>2. IsABag(queue') /\ DOMAIN queue' \subseteq DOMAIN queue
    <3>1. OneMore(queue', m, queue)
      BY <1>0, <2>1, MessageTaken
    <3> QED
      BY <3>1 DEF OneMore
  <2>3. /\ IsABag(queue') /\ BagToSet(queue') \subseteq Message
        /\ \A x \in BagToSet(queue') : x.event \in Recorded
    BY <1>0, <2>2 DEF BagToSet
  <2>4. todo' = [todo EXCEPT ![c] = {}] /\ unsaved' = [unsaved EXCEPT ![c] = None]
    BY <1>1, <1>w DEF Take, Working, TInv, TasksTyped
  <2>5. TasksTyped'
    BY <1>1, <2>1, <2>3, <2>4, ConsumerTyped, OutboxAssumption DEF Take
  <2> QED
    BY <1>1, <2>5, NoticesStay DEF Take, historyVars
<1>2. CASE Generate(c)
  <2> DEFINE e == task[c].event
             told == Concerned(e)
             mailed == Recipients(outbox[e]) \cap EmailOn
  <2>1. /\ stage[c] = "taken" /\ stage' = [stage EXCEPT ![c] = "generated"]
        /\ inbox' = inbox \cup {<<e, u>> : u \in told}
        /\ email' = [n \in DOMAIN email |->
                       IF n[1] = e /\ n[2] \in mailed /\ email[n] = "none"
                         THEN "pending" ELSE email[n]]
        /\ UNCHANGED <<issueOf, standing, outbox, owed, queue, task, todo, unsaved,
                       accepted, lostSaves, givenUp, faults>>
    BY <1>2 DEF Generate, historyVars
  <2>2. told \subseteq Citizens /\ task[c].event \in Recorded /\ task[c] \in Message
    BY <1>w, <2>1, ConcernedAreCitizens DEF Working
  <2> HIDE DEF told, mailed
  <2>3. /\ task' = [task EXCEPT ![c] = task[c]]
        /\ todo' = [todo EXCEPT ![c] = {}] /\ unsaved' = [unsaved EXCEPT ![c] = None]
    BY <1>w, <2>1 DEF Working, TInv, TasksTyped
  <2>4. TasksTyped'
    BY <1>0, <2>1, <2>2, <2>3, ConsumerTyped, OutboxAssumption
  <2>5. inbox' \subseteq Recorded \X Citizens
    BY <2>1, <2>2 DEF TInv, NoticesTyped
  <2>6. email' \in [Events \X Citizens -> {"none", "pending", "sent"}]
    BY <2>1 DEF TInv, NoticesTyped
  <2> QED
    BY <2>1, <2>4, <2>5, <2>6 DEF TInv, NoticesTyped, Events, Recorded
<1>3. CASE ListMails(c)
  <2>1. task[c] \in Message /\ task[c].event \in Recorded /\ unsaved[c] = None
    BY <1>3, <1>w DEF ListMails, Working
  <2>2. task' = [task EXCEPT ![c] = task[c]] /\ unsaved' = [unsaved EXCEPT ![c] = None]
    BY <1>3, <2>1 DEF ListMails, TInv, TasksTyped
  <2>3. MailsToSend(task[c].event) \in SUBSET Citizens /\ None \notin Citizens
    BY OutboxAssumption DEF MailsToSend
  <2>4. TasksTyped'
    BY <1>0, <1>3, <2>1, <2>2, <2>3, ConsumerTyped DEF ListMails
  <2> QED
    BY <1>3, <2>4, NoticesStay DEF ListMails, historyVars
<1>4. ASSUME NEW u \in Citizens, SendMail(c, u)
      PROVE  TasksTyped' /\ NoticesTyped'
  <2>1. task[c] \in Message /\ task[c].event \in Recorded /\ stage[c] = "sending"
    BY <1>4, <1>w DEF SendMail, Working
  <2>2. task' = [task EXCEPT ![c] = task[c]] /\ stage' = [stage EXCEPT ![c] = "sending"]
        /\ todo' = [todo EXCEPT ![c] = todo[c] \ {u}] /\ unsaved' = [unsaved EXCEPT ![c] = u]
        /\ UNCHANGED <<outbox, queue>>
    BY <1>4, <2>1 DEF SendMail, TInv, TasksTyped
  <2>3. TasksTyped'
    <3>1. todo[c] \ {u} \in SUBSET Citizens /\ u \notin todo[c] \ {u}
      BY <1>w
    <3> QED
      BY <1>0, <2>1, <2>2, <3>1, ConsumerTyped
  <2>4. accepted' \in [Events \X Citizens -> Nat]
    <3> DEFINE pairs == Events \X Citizens
    <3>1. PICK n \in pairs : accepted' = [accepted EXCEPT ![n] = @ + 1]
      BY <1>4, <2>1 DEF SendMail, Message
    <3>2. accepted \in [pairs -> Nat]
      BY DEF TInv, NoticesTyped
    <3> HIDE DEF pairs
    <3>3. accepted' \in [pairs -> Nat]
      BY <3>1, <3>2
    <3> QED
      BY <3>3 DEF pairs
  <2> QED
    BY <1>4, <2>3, <2>4 DEF SendMail, TInv, NoticesTyped, noticeVars, Events, Recorded
<1>5. CASE SaveSent(c)
  <2>1. task[c] \in Message /\ task[c].event \in Recorded /\ stage[c] = "sending"
        /\ unsaved[c] \in Citizens
    BY <1>5, <1>w, OutboxAssumption DEF SaveSent, Working, TInv, TasksTyped
  <2>2. task' = [task EXCEPT ![c] = task[c]] /\ stage' = [stage EXCEPT ![c] = "sending"]
        /\ todo' = [todo EXCEPT ![c] = todo[c]] /\ unsaved' = [unsaved EXCEPT ![c] = None]
        /\ UNCHANGED <<outbox, queue>>
    BY <1>5, <2>1 DEF SaveSent, TInv, TasksTyped
  <2>3. TasksTyped'
    BY <1>0, <1>w, <2>1, <2>2, ConsumerTyped, OutboxAssumption
  <2>4. email' \in [Events \X Citizens -> {"none", "pending", "sent"}]
    BY <1>5 DEF SaveSent, TInv, NoticesTyped
  <2> QED
    BY <1>5, <2>3, <2>4 DEF SaveSent, TInv, NoticesTyped, historyVars, Events, Recorded
<1>6. CASE Acknowledge(c)
  BY <1>6, TaskEnded, NoticesStay DEF Acknowledge, historyVars
<1> QED
  BY <1>1, <1>2, <1>3, <1>4, <1>5, <1>6 DEF ConsumerStep

LEMMA FailureTyped ==
    ASSUME TInv, NEW c \in Consumers, ConsumerDies(c) \/ CallFails(c)
    PROVE  TasksTyped' /\ NoticesTyped'
<1>1. /\ stage[c] # "idle" /\ EndTask(c) /\ CountLostSave(c)
      /\ Redeliver(c) \/ Retry(c)
      /\ faults' = faults + 1 /\ faults < MaxFaults
      /\ UNCHANGED <<issueOf, standing, outbox, owed, inbox, email, accepted>>
      /\ UNCHANGED givenUp \/ givenUp' = givenUp \cup {task[c].event}
  BY DEF ConsumerDies, CallFails, Retry, domainVars, noticeVars
<1>2. task[c] \in Message /\ task[c].event \in Events
  BY <1>1 DEF TInv, TasksTyped, Working, Message
<1>3. TasksTyped'
  BY <1>1, PutBack, TaskEnded
<1>4. lostSaves' \in [Events -> Nat]
  BY <1>1, <1>2 DEF CountLostSave, TInv, NoticesTyped
<1>5. faults' \in 0 .. MaxFaults
  BY <1>1, OutboxAssumption DEF TInv, NoticesTyped
<1>6. givenUp' \subseteq Events
  BY <1>1, <1>2 DEF TInv, NoticesTyped
<1> QED
  BY <1>1, <1>3, <1>4, <1>5, <1>6 DEF TInv, NoticesTyped, Events, Recorded

LEMMA TypedInitially == Init => TInv
  BY Initially, TypesInitially DEF TInv

LEMMA TypedStepwise == TInv /\ [Next]_vars => TInv'
<1> SUFFICES ASSUME TInv, [Next]_vars PROVE TInv'
  OBVIOUS
<1>1. IInv'
  BY Stepwise DEF TInv
<1>2. faults \in 0 .. MaxFaults
  BY DEF TInv, NoticesTyped
<1>3. CASE \E i \in Issues : ChangeStatus(i)
  BY <1>1, <1>2, <1>3, ElsewhereTyped DEF ChangeStatus, TInv, NoticesTyped, historyVars
<1>4. CASE \E s, a \in Issues : MergeIssues(s, a)
  <2>1. PICK s, a \in Issues : MergeIssues(s, a)
    BY <1>4
  <2>2. issueOf' \in [Reports -> Issues \cup {None}]
    BY <2>1 DEF MergeIssues, TInv, NoticesTyped
  <2> QED
    BY <1>1, <1>2, <2>1, <2>2, ElsewhereTyped DEF MergeIssues, TInv, NoticesTyped, historyVars
<1>s. CASE \E i, n \in Issues, moved \in SUBSET Reports : SplitIssue(i, n, moved)
  <2>1. PICK i, n \in Issues, moved \in SUBSET Reports : SplitIssue(i, n, moved)
    BY <1>s
  <2>2. issueOf' \in [Reports -> Issues \cup {None}]
    BY <2>1 DEF SplitIssue, TInv, NoticesTyped
  <2> QED
    BY <1>1, <1>2, <2>1, <2>2, ElsewhereTyped DEF SplitIssue, TInv, NoticesTyped, historyVars
<1>5. CASE \E r \in Reports, i \in Issues : JoinIssue(r, i)
  <2>1. PICK r \in Reports, i \in Issues : JoinIssue(r, i)
    BY <1>5
  <2>2. issueOf' \in [Reports -> Issues \cup {None}]
    BY <2>1 DEF JoinIssue, TInv, NoticesTyped
  <2> QED
    BY <1>1, <1>2, <2>1, <2>2, ElsewhereTyped DEF JoinIssue, TInv, NoticesTyped, historyVars
<1>a. CASE \E u \in Citizens, s \in Standings : ChangeStanding(u, s)
  <2>1. PICK u \in Citizens, s \in Standings : ChangeStanding(u, s)
    BY <1>a
  <2>2. standing' \in [Citizens -> Standings]
    BY <2>1 DEF ChangeStanding, TInv, NoticesTyped
  <2> QED
    BY <1>1, <1>2, <2>1, <2>2, ElsewhereTyped
       DEF ChangeStanding, TInv, NoticesTyped, historyVars
<1>6. CASE \E l \in Relays : RelayStep(l) \/ AbortBatch(l)
  BY <1>1, <1>6, RelayTyped DEF TInv
<1>7. CASE \E c \in Consumers : ConsumerStep(c)
  BY <1>1, <1>7, ConsumerStepTyped DEF TInv
<1>8. CASE \E c \in Consumers : ConsumerDies(c) \/ CallFails(c)
  BY <1>1, <1>8, FailureTyped DEF TInv
<1>9. CASE UNCHANGED vars
  BY <1>1, <1>2, <1>9, ElsewhereTyped
     DEF vars, domainVars, historyVars, TInv, NoticesTyped
<1> QED
  BY <1>3, <1>4, <1>s, <1>5, <1>a, <1>6, <1>7, <1>8, <1>9 DEF Next

\* A message in hand or in the broker is of a recorded event, an idle consumer
\* holds none, and the counters of the history stay natural numbers.
THEOREM TypeCorrect == Spec => []TypeOK
<1>1. TInv => TypeOK
  BY DEF TInv, IInv, OutboxTyped, RowsLocked, TasksTyped, NoticesTyped, TypeOK
<1> QED
  BY <1>1, TypedInitially, TypedStepwise, PTL DEF Spec

-----------------------------------------------------------------------------
(***************************************************************************)
(* No committed change is lost.                                            *)
(***************************************************************************)
\* Whom an event is still owed to, the next run of its task would tell.
OwedStay == \A e \in Recorded : owed[e] \subseteq Concerned(e)

Informed ==
    \A c \in Consumers : stage[c] \in {"generated", "sending"} => Notified(task[c].event)

Delivered ==
    \A e \in Recorded : HandedOver(e) => e \in givenUp \/ InFlight(e) \/ Notified(e)

DInv == OwedStay /\ Informed /\ Delivered

LEMMA MessageThere ==
    ASSUME TInv, NEW m, queue' = queue (+) SetToBag({m})
    PROVE  BagToSet(queue') = BagToSet(queue) \cup {m}
<1>1. IsABag(queue)
  BY DEF TInv, TasksTyped
<1>2. DOMAIN queue' = DOMAIN queue \cup {m}
  BY <1>1, MessageAdded DEF OneMore
<1> QED
  BY <1>2 DEF BagToSet

LEMMA RowsStep ==
    ASSUME TInv, [Next]_vars
    PROVE  /\ UNCHANGED outbox \/ \E i \in Issues : RecordStatusChanged(i)
           /\ inbox \subseteq inbox' /\ givenUp \subseteq givenUp'
<1>1. CASE \E i \in Issues : ChangeStatus(i)
  BY <1>1 DEF ChangeStatus, noticeVars, historyVars
<1>2. CASE \E s, a \in Issues : MergeIssues(s, a)
  BY <1>2 DEF MergeIssues, noticeVars, historyVars
<1>3. CASE \/ \E r \in Reports, i \in Issues : JoinIssue(r, i)
           \/ \E i, n \in Issues, moved \in SUBSET Reports : SplitIssue(i, n, moved)
           \/ \E u \in Citizens, s \in Standings : ChangeStanding(u, s)
  BY <1>3 DEF JoinIssue, SplitIssue, ChangeStanding, noticeVars, historyVars
<1>4. CASE \E l \in Relays : RelayStep(l) \/ AbortBatch(l)
  BY <1>4 DEF RelayStep, LockBatch, HandOver, CommitBatch, AbortBatch,
              domainVars, noticeVars, historyVars
<1>5. CASE \E c \in Consumers : ConsumerStep(c)
  BY <1>5 DEF ConsumerStep, Take, Generate, ListMails, SendMail, SaveSent, Acknowledge,
              domainVars, noticeVars, historyVars
<1>6. CASE \E c \in Consumers : ConsumerDies(c) \/ CallFails(c)
  BY <1>6 DEF ConsumerDies, CallFails, Retry, domainVars, noticeVars
<1>7. CASE UNCHANGED vars
  BY <1>7 DEF vars, domainVars, noticeVars, historyVars
<1> QED
  BY <1>1, <1>2, <1>3, <1>4, <1>5, <1>6, <1>7 DEF Next

\* A Report that joins takes nobody's notification away.
LEMMA JoinConcerns ==
    ASSUME TInv, NEW r \in Reports, NEW i \in Issues, JoinIssue(r, i), NEW e \in Recorded
    PROVE  Concerned(e) \subseteq Concerned(e)'
<1>1. /\ issueOf[r] = None /\ issueOf' = [issueOf EXCEPT ![r] = i]
      /\ issueOf \in [Reports -> Issues \cup {None}]
      /\ outbox[e] \in Issues /\ outbox'[e] = outbox[e] /\ standing' = standing
  BY DEF JoinIssue, TInv, IInv, OutboxTyped, NoticesTyped, Recorded
<1>2. \A q \in Reports : issueOf[q] = outbox[e] => issueOf'[q] = outbox[e]
  BY <1>1, OutboxAssumption
<1>3. Authors(outbox[e]) \subseteq Authors(outbox[e])'
  BY <1>1, <1>2 DEF Authors
<1> QED
  BY <1>1, <1>3 DEF Concerned, Notifiable, Recipients

\* Who is owed a notification can still be given it; the number of those only
\* shrinks once the event is recorded.
LEMMA OwedStep ==
    ASSUME TInv, OwedStay, [Next]_vars
    PROVE  OwedStay' /\ \A e \in Recorded : owed'[e] \subseteq owed[e]
<1>1. Recorded \subseteq Recorded' /\ Recorded' \subseteq Events
  <2>1. TInv'
    BY TypedStepwise
  <2>2. (Recorded \subseteq Events)'
    BY <2>1, OutboxAssumption DEF TInv, IInv, OutboxTyped, Recorded, Events
  <2>3. Recorded \subseteq Recorded'
    BY RowsStep, RowsTyped
  <2> QED
    BY <2>2, <2>3
<1>2. CASE OwedStill
  <2> DEFINE still(e) == CASE e \in Recorded -> owed[e] \cap Concerned(e)'
                           [] e \in Recorded' \ Recorded -> Concerned(e)'
                           [] OTHER -> {}
  <2>1. owed' = [e \in Events |-> still(e)]
    BY <1>2 DEF OwedStill
  <2>2. /\ \A e \in Recorded : still(e) \subseteq owed[e]
        /\ \A e \in Recorded' : still(e) \subseteq Concerned(e)'
    BY <1>1
  <2> HIDE DEF still
  <2>3. /\ \A e \in Recorded : owed'[e] \subseteq owed[e]
        /\ \A e \in Recorded' : owed'[e] \subseteq Concerned(e)'
    BY <1>1, <2>1, <2>2
  <2> QED
    BY <2>3 DEF OwedStay
<1>3. CASE UNCHANGED domainVars
  BY <1>3 DEF OwedStay, Concerned, Notifiable, Recipients, Authors, Recorded, domainVars
<1>4. CASE \E r \in Reports, i \in Issues : JoinIssue(r, i)
  <2>1. PICK r \in Reports, i \in Issues : JoinIssue(r, i)
    BY <1>4
  <2>2. UNCHANGED <<outbox, owed>>
    BY <2>1 DEF JoinIssue
  <2>3. \A e \in Recorded : Concerned(e) \subseteq Concerned(e)'
    BY <2>1, JoinConcerns
  <2> QED
    BY <2>2, <2>3 DEF OwedStay, Recorded
<1>5. \/ OwedStill \/ UNCHANGED domainVars
      \/ \E r \in Reports, i \in Issues : JoinIssue(r, i)
  BY DEF Next, vars, ChangeStatus, MergeIssues, SplitIssue, ChangeStanding, RelayStep,
         LockBatch, HandOver, CommitBatch, AbortBatch, ConsumerStep, Take, Generate,
         ListMails, SendMail, SaveSent, Acknowledge, ConsumerDies, CallFails
<1> QED
  BY <1>2, <1>3, <1>4, <1>5

LEMMA NotifiedStep ==
    ASSUME TInv, OwedStay, [Next]_vars, NEW e \in Recorded, Notified(e)
    PROVE  Notified(e)'
<1>1. owed'[e] \subseteq owed[e] /\ inbox \subseteq inbox'
  BY OwedStep, RowsStep
<1> QED
  BY <1>1 DEF Notified

\* A consumer past the generation has left the rows of its event.
LEMMA InformedStep ==
    ASSUME TInv, DInv, [Next]_vars
    PROVE  Informed'
<1>1. \A e \in Recorded : Notified(e) => Notified(e)'
  BY NotifiedStep DEF DInv
<1> SUFFICES ASSUME NEW c \in Consumers, stage'[c] \in {"generated", "sending"}
             PROVE  Notified(task[c].event)'
  BY DEF Informed
<1>2. CASE stage[c] \in {"generated", "sending"} /\ task'[c] = task[c]
  <2>1. task[c].event \in Recorded /\ Notified(task[c].event)
    BY <1>2 DEF DInv, Informed, TInv, TasksTyped, Working
  <2> QED
    BY <1>1, <1>2, <2>1 DEF Notified
<1>3. CASE Generate(c)
  <2> DEFINE e == task[c].event
  <2>1. /\ inbox' = inbox \cup {<<e, u>> : u \in Concerned(e)}
        /\ UNCHANGED <<owed, task>> /\ stage[c] = "taken"
    BY <1>3 DEF Generate, domainVars
  <2>2. owed[e] \subseteq Concerned(e)
    BY <2>1 DEF DInv, OwedStay, TInv, TasksTyped, Working
  <2>3. \A u \in owed[e] : <<e, u>> \in inbox'
    BY <2>1, <2>2
  <2> QED
    BY <2>1, <2>3 DEF Notified
<1>4. (stage[c] \in {"generated", "sending"} /\ task'[c] = task[c]) \/ Generate(c)
  <2> DEFINE Goal == (stage[c] \in {"generated", "sending"} /\ task'[c] = task[c]) \/ Generate(c)
  <2>0. /\ task \in [Consumers -> Message \cup {None}]
        /\ stage \in [Consumers -> {"idle", "taken", "generated", "sending"}]
    BY DEF TInv, TasksTyped
  <2>1. ASSUME NEW d \in Consumers, ConsumerStep(d)
        PROVE  Goal
    <3>1. CASE \E m \in Message : Take(d, m)
      BY <2>0, <3>1 DEF Take
    <3>2. CASE Generate(d)
      <4>1. stage' = [stage EXCEPT ![d] = "generated"] /\ UNCHANGED task
        BY <3>2 DEF Generate
      <4> QED
        BY <2>0, <3>2, <4>1
    <3>3. CASE (\E u \in Citizens : SendMail(d, u)) \/ SaveSent(d)
      BY <2>0, <3>3 DEF SendMail, SaveSent
    <3>4. CASE ListMails(d) \/ Acknowledge(d)
      BY <2>0, <3>4 DEF ListMails, Acknowledge, EndTask
    <3> QED
      BY <2>1, <3>1, <3>2, <3>3, <3>4 DEF ConsumerStep
  <2>2. ASSUME NEW d \in Consumers, ConsumerDies(d) \/ CallFails(d)
        PROVE  stage[c] \in {"generated", "sending"} /\ task'[c] = task[c]
    BY <2>2 DEF ConsumerDies, CallFails, EndTask, TInv, TasksTyped
  <2>3. CASE UNCHANGED taskVars
    BY <2>3 DEF taskVars
  <2>4. \/ UNCHANGED taskVars
        \/ \E d \in Consumers : ConsumerStep(d) \/ ConsumerDies(d) \/ CallFails(d)
    BY DEF Next, vars, ChangeStatus, MergeIssues, SplitIssue, JoinIssue, ChangeStanding,
           RelayStep, LockBatch, HandOver, CommitBatch, AbortBatch
  <2> QED
    BY <2>1, <2>2, <2>3, <2>4
<1> QED
  BY <1>2, <1>3, <1>4

\* Only a call of the broker makes an event a handed over one.
LEMMA HandedOverStep ==
    ASSUME TInv, [Next]_vars, NEW e \in Recorded', HandedOver(e)'
    PROVE  \/ HandedOver(e)
           \/ \E m \in BagToSet(queue') : m.event = e
<1>1. CASE UNCHANGED relayVars
  BY <1>1 DEF relayVars, HandedOver
<1>2. ASSUME NEW l \in Relays, LockBatch(l) \/ CommitBatch(l) \/ AbortBatch(l)
      PROVE  HandedOver(e)
  BY <1>2 DEF LockBatch, CommitBatch, AbortBatch, AbortBatchMarks, HandedOver,
              TInv, IInv, OutboxTyped
<1>3. ASSUME NEW l \in Relays, HandOver(l)
      PROVE  HandedOver(e) \/ \E m \in BagToSet(queue') : m.event = e
  <2>1. PICK d \in batch[l] \ handed[l] :
           /\ queue' = queue (+) SetToBag({[event |-> d, retry |-> 0]})
           /\ handed' = [handed EXCEPT ![l] = @ \cup {d}]
           /\ UNCHANGED published
    BY <1>3 DEF HandOver
  <2>2. CASE e = d
    <3>1. [event |-> d, retry |-> 0] \in BagToSet(queue')
      BY <2>1, MessageThere
    <3> QED
      BY <2>2, <3>1
  <2>3. CASE e # d
    BY <2>1, <2>3 DEF HandedOver, TInv, IInv, OutboxTyped
  <2> QED
    BY <2>2, <2>3
<1>4. \/ UNCHANGED relayVars
      \/ \E l \in Relays : LockBatch(l) \/ CommitBatch(l) \/ AbortBatch(l) \/ HandOver(l)
  BY DEF Next, vars, ChangeStatus, MergeIssues, SplitIssue, JoinIssue, ChangeStanding,
         RelayStep, ConsumerStep, Take, Generate, ListMails, SendMail, SaveSent, Acknowledge, ConsumerDies, CallFails
<1> QED
  BY <1>1, <1>2, <1>3, <1>4

\* A message is somewhere until its task has told the reporters or run out of
\* retries.
LEMMA InFlightStep ==
    ASSUME TInv, DInv, [Next]_vars, NEW e \in Recorded, InFlight(e)
    PROVE  e \in givenUp' \/ InFlight(e)' \/ Notified(e)
<1>0. /\ IsABag(queue) /\ task \in [Consumers -> Message \cup {None}] /\ None \notin Message
      /\ \A c \in Consumers : Working(c)
  BY NoneAssumption DEF TInv, TasksTyped
<1>1. CASE BagToSet(queue) \subseteq BagToSet(queue') /\ UNCHANGED task
  BY <1>1 DEF InFlight
<1>2. ASSUME NEW l \in Relays, HandOver(l)
      PROVE  BagToSet(queue) \subseteq BagToSet(queue') /\ UNCHANGED task
  <2>1. PICK m : queue' = queue (+) SetToBag({m}) /\ UNCHANGED task
    BY <1>2 DEF HandOver, taskVars
  <2> QED
    BY <2>1, MessageThere
<1>3. ASSUME NEW c \in Consumers, NEW m \in Message, Take(c, m)
      PROVE  InFlight(e)'
  <2>1. /\ m \in DOMAIN queue /\ stage[c] = "idle" /\ queue' = queue (-) SetToBag({m})
        /\ task' = [task EXCEPT ![c] = m]
    BY <1>3 DEF Take, BagIn, BagToSet
  <2>2. task[c] = None /\ DOMAIN queue \ {m} \subseteq DOMAIN queue'
    <3>1. OneMore(queue', m, queue)
      BY <1>0, <2>1, MessageTaken
    <3> QED
      BY <1>0, <2>1, <3>1 DEF OneMore, Working
  <2>3. CASE m.event = e
    BY <1>0, <2>1, <2>3 DEF InFlight
  <2>4. CASE m.event # e
    BY <1>0, <2>1, <2>2, <2>4 DEF InFlight, BagToSet
  <2> QED
    BY <2>3, <2>4
<1>4. ASSUME NEW c \in Consumers, Acknowledge(c)
      PROVE  InFlight(e)' \/ Notified(e)
  <2>1. CASE task[c].event = e
    BY <1>4, <2>1 DEF Acknowledge, DInv, Informed
  <2>2. CASE task[c].event # e
    BY <1>0, <1>4, <2>2 DEF Acknowledge, EndTask, InFlight
  <2> QED
    BY <2>1, <2>2
<1>5. ASSUME NEW c \in Consumers, ConsumerDies(c) \/ CallFails(c)
      PROVE  e \in givenUp' \/ InFlight(e)'
  <2>1. stage[c] # "idle" /\ task' = [task EXCEPT ![c] = None] /\ (Redeliver(c) \/ Retry(c))
    BY <1>5 DEF ConsumerDies, CallFails, EndTask
  <2>2. \/ UNCHANGED queue /\ task[c].event \in givenUp'
        \/ \E m \in Message : m.event = task[c].event /\ queue' = queue (+) SetToBag({m})
    BY <2>1, PutBack
  <2>3. /\ BagToSet(queue) \subseteq BagToSet(queue')
        /\ task[c].event \in givenUp' \/ \E m \in BagToSet(queue') : m.event = task[c].event
    BY <2>2, MessageThere
  <2> QED
    BY <1>0, <2>1, <2>3 DEF InFlight
<1>6. \/ UNCHANGED <<queue, task>>
      \/ \E l \in Relays : HandOver(l)
      \/ \E c \in Consumers : \/ \E m \in Message : Take(c, m)
                              \/ Acknowledge(c) \/ ConsumerDies(c) \/ CallFails(c)
  BY DEF Next, vars, ChangeStatus, MergeIssues, SplitIssue, JoinIssue, ChangeStanding,
         RelayStep, LockBatch, CommitBatch, AbortBatch, ConsumerStep, Generate, ListMails, SendMail, SaveSent, taskVars
<1> QED
  BY <1>1, <1>2, <1>3, <1>4, <1>5, <1>6

LEMMA DeliveredInitially == Init => DInv
  BY DEF Init, DInv, OwedStay, Informed, Delivered, HandedOver, Recorded

LEMMA DeliveredStepwise == TInv /\ DInv /\ [Next]_vars => DInv'
<1> SUFFICES ASSUME TInv, DInv, [Next]_vars PROVE DInv'
  OBVIOUS
<1>1. OwedStay' /\ \A e \in Recorded : Notified(e) => Notified(e)'
  BY OwedStep, NotifiedStep DEF DInv
<1>2. ASSUME NEW e \in Recorded', HandedOver(e)'
      PROVE  e \in givenUp' \/ InFlight(e)' \/ Notified(e)'
  <2>1. CASE HandedOver(e)
    <3>1. e \in Recorded
      BY <2>1 DEF HandedOver, TInv, IInv, OutboxTyped
    <3>2. e \in givenUp \/ InFlight(e) \/ Notified(e)
      BY <2>1, <3>1 DEF DInv, Delivered
    <3> QED
      BY <1>1, <3>1, <3>2, InFlightStep, RowsStep
  <2>2. CASE \E m \in BagToSet(queue') : m.event = e
    BY <2>2 DEF InFlight
  <2> QED
    BY <1>2, <2>1, <2>2, HandedOverStep
<1> QED
  BY <1>1, <1>2, InformedStep DEF DInv, Delivered

\* Architecture section 7.1, FR-27: a committed status change that was
\* published and has no message left in the broker or in a worker's hands has
\* reached everybody it is still owed to, unless the retries of a message ran out:
\* whatever dies, is refused or is delivered twice.
THEOREM SettledCorrect == Spec => []SettledEventsNotified
<1>1. DInv => SettledEventsNotified
  BY DEF DInv, Delivered, HandedOver, SettledEventsNotified, Settled
<1> QED
  BY <1>1, TypedInitially, TypedStepwise, DeliveredInitially, DeliveredStepwise, PTL DEF Spec

-----------------------------------------------------------------------------
(***************************************************************************)
(* No mail too many: every copy of a message in the broker, and every      *)
(* consumer that holds one, is a right to send one mail, which a hand-over *)
(* or a lost save creates, the acknowledgement and the "sent" row destroy, *)
(* and all other steps pass on.                                            *)
(***************************************************************************)
\* May the task of a consumer send the email of the event to the citizen?
MaySend(c, e, u) ==
    /\ stage[c] # "idle" /\ task[c].event = e /\ unsaved[c] # u
    /\ email[<<e, u>>] # "sent" \/ u \in todo[c]

Sending(e, u) == {c \in Consumers : MaySend(c, e, u)}

Unsent(e, u) == IF email[<<e, u>>] = "sent" THEN {} ELSE Copies(queue, e)

\* A mail was sent, or may be sent, once for each hand-over and each lost save.
MailsAccounted ==
    \A e \in Events, u \in Citizens :
        /\ IsFiniteSet(Copies(queue, e)) /\ IsFiniteSet(Sending(e, u))
        /\ accepted[<<e, u>>] + Cardinality(Unsent(e, u)) + Cardinality(Sending(e, u))
               <= handoffs[e] + lostSaves[e]

\* What one step may do with the rights to send the mail of e to u.
CopyMore(e)   == \E x : Copies(queue, e)' \subseteq Copies(queue, e) \cup {x}
RightMore(e, u)  == \E x : Unsent(e, u)' \subseteq Unsent(e, u) \cup {x}
RightLess(e, u)  == \E x \in Unsent(e, u) : Unsent(e, u)' \subseteq Unsent(e, u) \ {x}
SenderMore(e, u) == \E c : Sending(e, u)' \subseteq Sending(e, u) \cup {c}
SenderLess(e, u) == \E c \in Sending(e, u) : Sending(e, u)' \subseteq Sending(e, u) \ {c}
RightKept(e, u)  == Unsent(e, u)' \subseteq Unsent(e, u)
SenderKept(e, u) == Sending(e, u)' \subseteq Sending(e, u)

SameMails(e, u)  == accepted'[<<e, u>>] = accepted[<<e, u>>]
SameCauses(e) == handoffs'[e] + lostSaves'[e] >= handoffs[e] + lostSaves[e]
OneCause(e)   == handoffs'[e] + lostSaves'[e] >= handoffs[e] + lostSaves[e] + 1

Exchange(e, u) ==
    \/ SameMails(e, u) /\ SameCauses(e) /\ RightKept(e, u) /\ SenderKept(e, u)
    \/ SameMails(e, u) /\ OneCause(e) /\ RightMore(e, u) /\ SenderKept(e, u)
    \/ SameMails(e, u) /\ SameCauses(e) /\ RightLess(e, u) /\ SenderMore(e, u)
    \/ SameMails(e, u) /\ SameCauses(e) /\ RightMore(e, u) /\ SenderLess(e, u)
    \/ /\ accepted'[<<e, u>>] = accepted[<<e, u>>] + 1
       /\ SameCauses(e) /\ RightKept(e, u) /\ SenderLess(e, u)

LEMMA SetMore ==
    ASSUME NEW S, NEW T, NEW x, IsFiniteSet(S), T \subseteq S \cup {x}
    PROVE  IsFiniteSet(T) /\ Cardinality(T) <= Cardinality(S) + 1
<1>0. Cardinality(S) \in Nat
  BY FS_CardinalityType
<1>1. IsFiniteSet(S \cup {x}) /\ Cardinality(S \cup {x}) <= Cardinality(S) + 1
  <2>1. /\ IsFiniteSet(S \cup {x})
        /\ Cardinality(S \cup {x}) = IF x \in S THEN Cardinality(S) ELSE Cardinality(S) + 1
    BY FS_AddElement
  <2> QED
    BY <1>0, <2>1
<1>2. IsFiniteSet(T) /\ Cardinality(T) <= Cardinality(S \cup {x})
  BY <1>1, FS_Subset
<1> QED
  BY <1>0, <1>1, <1>2, FS_CardinalityType

LEMMA SetLess ==
    ASSUME NEW S, NEW T, NEW x \in S, IsFiniteSet(S), T \subseteq S \ {x}
    PROVE  IsFiniteSet(T) /\ Cardinality(T) + 1 <= Cardinality(S)
<1>1. IsFiniteSet(S \ {x}) /\ Cardinality(S) \in Nat
      /\ Cardinality(S \ {x}) = Cardinality(S) - 1
  BY FS_RemoveElement, FS_CardinalityType
<1>2. IsFiniteSet(T) /\ Cardinality(T) <= Cardinality(S \ {x})
  BY <1>1, FS_Subset
<1> QED
  BY <1>1, <1>2, FS_CardinalityType

\* No exchange makes more mails than there are causes.
LEMMA ExchangeKeeps ==
    ASSUME TInv, TInv', MailsAccounted,
           \A e \in Events, u \in Citizens : CopyMore(e) /\ Exchange(e, u)
    PROVE  MailsAccounted'
<1> SUFFICES ASSUME NEW e \in Events, NEW u \in Citizens
             PROVE  /\ IsFiniteSet(Copies(queue, e))' /\ IsFiniteSet(Sending(e, u))'
                    /\ accepted'[<<e, u>>] + Cardinality(Unsent(e, u))' + Cardinality(Sending(e, u))'
                           <= handoffs'[e] + lostSaves'[e]
  BY DEF MailsAccounted
<1> DEFINE a == accepted[<<e, u>>]    b == accepted'[<<e, u>>]
           h == handoffs[e] + lostSaves[e]  g == handoffs'[e] + lostSaves'[e]
           Q == Unsent(e, u)   S == Sending(e, u)
           R == Unsent(e, u)'  T == Sending(e, u)'
<1>1. a \in Nat /\ b \in Nat /\ h \in Nat /\ g \in Nat
  BY DEF TInv, NoticesTyped, IInv, OutboxTyped
<1>2. IsFiniteSet(Copies(queue, e)) /\ IsFiniteSet(S) /\ a + Cardinality(Q) + Cardinality(S) <= h
  BY DEF MailsAccounted
<1>3. IsFiniteSet(Copies(queue, e))'
  BY <1>2, SetMore DEF CopyMore
<1>4. IsFiniteSet(Q) /\ IsFiniteSet(R)
  BY <1>2, <1>3, FS_EmptySet DEF Unsent
<1>5. Exchange(e, u)
  OBVIOUS
<1>6. \/ b = a /\ g >= h /\ R \subseteq Q /\ T \subseteq S
      \/ b = a /\ g >= h + 1 /\ (\E x : R \subseteq Q \cup {x}) /\ T \subseteq S
      \/ b = a /\ g >= h /\ (\E x \in Q : R \subseteq Q \ {x}) /\ (\E c : T \subseteq S \cup {c})
      \/ b = a /\ g >= h /\ (\E x : R \subseteq Q \cup {x}) /\ (\E c \in S : T \subseteq S \ {c})
      \/ b = a + 1 /\ g >= h /\ R \subseteq Q /\ (\E c \in S : T \subseteq S \ {c})
  BY <1>5 DEF Exchange, SameMails, SameCauses, OneCause, RightMore, RightLess, RightKept,
              SenderMore, SenderLess, SenderKept
<1> HIDE DEF a, b, h, g, Q, S, R, T
<1>7. IsFiniteSet(T)
  BY <1>2, <1>6, SetMore, SetLess, FS_Subset
<1>8. /\ Cardinality(Q) \in Nat /\ Cardinality(R) \in Nat
      /\ Cardinality(S) \in Nat /\ Cardinality(T) \in Nat
  BY <1>2, <1>4, <1>7, FS_CardinalityType
<1>9. /\ R \subseteq Q => Cardinality(R) <= Cardinality(Q)
      /\ T \subseteq S => Cardinality(T) <= Cardinality(S)
  BY <1>2, <1>4, FS_Subset
<1>10. /\ (\E x : R \subseteq Q \cup {x}) => Cardinality(R) <= Cardinality(Q) + 1
       /\ (\E x \in Q : R \subseteq Q \ {x}) => Cardinality(R) + 1 <= Cardinality(Q)
       /\ (\E c : T \subseteq S \cup {c}) => Cardinality(T) <= Cardinality(S) + 1
       /\ (\E c \in S : T \subseteq S \ {c}) => Cardinality(T) + 1 <= Cardinality(S)
  BY <1>2, <1>4, SetMore, SetLess
<1>11. b + Cardinality(R) + Cardinality(T) <= g
  BY <1>1, <1>2, <1>6, <1>8, <1>9, <1>10
<1> QED
  BY <1>3, <1>7, <1>11 DEF b, g, R, T

LEMMA MailsElsewhere ==
    ASSUME UNCHANGED <<queue, taskVars, email, accepted, handoffs, lostSaves>>,
           TInv, NEW e \in Events, NEW u \in Citizens
    PROVE  CopyMore(e) /\ Exchange(e, u)
<1>1. Copies(queue, e)' = Copies(queue, e)
  BY DEF Copies
<1>2. Unsent(e, u)' = Unsent(e, u) /\ Sending(e, u)' = Sending(e, u)
  BY <1>1 DEF Unsent, Sending, MaySend, taskVars
<1>3. handoffs[e] + lostSaves[e] \in Nat
  BY DEF TInv, NoticesTyped, IInv, OutboxTyped
<1> QED
  BY <1>1, <1>2, <1>3 DEF CopyMore, Exchange, SameMails, SameCauses, RightKept, SenderKept

LEMMA MailsHandOver ==
    ASSUME TInv, NEW l \in Relays, HandOver(l), NEW e \in Events, NEW u \in Citizens
    PROVE  CopyMore(e) /\ Exchange(e, u)
<1>1. PICK d \in batch[l] \ handed[l] :
         /\ queue' = queue (+) SetToBag({[event |-> d, retry |-> 0]})
         /\ handoffs' = [handoffs EXCEPT ![d] = @ + 1]
         /\ UNCHANGED <<taskVars, email, accepted, lostSaves>>
  BY DEF HandOver, noticeVars
<1>2. /\ [event |-> d, retry |-> 0] \in Message /\ d \in Events /\ IsABag(queue)
      /\ handoffs \in [Events -> Nat] /\ lostSaves[e] \in Nat
  BY RecordedAreEvents, OutboxAssumption DEF TInv, IInv, OutboxTyped, TasksTyped, NoticesTyped, Message
<1>3. /\ d # e => Copies(queue, e)' = Copies(queue, e)
      /\ d = e => \E x : Copies(queue, e)' = Copies(queue, e) \cup {x}
  <2> DEFINE m == [event |-> d, retry |-> 0]
  <2>1. m \in Message /\ m.event = d /\ OneMore(queue, m, queue')
    BY <1>1, <1>2, MessageAdded
  <2>2. Copies(queue, e)' = Copies(queue', e)
    BY DEF Copies
  <2> HIDE DEF m
  <2>3. CASE d # e
    BY <2>1, <2>2, <2>3, CopyAdded
  <2>4. CASE d = e
    <3>1. PICK x : x \notin Copies(queue, e) /\ Copies(queue', e) = Copies(queue, e) \cup {x}
      BY <2>1, <2>4, CopyAdded
    <3> QED
      BY <2>2, <2>4, <3>1
  <2> QED
    BY <2>3, <2>4
<1>4. SenderKept(e, u) /\ SameMails(e, u) /\ email' = email
  BY <1>1 DEF SenderKept, SameMails, Sending, MaySend, taskVars
<1>5. CASE d = e
  <2>1. OneCause(e)
    BY <1>1, <1>2, <1>5 DEF OneCause
  <2>2. CopyMore(e) /\ RightMore(e, u)
    BY <1>3, <1>4, <1>5 DEF CopyMore, RightMore, Unsent
  <2> QED
    BY <1>4, <2>1, <2>2 DEF Exchange
<1>6. CASE d # e
  <2>1. SameCauses(e)
    BY <1>1, <1>2, <1>6 DEF SameCauses
  <2>2. CopyMore(e) /\ RightKept(e, u)
    BY <1>3, <1>4, <1>6 DEF CopyMore, RightKept, Unsent
  <2> QED
    BY <1>4, <2>1, <2>2 DEF Exchange
<1> QED
  BY <1>5, <1>6

LEMMA MailsTake ==
    ASSUME TInv, NEW c \in Consumers, NEW m \in Message, Take(c, m),
           NEW e \in Events, NEW u \in Citizens
    PROVE  CopyMore(e) /\ Exchange(e, u)
<1>1. /\ stage[c] = "idle" /\ m \in DOMAIN queue /\ queue' = queue (-) SetToBag({m})
      /\ task' = [task EXCEPT ![c] = m] /\ stage' = [stage EXCEPT ![c] = "taken"]
      /\ UNCHANGED <<todo, unsaved, email, accepted, handoffs, lostSaves>>
  BY DEF Take, BagIn, BagToSet, noticeVars, historyVars
<1>2. /\ IsABag(queue) /\ Working(c) /\ handoffs[e] + lostSaves[e] \in Nat
      /\ task \in [Consumers -> Message \cup {None}]
      /\ stage \in [Consumers -> {"idle", "taken", "generated", "sending"}]
  BY DEF TInv, TasksTyped, NoticesTyped, IInv, OutboxTyped
<1>3. /\ m.event # e => Copies(queue, e)' = Copies(queue, e)
      /\ m.event = e => \E x \in Copies(queue, e) : Copies(queue, e)' = Copies(queue, e) \ {x}
  <2>1. OneMore(queue', m, queue)
    BY <1>1, <1>2, MessageTaken
  <2>2. Copies(queue, e)' = Copies(queue', e)
    BY DEF Copies
  <2>3. CASE m.event # e
    BY <2>1, <2>2, <2>3, CopyAdded
  <2>4. CASE m.event = e
    <3>1. PICK x : x \notin Copies(queue', e) /\ Copies(queue, e) = Copies(queue', e) \cup {x}
      BY <2>1, <2>4, CopyAdded
    <3>2. x \in Copies(queue, e) /\ Copies(queue', e) = Copies(queue, e) \ {x}
      BY <3>1
    <3> QED
      BY <2>2, <2>4, <3>2
  <2> QED
    BY <2>3, <2>4
<1>4. CopyMore(e)
  BY <1>3 DEF CopyMore
<1>5. SameMails(e, u) /\ SameCauses(e)
  BY <1>1, <1>2 DEF SameMails, SameCauses
<1>6. \A d \in Consumers \ {c} : MaySend(d, e, u)' <=> MaySend(d, e, u)
  BY <1>1, <1>2 DEF MaySend
<1>7. CASE m.event # e \/ email[<<e, u>>] = "sent"
  <2>1. ~MaySend(c, e, u)'
    BY <1>1, <1>2, <1>7 DEF MaySend, Working
  <2>2. SenderKept(e, u)
    BY <1>6, <2>1 DEF SenderKept, Sending
  <2>3. RightKept(e, u)
    BY <1>1, <1>3, <1>7 DEF RightKept, Unsent
  <2> QED
    BY <1>4, <1>5, <2>2, <2>3 DEF Exchange
<1>8. CASE m.event = e /\ email[<<e, u>>] # "sent"
  <2>1. SenderMore(e, u)
    <3>1. Sending(e, u)' \subseteq Sending(e, u) \cup {c}
      BY <1>6 DEF Sending
    <3> QED
      BY <3>1 DEF SenderMore
  <2>2. RightLess(e, u)
    BY <1>1, <1>3, <1>8 DEF RightLess, Unsent
  <2> QED
    BY <1>4, <1>5, <2>1, <2>2 DEF Exchange
<1> QED
  BY <1>7, <1>8

\* Steps of a consumer that has its message and keeps it, or acknowledges it.
LEMMA MailsKept ==
    ASSUME TInv, NEW c \in Consumers, NEW e \in Events, NEW u \in Citizens,
           UNCHANGED <<queue, accepted, handoffs, lostSaves>>,
           email[<<e, u>>] = "sent" => email'[<<e, u>>] = "sent",
           \A d \in Consumers : MaySend(d, e, u)' => MaySend(d, e, u)
    PROVE  CopyMore(e) /\ Exchange(e, u)
<1>1. Copies(queue, e)' = Copies(queue, e)
  BY DEF Copies
<1>2. RightKept(e, u)
  BY <1>1 DEF RightKept, Unsent
<1>3. SenderKept(e, u)
  BY DEF SenderKept, Sending
<1>4. handoffs[e] + lostSaves[e] \in Nat
  BY DEF TInv, NoticesTyped, IInv, OutboxTyped
<1> QED
  BY <1>1, <1>2, <1>3, <1>4 DEF CopyMore, Exchange, SameMails, SameCauses

LEMMA MailsConsumer ==
    ASSUME TInv, NEW c \in Consumers,
           Generate(c) \/ ListMails(c) \/ SaveSent(c) \/ Acknowledge(c),
           NEW e \in Events, NEW u \in Citizens
    PROVE  CopyMore(e) /\ Exchange(e, u)
<1>0. /\ Working(c) /\ task \in [Consumers -> Message \cup {None}]
      /\ stage \in [Consumers -> {"idle", "taken", "generated", "sending"}]
      /\ todo \in [Consumers -> SUBSET Citizens]
      /\ unsaved \in [Consumers -> Citizens \cup {None}]
      /\ email \in [Events \X Citizens -> {"none", "pending", "sent"}]
      /\ <<e, u>> \in Events \X Citizens /\ None \notin Citizens
  BY OutboxAssumption DEF TInv, TasksTyped, NoticesTyped
<1>1. UNCHANGED <<queue, accepted, handoffs, lostSaves>>
  BY DEF Generate, ListMails, SaveSent, Acknowledge, historyVars
<1>2. CASE Generate(c)
  <2>1. /\ stage[c] = "taken" /\ stage' = [stage EXCEPT ![c] = "generated"]
        /\ UNCHANGED <<task, todo, unsaved>>
    BY <1>2 DEF Generate
  <2>2. email'[<<e, u>>] = "sent" <=> email[<<e, u>>] = "sent"
    BY <1>0, <1>2 DEF Generate
  <2>3. \A d \in Consumers : MaySend(d, e, u)' => MaySend(d, e, u)
    BY <1>0, <2>1, <2>2 DEF MaySend
  <2> QED
    BY <1>1, <2>2, <2>3, MailsKept
<1>3. CASE ListMails(c)
  <2>1. /\ stage[c] = "generated" /\ stage' = [stage EXCEPT ![c] = "sending"]
        /\ todo' = [todo EXCEPT ![c] = MailsToSend(task[c].event)]
        /\ UNCHANGED <<task, unsaved, email>>
    BY <1>3 DEF ListMails, noticeVars
  <2>2. ASSUME NEW d \in Consumers, MaySend(d, e, u)' PROVE MaySend(d, e, u)
    BY <1>0, <2>1, <2>2 DEF MaySend, MailsToSend
  <2> QED
    BY <1>1, <2>1, <2>2, MailsKept
<1>4. CASE SaveSent(c)
  <2>1. /\ unsaved[c] # None /\ unsaved' = [unsaved EXCEPT ![c] = None]
        /\ email' = [email EXCEPT ![<<task[c].event, unsaved[c]>>] = "sent"]
        /\ UNCHANGED <<task, stage, todo>>
    BY <1>4 DEF SaveSent
  <2>2. /\ email[<<e, u>>] = "sent" => email'[<<e, u>>] = "sent"
        /\ task[c].event = e /\ unsaved[c] = u => email'[<<e, u>>] = "sent"
    BY <1>0, <2>1
  <2>3. ASSUME NEW d \in Consumers \ {c}, MaySend(d, e, u)' PROVE MaySend(d, e, u)
    BY <1>0, <2>1, <2>2, <2>3 DEF MaySend
  <2>4. ASSUME MaySend(c, e, u)' PROVE MaySend(c, e, u)
    BY <1>0, <2>1, <2>2, <2>4 DEF MaySend, Working
  <2> QED
    BY <1>1, <2>2, <2>3, <2>4, MailsKept
<1>5. CASE Acknowledge(c)
  <2>1. ASSUME NEW d \in Consumers, MaySend(d, e, u)' PROVE MaySend(d, e, u)
    BY <1>0, <1>5, <2>1 DEF MaySend, Acknowledge, EndTask, noticeVars
  <2> QED
    BY <1>1, <1>5, <2>1, MailsKept DEF Acknowledge, noticeVars
<1> QED
  BY <1>2, <1>3, <1>4, <1>5

LEMMA MailsSend ==
    ASSUME TInv, NEW c \in Consumers, NEW v \in Citizens, SendMail(c, v),
           NEW e \in Events, NEW u \in Citizens
    PROVE  CopyMore(e) /\ Exchange(e, u)
<1>0. /\ Working(c) /\ task \in [Consumers -> Message \cup {None}]
      /\ todo \in [Consumers -> SUBSET Citizens]
      /\ unsaved \in [Consumers -> Citizens \cup {None}]
      /\ accepted \in [Events \X Citizens -> Nat]
      /\ <<e, u>> \in Events \X Citizens /\ None \notin Citizens
      /\ handoffs[e] + lostSaves[e] \in Nat
  BY OutboxAssumption DEF TInv, TasksTyped, NoticesTyped, IInv, OutboxTyped
<1>1. /\ stage[c] = "sending" /\ unsaved[c] = None /\ v \in todo[c]
      /\ accepted' = [accepted EXCEPT ![<<task[c].event, v>>] = @ + 1]
      /\ todo' = [todo EXCEPT ![c] = @ \ {v}] /\ unsaved' = [unsaved EXCEPT ![c] = v]
      /\ UNCHANGED <<queue, task, stage, email, handoffs, lostSaves>>
  BY DEF SendMail, noticeVars
<1>2. ASSUME NEW d \in Consumers, MaySend(d, e, u)' PROVE MaySend(d, e, u)
  BY <1>0, <1>1, <1>2 DEF MaySend
<1>3. Copies(queue, e)' = Copies(queue, e)
  BY <1>1 DEF Copies
<1>4. CopyMore(e) /\ RightKept(e, u) /\ SenderKept(e, u) /\ SameCauses(e)
  BY <1>0, <1>1, <1>2, <1>3
     DEF CopyMore, RightKept, SenderKept, SameCauses, Unsent, Sending
<1>5. CASE task[c].event = e /\ v = u
  <2>1. MaySend(c, e, u) /\ ~MaySend(c, e, u)'
    BY <1>0, <1>1, <1>5 DEF MaySend
  <2>2. SenderLess(e, u)
    <3>1. c \in Sending(e, u) /\ Sending(e, u)' \subseteq Sending(e, u) \ {c}
      BY <1>2, <2>1 DEF Sending
    <3> QED
      BY <3>1 DEF SenderLess
  <2>3. accepted'[<<e, u>>] = accepted[<<e, u>>] + 1
    BY <1>0, <1>1, <1>5
  <2> QED
    BY <1>4, <2>2, <2>3 DEF Exchange
<1>6. CASE task[c].event # e \/ v # u
  <2>1. SameMails(e, u)
    BY <1>0, <1>1, <1>6 DEF SameMails
  <2> QED
    BY <1>4, <2>1 DEF Exchange
<1> QED
  BY <1>5, <1>6

LEMMA MailsFailure ==
    ASSUME TInv, NEW c \in Consumers, ConsumerDies(c) \/ CallFails(c),
           NEW e \in Events, NEW u \in Citizens
    PROVE  CopyMore(e) /\ Exchange(e, u)
<1>0. /\ IsABag(queue) /\ Working(c) /\ task \in [Consumers -> Message \cup {None}]
      /\ stage \in [Consumers -> {"idle", "taken", "generated", "sending"}]
      /\ lostSaves \in [Events -> Nat] /\ handoffs[e] \in Nat /\ None \notin Citizens
  BY OutboxAssumption DEF TInv, TasksTyped, NoticesTyped, IInv, OutboxTyped
<1>1. /\ stage[c] # "idle" /\ CountLostSave(c) /\ EndTask(c) /\ (Redeliver(c) \/ Retry(c))
      /\ UNCHANGED <<email, accepted, handoffs>>
  BY DEF ConsumerDies, CallFails, noticeVars
<1>2. \/ UNCHANGED queue
      \/ \E m \in Message : m.event = task[c].event /\ queue' = queue (+) SetToBag({m})
  BY <1>1, PutBack
<1>3. /\ task[c].event # e => Copies(queue, e)' = Copies(queue, e)
      /\ \E x : Copies(queue, e)' \subseteq Copies(queue, e) \cup {x}
  <2>1. CASE UNCHANGED queue
    BY <2>1 DEF Copies
  <2>2. CASE \E m \in Message : m.event = task[c].event /\ queue' = queue (+) SetToBag({m})
    <3>1. PICK m \in Message : m.event = task[c].event /\ queue' = queue (+) SetToBag({m})
      BY <2>2
    <3>2. Copies(queue, e)' = Copies(queue', e) /\ OneMore(queue, m, queue')
      BY <1>0, <3>1, MessageAdded DEF Copies
    <3>3. CASE m.event # e
      BY <3>1, <3>2, <3>3, CopyAdded
    <3>4. CASE m.event = e
      <4>1. PICK x : x \notin Copies(queue, e) /\ Copies(queue', e) = Copies(queue, e) \cup {x}
        BY <3>2, <3>4, CopyAdded
      <4> QED
        BY <3>1, <3>2, <3>4, <4>1
    <3> QED
      BY <3>3, <3>4
  <2> QED
    BY <1>2, <2>1, <2>2
<1>4. CopyMore(e) /\ SameMails(e, u)
  BY <1>1, <1>3 DEF CopyMore, SameMails
<1>5. /\ \A d \in Consumers : MaySend(d, e, u)' => MaySend(d, e, u)
      /\ ~MaySend(c, e, u)'
  BY <1>0, <1>1 DEF MaySend, EndTask
<1>6. SenderKept(e, u)
  BY <1>5 DEF SenderKept, Sending
<1>7. SameCauses(e)
  BY <1>0, <1>1 DEF SameCauses, CountLostSave
<1>8. CASE task[c].event # e \/ email[<<e, u>>] = "sent"
  <2>1. RightKept(e, u)
    BY <1>1, <1>3, <1>8 DEF RightKept, Unsent
  <2> QED
    BY <1>4, <1>6, <1>7, <2>1 DEF Exchange
<1>9. CASE task[c].event = e /\ email[<<e, u>>] # "sent"
  <2>1. RightMore(e, u)
    BY <1>1, <1>3, <1>9 DEF RightMore, Unsent
  <2>2. CASE unsaved[c] = u
    <3>1. OneCause(e)
      BY <1>0, <1>1, <1>9, <2>2 DEF OneCause, CountLostSave
    <3> QED
      BY <1>4, <1>6, <2>1, <3>1 DEF Exchange
  <2>3. CASE unsaved[c] # u
    <3>1. c \in Sending(e, u) /\ Sending(e, u)' \subseteq Sending(e, u) \ {c}
      BY <1>1, <1>5, <1>9, <2>3 DEF Sending, MaySend
    <3>2. SenderLess(e, u)
      BY <3>1 DEF SenderLess
    <3> QED
      BY <1>4, <1>7, <2>1, <3>2 DEF Exchange
  <2> QED
    BY <2>2, <2>3
<1> QED
  BY <1>8, <1>9

LEMMA MailsInitially == Init => MailsAccounted
<1> SUFFICES ASSUME Init, NEW e \in Events, NEW u \in Citizens
             PROVE  /\ IsFiniteSet(Copies(queue, e)) /\ IsFiniteSet(Sending(e, u))
                    /\ accepted[<<e, u>>] + Cardinality(Unsent(e, u))
                         + Cardinality(Sending(e, u)) <= handoffs[e] + lostSaves[e]
  BY DEF MailsAccounted
<1>1. Copies(queue, e) = {} /\ Unsent(e, u) = {}
  BY DEF Init, Copies, Unsent, EmptyBag, SetToBag
<1>2. Sending(e, u) = {}
  BY DEF Init, Sending, MaySend
<1>3. accepted[<<e, u>>] = 0 /\ handoffs[e] = 0 /\ lostSaves[e] = 0
  BY DEF Init
<1> QED
  BY <1>1, <1>2, <1>3, FS_EmptySet

LEMMA MailsStepwise == TInv /\ MailsAccounted /\ [Next]_vars => MailsAccounted'
<1> SUFFICES ASSUME TInv, MailsAccounted, [Next]_vars PROVE MailsAccounted'
  OBVIOUS
<1>1. ASSUME NEW e \in Events, NEW u \in Citizens
      PROVE  CopyMore(e) /\ Exchange(e, u)
  <2>1. CASE UNCHANGED <<queue, taskVars, email, accepted, handoffs, lostSaves>>
    BY <2>1, MailsElsewhere
  <2>2. CASE \E l \in Relays : HandOver(l)
    BY <2>2, MailsHandOver
  <2>3. CASE \E c \in Consumers : ConsumerStep(c)
    BY <2>3, MailsTake, MailsConsumer, MailsSend DEF ConsumerStep
  <2>4. CASE \E c \in Consumers : ConsumerDies(c) \/ CallFails(c)
    BY <2>4, MailsFailure
  <2> QED
    BY <2>1, <2>2, <2>3, <2>4
       DEF Next, vars, ChangeStatus, MergeIssues, SplitIssue, JoinIssue, ChangeStanding,
           RelayStep, LockBatch, CommitBatch, AbortBatch, noticeVars, historyVars
<1>2. TInv'
  BY TypedStepwise
<1> QED
  BY <1>1, <1>2, ExchangeKeeps

\* consume_outbox_event with acks_late, and the "pending" filter of the mails:
\* whatever is redelivered, retried or killed, the mail server is given the mail
\* of an event to a citizen once for each hand-over of the event, and once more
\* for each sent mail whose row was not saved.
THEOREM MailsCorrect == Spec => []SurplusMailsExplained
<1>1. TInv /\ MailsAccounted => SurplusMailsExplained
  <2> SUFFICES ASSUME TInv, MailsAccounted, NEW e \in Recorded, NEW u \in Citizens
               PROVE  accepted[<<e, u>>] <= handoffs[e] + lostSaves[e]
    BY DEF SurplusMailsExplained
  <2>1. e \in Events
    BY RecordedAreEvents DEF TInv, IInv
  <2>2. IsFiniteSet(Unsent(e, u)) /\ IsFiniteSet(Sending(e, u))
    BY <2>1, FS_EmptySet DEF MailsAccounted, Unsent
  <2>3. Cardinality(Unsent(e, u)) \in Nat /\ Cardinality(Sending(e, u)) \in Nat
    BY <2>2, FS_CardinalityType
  <2>4. accepted[<<e, u>>] \in Nat /\ handoffs[e] \in Nat /\ lostSaves[e] \in Nat
    BY <2>1 DEF TInv, IInv, OutboxTyped, NoticesTyped
  <2> QED
    BY <2>1, <2>3, <2>4 DEF MailsAccounted
<1> QED
  BY <1>1, TypedInitially, TypedStepwise, MailsInitially, MailsStepwise, PTL DEF Spec

=============================================================================
