------------------------ MODULE StreamDeliveryProofs ------------------------
(***************************************************************************)
(* At-least-once delivery for every pool size, batch size, failure         *)
(* simulation, stream length and number of faults.                         *)
(*                                                                         *)
(* NothingLost is not inductive: XACK removes an entry from the PEL, and   *)
(* only the program's order of calls says that its event is durable.       *)
(* AckIsCommitted adds exactly that.  BatchFinished needs that a consumer  *)
(* which is not handling messages has none in hand (EmptyHanded).          *)
(***************************************************************************)
EXTENDS StreamDelivery, SequenceTheorems, TLAPS

\* A consumer about to acknowledge a message has seen its transaction commit.
AckIsCommitted ==
    \A c \in Consumers : phase[c] = "ack" => Message(c).id \in durable

DeliveryInv == TypeOK /\ NothingLost /\ AckIsCommitted

\* A batch of positions stays one when more entries have been delivered.
LEMMA BatchMonotonic ==
    ASSUME NEW m \in Int, NEW n \in Int, m <= n, NEW s \in Seq(1..m)
    PROVE  s \in Seq(1..n)
<1>1. 1..m \subseteq 1..n
    OBVIOUS
<1> QED BY <1>1, SeqMonotonic

\* The first position of a batch is a delivered one, and so is every other;
\* what is left after the first is a batch, empty when there was one position.
LEMMA HeadOfBatch ==
    ASSUME TypeOK, NEW c \in Consumers, phase[c] \in {"work", "ack"}
    PROVE  /\ Head(batch[c]) \in 1..delivered
           /\ Head(batch[c]) \in 1..Len(stream)
           /\ Message(c) \in Messages
           /\ Tail(batch[c]) \in Seq(1..delivered)
           /\ Len(batch[c]) # 1 => Tail(batch[c]) # <<>>
           /\ delivered \in Nat
<1>1. batch[c] \in Seq(1..delivered) /\ batch[c] # <<>>
    BY DEF TypeOK
<1>2. /\ Head(batch[c]) \in 1..delivered
      /\ Tail(batch[c]) \in Seq(1..delivered)
      /\ Len(Tail(batch[c])) = Len(batch[c]) - 1
    BY <1>1, HeadTailProperties
<1>3. Len(batch[c]) # 1 => Tail(batch[c]) # <<>>
  <2>1. Len(batch[c]) \in Nat
      BY <1>1, LenProperties
  <2>2. Len(batch[c]) # 1 => Len(Tail(batch[c])) # 0
      BY <1>2, <2>1
  <2>3. \A s : s = <<>> => Len(s) = 0
      OBVIOUS
  <2> QED BY <2>2, <2>3, Zenon
<1>4. delivered \in Nat /\ delivered <= Len(stream)
    BY <1>2 DEF TypeOK, NoGroup
<1>5. Head(batch[c]) \in 1..Len(stream)
    BY <1>2, <1>4, LenProperties DEF TypeOK
<1>6. Message(c) \in Messages
    BY <1>5, ElementOfSeq DEF TypeOK, Message
<1> QED BY <1>2, <1>3, <1>4, <1>5, <1>6

\* Before the first start nothing was delivered, so nothing is lost.
LEMMA InitDelivery == Init => DeliveryInv
<1> SUFFICES ASSUME Init PROVE DeliveryInv
    OBVIOUS
<1> USE DEF Init, NoGroup
<1>1. TypeOK
    BY EmptySeq, CountAssumption DEF TypeOK
<1>2. NothingLost /\ AckIsCommitted
    BY DEF NothingLost, AckIsCommitted
<1> QED BY <1>1, <1>2 DEF DeliveryInv

\* The actions that leave the stream, the group's bookkeeping and the database
\* alone keep NothingLost.
LEMMA UntouchedStores ==
    ASSUME NothingLost, UNCHANGED <<stream, delivered, pel, durable>>
    PROVE  NothingLost'
BY DEF NothingLost

\* A new entry leaves the positions of the others alone.
LEMMA PublishDelivery ==
    ASSUME DeliveryInv, NEW m \in Messages, XAdd(m)
    PROVE  DeliveryInv'
<1> USE DEF DeliveryInv
<1>1. /\ stream' \in Seq(Messages)
      /\ Len(stream') = Len(stream) + 1
      /\ Len(stream) \in Nat
      /\ \A i \in 1..Len(stream) : stream'[i] = stream[i]
    BY AppendProperties, LenProperties DEF TypeOK, XAdd
<1>2. TypeOK'
    BY <1>1 DEF TypeOK, XAdd, consumers, NoGroup
<1>3. NothingLost'
    BY <1>1 DEF NothingLost, TypeOK, XAdd, NoGroup
<1>4. AckIsCommitted'
  <2> SUFFICES ASSUME NEW c \in Consumers, phase[c] = "ack"
               PROVE  stream'[Head(batch[c])].id \in durable
      BY DEF AckIsCommitted, XAdd, consumers, Message
  <2> QED BY <1>1, HeadOfBatch DEF AckIsCommitted, Message
<1> QED BY <1>2, <1>3, <1>4

\* Idle time changes nothing but what XAUTOCLAIM may claim.
LEMMA AgeDelivery ==
    ASSUME DeliveryInv, NEW i \in pel, Age(i)
    PROVE  DeliveryInv'
BY UntouchedStores DEF DeliveryInv, TypeOK, AckIsCommitted, Message, Age, consumers

\* Start, StartFails, Cancel, Exit and Crash.
LEMMA ProcessLevelDelivery ==
    ASSUME DeliveryInv, Start \/ StartFails \/ Cancel \/ Exit \/ Crash
    PROVE  DeliveryInv'
<1> USE DEF DeliveryInv
<1>1. ASSUME EnsureGroup \/ UNCHANGED delivered, UNCHANGED <<stream, pel, stale, durable>>,
             batch' = batch \/ batch' = [c \in Consumers |-> <<>>]
      PROVE  /\ delivered' \in {NoGroup} \cup 0..Len(stream')
             /\ pel' \subseteq 1..delivered'
             /\ batch' \in [Consumers -> Seq(1..delivered')]
             /\ NothingLost'
             /\ delivered # NoGroup => delivered' = delivered
             /\ EnsureGroup => delivered' # NoGroup
  <2>1. /\ Len(stream) \in Nat
        /\ delivered \in Int /\ delivered' \in Int
        /\ delivered <= delivered'
        /\ 1..delivered' = 1..delivered
      BY <1>1, LenProperties DEF TypeOK, EnsureGroup, NoGroup
  <2>2. batch' \in [Consumers -> Seq(1..delivered')]
      BY <1>1, <2>1, EmptySeq DEF TypeOK
  <2>3. NothingLost'
      BY <1>1, <2>1 DEF NothingLost
  <2> QED BY <1>1, <2>1, <2>2, <2>3 DEF TypeOK, EnsureGroup, NoGroup
<1>2. CASE Start
  <2>1. TypeOK'
      BY <1>1, <1>2 DEF TypeOK, Start
  <2> QED BY <1>1, <1>2, <2>1 DEF Start, AckIsCommitted
<1>3. CASE StartFails
  <2>1. TypeOK'
      BY <1>1, <1>3, CountAssumption DEF TypeOK, StartFails, Fault, consumers
  <2> QED BY <1>1, <1>3, <2>1 DEF StartFails, AckIsCommitted, Message, consumers
<1>4. CASE Cancel
  <2>1. TypeOK'
      BY <1>4, CountAssumption DEF TypeOK, Cancel, Fault, redis, consumers
  <2> QED BY <1>4, <2>1, UntouchedStores DEF Cancel, AckIsCommitted, Message, redis, consumers
<1>5. CASE Exit
  <2>1. TypeOK'
      BY <1>5 DEF TypeOK, Exit, redis, consumers
  <2> QED BY <1>5, <2>1, UntouchedStores DEF Exit, AckIsCommitted, Message, redis, consumers
<1>6. CASE Crash
  <2>1. TypeOK'
      BY <1>1, <1>6, CountAssumption DEF TypeOK, Crash, Fault, redis
  <2> QED BY <1>6, <2>1, UntouchedStores DEF Crash, AckIsCommitted, redis
<1> QED BY <1>2, <1>3, <1>4, <1>5, <1>6

\* The step from the loop top into a call or out of the loop.
LEMMA LoopTopDelivery ==
    ASSUME DeliveryInv, NEW c \in Consumers,
           Stop(c) \/ (c \in Workers /\ CallReadGroup(c)) \/ Tick
    PROVE  DeliveryInv'
<1> USE DEF DeliveryInv
<1>1. Reclaimer \in Consumers
    BY DEF Consumers
<1>2. CASE Stop(c)
  <2>1. TypeOK'
      BY <1>2 DEF TypeOK, Stop, Goto, redis
  <2> QED BY <1>2, <2>1, UntouchedStores DEF Stop, Goto, AckIsCommitted, Message, redis, TypeOK
<1>3. CASE CallReadGroup(c)
  <2>1. TypeOK'
      BY <1>3 DEF TypeOK, CallReadGroup, Goto, redis
  <2> QED BY <1>3, <2>1, UntouchedStores
          DEF CallReadGroup, Goto, AckIsCommitted, Message, redis, TypeOK
<1>4. CASE Tick
  <2>1. TypeOK'
      BY <1>1, <1>4 DEF TypeOK, Tick, Goto, redis
  <2> QED BY <1>1, <1>4, <2>1, UntouchedStores
          DEF Tick, Goto, AckIsCommitted, Message, redis, TypeOK
<1> QED BY <1>2, <1>3, <1>4

\* What XREADGROUP hands out is on the PEL, whether the reply arrives or not.
LEMMA DeliverDelivery ==
    ASSUME DeliveryInv, delivered # NoGroup,
           NEW n \in 0..(Len(stream) - delivered), Deliver(n)
    PROVE  /\ delivered' \in 0..Len(stream')
           /\ pel' \subseteq 1..delivered'
           /\ stale' \subseteq pel'
           /\ \A c \in Consumers : batch[c] \in Seq(1..delivered')
           /\ [k \in 1..n |-> delivered + k] \in Seq(1..delivered')
           /\ UNCHANGED durable => NothingLost'
<1> USE DEF DeliveryInv
<1>1. /\ Len(stream) \in Nat
      /\ delivered \in 0..Len(stream)
      /\ delivered' = delivered + n
      /\ pel' = pel \cup (delivered + 1 .. delivered + n)
      /\ stream' = stream /\ stale' = stale
    BY LenProperties DEF TypeOK, Deliver, NoGroup
<1>2. /\ delivered' \in 0..Len(stream')
      /\ pel' \subseteq 1..delivered'
      /\ stale' \subseteq pel'
    BY <1>1 DEF TypeOK
<1>3. \A c \in Consumers : batch[c] \in Seq(1..delivered')
    BY <1>1, BatchMonotonic DEF TypeOK
<1>4. [k \in 1..n |-> delivered + k] \in Seq(1..delivered')
  <2>1. n \in Nat
      BY <1>1
  <2>2. \A k \in 1..n : delivered + k \in 1..delivered'
      BY <1>1
  <2> QED BY <2>1, <2>2, IsASeq
<1>5. ASSUME UNCHANGED durable PROVE NothingLost'
    BY <1>1, <1>5 DEF NothingLost
<1> QED BY <1>2, <1>3, <1>4, <1>5

\* A read that succeeds, loses its reply or fails.
LEMMA ReadDelivery ==
    ASSUME DeliveryInv, NEW w \in Workers,
           ReadGroup(w) \/ ReadGroupLost(w) \/ ReadGroupFails(w)
    PROVE  DeliveryInv'
<1> USE DEF DeliveryInv
<1> DEFINE n == Lesser(ReadCount, Len(stream) - delivered)
<1>1. w \in Consumers /\ phase[w] = "reading"
    BY DEF Consumers, ReadGroup, ReadGroupLost, ReadGroupFails
<1>2. delivered # NoGroup /\ run # "down"
    BY <1>1 DEF TypeOK
<1>3. n \in 0..(Len(stream) - delivered)
    BY <1>2, CountAssumption, LenProperties DEF TypeOK, Lesser, NoGroup
<1> HIDE DEF n
<1>4. CASE ReadGroup(w)
  <2>1. /\ Deliver(n)
        /\ batch' = [batch EXCEPT ![w] = [k \in 1..n |-> delivered + k]]
        /\ phase' = [phase EXCEPT ![w] = IF n = 0 THEN "poll" ELSE "work"]
        /\ UNCHANGED <<durable, run, start, successes, faults>>
      BY <1>4 DEF ReadGroup, Goto, n
  <2>2. batch' \in [Consumers -> Seq(1..delivered')] /\ NothingLost'
      BY <1>1, <1>2, <1>3, <2>1, DeliverDelivery DEF TypeOK
  <2>3. n # 0 => [k \in 1..n |-> delivered + k] # <<>>
    <3>1. ASSUME n # 0 PROVE 1 \in DOMAIN [k \in 1..n |-> delivered + k]
        BY <1>3, <3>1, <1>2, LenProperties DEF TypeOK, NoGroup
    <3> QED BY <3>1
  <2>4. stream' = stream
      BY <2>1 DEF Deliver
  <2>5. TypeOK'
    <3>1. /\ delivered' \in 0..Len(stream')
          /\ pel' \subseteq 1..delivered'
          /\ stale' \subseteq pel'
        BY <1>2, <1>3, <2>1, DeliverDelivery
    <3>2. delivered' # NoGroup
        BY <3>1 DEF NoGroup
    <3>3. \A c \in Consumers : phase'[c] \in {"work", "ack"} => batch'[c] # <<>>
        BY <2>1, <2>3 DEF TypeOK
    <3> QED BY <1>2, <2>1, <2>2, <2>4, <3>1, <3>2, <3>3 DEF TypeOK
  <2>6. AckIsCommitted'
      BY <1>1, <2>1, <2>4 DEF AckIsCommitted, Message, TypeOK
  <2> QED BY <2>2, <2>5, <2>6
<1>5. CASE ReadGroupLost(w)
  <2>1. /\ Deliver(n)
        /\ phase' = [phase EXCEPT ![w] = "poll"]
        /\ UNCHANGED <<durable, run, batch, start, successes>>
        /\ faults' \in 0..MaxFaults
      BY <1>5, CountAssumption DEF ReadGroupLost, Goto, Fault, NoFault, TypeOK, n
  <2>2. batch' \in [Consumers -> Seq(1..delivered')] /\ NothingLost'
      BY <1>2, <1>3, <2>1, DeliverDelivery DEF TypeOK
  <2>3. /\ delivered' \in 0..Len(stream')
        /\ pel' \subseteq 1..delivered'
        /\ stale' \subseteq pel'
      BY <1>2, <1>3, <2>1, DeliverDelivery
  <2>4. delivered' # NoGroup /\ stream' = stream
      BY <2>1, <2>3 DEF NoGroup, Deliver
  <2>5. TypeOK'
      BY <1>2, <2>1, <2>2, <2>3, <2>4 DEF TypeOK
  <2>6. AckIsCommitted'
      BY <2>1, <2>4 DEF AckIsCommitted, Message, TypeOK
  <2> QED BY <2>2, <2>5, <2>6
<1>6. CASE ReadGroupFails(w)
  <2>1. TypeOK'
      BY <1>1, <1>6, CountAssumption
      DEF TypeOK, ReadGroupFails, Goto, Fault, NoFault, redis
  <2> QED BY <1>6, <2>1, UntouchedStores
          DEF ReadGroupFails, Goto, AckIsCommitted, Message, redis, TypeOK
<1> QED BY <1>4, <1>5, <1>6

\* XAUTOCLAIM takes nothing off the PEL, and what it returns is on it.
LEMMA ClaimedArePending ==
    ASSUME DeliveryInv, NEW last, NEW claimed \in Claims(last), XAutoClaim(last, claimed)
    PROVE  /\ claimed \in Seq(1..delivered)
           /\ UNCHANGED <<stream, delivered, pel>>
           /\ stale' \subseteq pel'
<1> USE DEF DeliveryInv
<1>1. PICK k \in 0..ReclaimCount : claimed \in [1..k -> Scanned(last) \cap stale]
    BY DEF Claims
<1>2. Scanned(last) \cap stale \subseteq 1..delivered
    BY DEF Scanned, TypeOK
<1>3. claimed \in Seq(Scanned(last) \cap stale)
    BY <1>1, CountAssumption, SeqDef
<1>4. claimed \in Seq(1..delivered)
    BY <1>2, <1>3, SeqMonotonic
<1> QED BY <1>4 DEF XAutoClaim, TypeOK

\* A round of ClaimPending that succeeds, loses its reply or fails.
LEMMA ClaimDelivery ==
    ASSUME DeliveryInv, ClaimPending \/ ClaimPendingLost \/ ClaimPendingFails
    PROVE  DeliveryInv'
<1> USE DEF DeliveryInv
<1>1. Reclaimer \in Consumers /\ phase[Reclaimer] = "claiming"
    BY DEF Consumers, ClaimPending, ClaimPendingLost, ClaimPendingFails
<1>2. CASE ClaimPending
  <2>1. PICK last \in Positions \cup {0}, next \in Positions \cup {0} :
          \E claimed \in Claims(last) :
            /\ XAutoClaim(last, claimed)
            /\ batch' = [batch EXCEPT ![Reclaimer] = batch[Reclaimer] \o claimed]
            /\ start' \in {0, next}
            /\ \E after \in {"claiming", "poll", "work"} :
                  /\ phase' = [phase EXCEPT ![Reclaimer] = after]
                  /\ after = "work" => batch[Reclaimer] \o claimed # <<>>
      BY <1>2 DEF ClaimPending, Goto
  <2>2. PICK claimed \in Claims(last) :
          /\ XAutoClaim(last, claimed)
          /\ batch' = [batch EXCEPT ![Reclaimer] = batch[Reclaimer] \o claimed]
          /\ start' \in {0, next}
          /\ \E after \in {"claiming", "poll", "work"} :
                /\ phase' = [phase EXCEPT ![Reclaimer] = after]
                /\ after = "work" => batch[Reclaimer] \o claimed # <<>>
      BY <2>1
  <2>3. batch[Reclaimer] \o claimed \in Seq(1..delivered)
      BY <1>1, <2>2, ClaimedArePending, ConcatProperties DEF TypeOK
  <2>4. UNCHANGED <<stream, delivered, pel>> /\ stale' \subseteq pel'
      BY <2>2, ClaimedArePending
  <2>5. UNCHANGED <<durable, run, successes, faults>>
      BY <1>2 DEF ClaimPending
  <2>6. TypeOK'
      BY <1>1, <2>2, <2>3, <2>4, <2>5 DEF TypeOK, Positions
  <2>7. AckIsCommitted'
      BY <1>1, <2>2, <2>4, <2>5 DEF AckIsCommitted, Message, TypeOK
  <2> QED BY <2>4, <2>5, <2>6, <2>7, UntouchedStores
<1>3. CASE ClaimPendingLost
  <2>1. UNCHANGED <<stream, delivered, pel>> /\ stale' \subseteq pel'
      BY <1>3, ClaimedArePending DEF ClaimPendingLost
  <2>2. faults' \in 0..MaxFaults
      BY <1>3, CountAssumption DEF ClaimPendingLost, Fault, NoFault, TypeOK
  <2>3. TypeOK'
      BY <1>1, <1>3, <2>1, <2>2, EmptySeq
      DEF TypeOK, ClaimPendingLost, DropClaimed, Goto
  <2> QED BY <1>1, <1>3, <2>1, <2>3, UntouchedStores
          DEF ClaimPendingLost, DropClaimed, Goto, AckIsCommitted, Message, TypeOK
<1>4. CASE ClaimPendingFails
  <2>1. TypeOK'
      BY <1>1, <1>4, CountAssumption, EmptySeq
      DEF TypeOK, ClaimPendingFails, DropClaimed, Goto, Fault, NoFault, redis
  <2> QED BY <1>1, <1>4, <2>1, UntouchedStores
          DEF ClaimPendingFails, DropClaimed, Goto, AckIsCommitted, Message, redis, TypeOK
<1> QED BY <1>2, <1>3, <1>4

\* handleMessage: the transaction, then the acknowledgement.
LEMMA HandleDelivery ==
    ASSUME DeliveryInv, NEW c \in Consumers, HandleStep(c) \/ (c \in Workers /\ SkipAck(c))
    PROVE  DeliveryInv'
<1> USE DEF DeliveryInv
<1>1. phase[c] \in {"work", "ack"}
    BY DEF HandleStep, Process, ProcessSucceeds, ProcessFails, ProcessReturnsError,
           Ack, AckFails, SkipAck
<1>2. /\ Head(batch[c]) \in 1..delivered
      /\ Message(c) \in Messages
      /\ Tail(batch[c]) \in Seq(1..delivered)
      /\ Len(batch[c]) # 1 => Tail(batch[c]) # <<>>
    BY <1>1, HeadOfBatch
<1>3. CASE Process(c)
  <2>1. Message(c).id \in EventIDs
      BY <1>2 DEF EventIDs
  <2>2. TypeOK'
      BY <1>3, <2>1 DEF TypeOK, Process, ProcessSucceeds, Goto, redis
  <2>3. NothingLost'
      BY <1>3 DEF NothingLost, Process, ProcessSucceeds, redis
  <2>4. AckIsCommitted'
      BY <1>3 DEF AckIsCommitted, Process, ProcessSucceeds, Goto, Message, redis, TypeOK
  <2> QED BY <2>2, <2>3, <2>4
\* handleMessage returns: the rest of the batch follows.
<1>4. ASSUME NextMessage(c), UNCHANGED <<stream, delivered, run, start>>,
             pel' \subseteq pel, stale' \subseteq pel',
             durable \subseteq durable', durable' \subseteq EventIDs,
             successes' \in Nat, faults' \in 0..MaxFaults
      PROVE  TypeOK' /\ AckIsCommitted'
  <2>1. /\ batch' = [batch EXCEPT ![c] = Tail(batch[c])]
        /\ phase' = [phase EXCEPT ![c] = IF Len(batch[c]) = 1 THEN "poll" ELSE "work"]
      BY <1>4 DEF NextMessage, Goto
  <2>2. batch' \in [Consumers -> Seq(1..delivered')]
      BY <1>2, <1>4, <2>1 DEF TypeOK
  <2>3. \A d \in Consumers : phase'[d] \in {"work", "ack"} => batch'[d] # <<>>
      BY <1>2, <2>1 DEF TypeOK
  <2>4. \A d \in Consumers : phase'[d] # "stopped" => phase[d] # "stopped"
      BY <1>1, <2>1 DEF TypeOK
  <2>5. TypeOK'
      BY <1>4, <2>1, <2>2, <2>3, <2>4 DEF TypeOK
  <2>6. AckIsCommitted'
      BY <1>4, <2>1 DEF AckIsCommitted, Message, TypeOK
  <2> QED BY <2>5, <2>6
<1>5. CASE ProcessFails(c)
  <2>1. Message(c).id \in EventIDs
      BY <1>2 DEF EventIDs
  <2>2. /\ NextMessage(c)
        /\ UNCHANGED <<redis, run, start, successes>>
        /\ durable \subseteq durable' /\ durable' \subseteq EventIDs
        /\ faults' \in 0..MaxFaults
      BY <1>5, <2>1, CountAssumption DEF ProcessFails, ProcessReturnsError, Fault, NoFault, TypeOK
  <2>3. TypeOK' /\ AckIsCommitted'
      BY <1>4, <2>2 DEF redis, TypeOK
  <2>4. NothingLost'
      BY <2>2 DEF NothingLost, redis
  <2> QED BY <2>3, <2>4
<1>6. CountSuccess(c) => successes' \in Nat
    BY CountAssumption DEF CountSuccess, Lesser, TypeOK
<1>7. CASE Ack(c)
  <2>1. stream[Head(batch[c])].id \in durable
      BY <1>7 DEF Ack, AckIsCommitted, Message
  <2>2. TypeOK' /\ AckIsCommitted'
    <3>1. /\ pel' = pel \ {Head(batch[c])} /\ stale' = stale \ {Head(batch[c])}
          /\ NextMessage(c) /\ UNCHANGED <<stream, delivered, durable, run, start, faults>>
          /\ successes' \in Nat
        BY <1>6, <1>7 DEF Ack
    <3>2. pel' \subseteq pel /\ stale' \subseteq pel'
        BY <3>1 DEF TypeOK
    <3> QED BY <1>4, <3>1, <3>2 DEF TypeOK
  <2>3. NothingLost'
      BY <1>7, <2>1 DEF NothingLost, Ack
  <2> QED BY <2>2, <2>3
<1>8. CASE AckFails(c) \/ SkipAck(c)
  <2>1. /\ NextMessage(c) /\ UNCHANGED <<redis, durable, run, start>>
        /\ successes' \in Nat /\ faults' \in 0..MaxFaults
      BY <1>6, <1>8, CountAssumption DEF AckFails, SkipAck, Fault, TypeOK
  <2>2. TypeOK' /\ AckIsCommitted'
      BY <1>4, <2>1 DEF redis, TypeOK
  <2> QED BY <2>1, <2>2, UntouchedStores DEF redis
<1> QED BY <1>3, <1>5, <1>7, <1>8 DEF HandleStep

\* Every step of Redis, the process and its goroutines keeps the invariant.
LEMMA NextDelivery == DeliveryInv /\ [Next]_vars => DeliveryInv'
<1> SUFFICES ASSUME DeliveryInv, [Next]_vars PROVE DeliveryInv'
    OBVIOUS
<1>1. ASSUME NEW m \in Messages, Publish(m) \/ PublishForeign(m) PROVE DeliveryInv'
    BY <1>1, PublishDelivery DEF Publish, PublishForeign
<1>2. ASSUME NEW i \in pel, Age(i) PROVE DeliveryInv'
    BY <1>2, AgeDelivery
<1>3. CASE Start \/ StartFails \/ Cancel \/ Exit \/ Crash
    BY <1>3, ProcessLevelDelivery
<1>4. ASSUME NEW c \in Consumers, HandleStep(c) \/ Stop(c) PROVE DeliveryInv'
    BY <1>4, HandleDelivery, LoopTopDelivery
<1>5. ASSUME NEW w \in Workers, WorkerStep(w) PROVE DeliveryInv'
    BY <1>5, HandleDelivery, LoopTopDelivery, ReadDelivery DEF WorkerStep, Consumers
<1>6. CASE ReclaimerStep
    BY <1>6, ClaimDelivery, LoopTopDelivery DEF ReclaimerStep, Consumers
<1>7. CASE UNCHANGED vars
    BY <1>7, UntouchedStores
    DEF DeliveryInv, TypeOK, AckIsCommitted, Message, vars, redis, consumers
<1> QED BY <1>1, <1>2, <1>3, <1>4, <1>5, <1>6, <1>7 DEF Next

\* The group's bookkeeping, the goroutines' states and what they have in hand
\* stay well formed for every number of workers, entries and faults.
THEOREM DeliveryTypeCorrect == Spec => []TypeOK
<1>1. DeliveryInv => TypeOK
    BY DEF DeliveryInv
<1> QED BY InitDelivery, NextDelivery, <1>1, PTL DEF Spec

\* At-least-once delivery: no entry the consumer group was served is ever
\* missing from both the pending list and the database.
THEOREM DeliveryLosesNothing == Spec => []NothingLost
<1>1. DeliveryInv => NothingLost
    BY DEF DeliveryInv
<1> QED BY InitDelivery, NextDelivery, <1>1, PTL DEF Spec

-----------------------------------------------------------------------------
(* A shutdown leaves no batch half done                                    *)

\* A consumer that is not in the middle of a batch has nothing in hand.
HandsFree(c) == phase[c] \notin {"claiming", "work", "ack"} => batch[c] = <<>>

EmptyHanded == \A c \in Consumers : HandsFree(c)

HandlingInv == DeliveryInv /\ EmptyHanded

\* A step of one consumer concerns nobody else's batch.
LEMMA OneConsumerHands ==
    ASSUME TypeOK, EmptyHanded, NEW c \in Consumers, NEW next, NEW messages,
           phase' = [phase EXCEPT ![c] = next],
           batch' = [batch EXCEPT ![c] = messages],
           next \in {"claiming", "work", "ack"} \/ messages = <<>>
    PROVE  EmptyHanded'
<1> SUFFICES ASSUME NEW d \in Consumers PROVE HandsFree(d)'
    BY DEF EmptyHanded
<1>1. CASE d = c
    BY <1>1 DEF HandsFree, TypeOK
<1>2. CASE d # c
    BY <1>2 DEF HandsFree, EmptyHanded, TypeOK
<1> QED BY <1>1, <1>2

\* Nor does a step that leaves every batch alone and takes nobody out of one.
LEMMA SamePlaceHands ==
    ASSUME TypeOK, EmptyHanded, NEW c \in Consumers, NEW next,
           phase' = [phase EXCEPT ![c] = next], UNCHANGED batch,
           next \in {"claiming", "work", "ack"} \/ phase[c] \in {"poll", "reading"}
    PROVE  EmptyHanded'
<1> SUFFICES ASSUME NEW d \in Consumers PROVE HandsFree(d)'
    BY DEF EmptyHanded
<1>1. CASE d = c
    BY <1>1 DEF HandsFree, EmptyHanded, TypeOK
<1>2. CASE d # c
    BY <1>2 DEF HandsFree, EmptyHanded, TypeOK
<1> QED BY <1>1, <1>2

\* handleMessage goes back to the poll only from the last message of a batch.
LEMMA NextMessageHands ==
    ASSUME TypeOK, EmptyHanded, NEW c \in Consumers, phase[c] \in {"work", "ack"},
           NextMessage(c)
    PROVE  EmptyHanded'
<1>1. batch[c] \in Seq(1..delivered) /\ batch[c] # <<>>
    BY DEF TypeOK
<1>2. /\ Tail(batch[c]) \in Seq(1..delivered)
      /\ Len(Tail(batch[c])) = Len(batch[c]) - 1
    BY <1>1, HeadTailProperties
<1>3. Len(batch[c]) = 1 => Tail(batch[c]) = <<>>
  <2>1. Len(batch[c]) = 1 => Len(Tail(batch[c])) = 0
      BY <1>2
  <2>2. \A s \in Seq(1..delivered) : Len(s) = 0 => s = <<>>
      BY EmptySeq, Zenon
  <2> QED BY <1>2, <2>1, <2>2, Zenon
<1>4. PICK next : next = IF Len(batch[c]) = 1 THEN "poll" ELSE "work"
    OBVIOUS
<1>5. PICK messages : messages = Tail(batch[c])
    OBVIOUS
<1>6. /\ phase' = [phase EXCEPT ![c] = next]
      /\ batch' = [batch EXCEPT ![c] = messages]
    BY <1>4, <1>5 DEF NextMessage, Goto
<1> QED BY <1>3, <1>4, <1>5, <1>6, OneConsumerHands

\* No step of the process leaves a goroutine outside its batch loop with
\* messages in hand.
LEMMA NextHands == HandlingInv /\ [Next]_vars => EmptyHanded'
<1> SUFFICES ASSUME HandlingInv, [Next]_vars PROVE EmptyHanded'
    OBVIOUS
<1>0. TypeOK /\ EmptyHanded /\ Reclaimer \in Consumers /\ Workers \subseteq Consumers
    BY DEF HandlingInv, DeliveryInv, Consumers
<1>1. ASSUME UNCHANGED <<phase, batch>> PROVE EmptyHanded'
    BY <1>0, <1>1 DEF EmptyHanded, HandsFree
<1>2. ASSUME NEW m \in Messages, Publish(m) \/ PublishForeign(m) PROVE EmptyHanded'
    BY <1>1, <1>2 DEF Publish, PublishForeign, XAdd, consumers
<1>3. ASSUME NEW i \in pel, Age(i) PROVE EmptyHanded'
    BY <1>1, <1>3 DEF Age, consumers
<1>4. CASE StartFails \/ Cancel \/ Exit \/ UNCHANGED vars
    BY <1>1, <1>4 DEF StartFails, Cancel, Exit, vars, consumers
<1>5. CASE Start
  <2>1. \A c \in Consumers : batch[c] = <<>>
      BY <1>0, <1>5 DEF Start, TypeOK, EmptyHanded, HandsFree
  <2> QED BY <1>5, <2>1 DEF Start, EmptyHanded, HandsFree
<1>6. CASE Crash
    BY <1>6 DEF Crash, EmptyHanded, HandsFree
<1>7. ASSUME NEW c \in Consumers, Stop(c) PROVE EmptyHanded'
    BY <1>0, <1>7, SamePlaceHands DEF Stop, Goto
<1>8. ASSUME NEW c \in Consumers, Process(c) PROVE EmptyHanded'
    BY <1>0, <1>8, SamePlaceHands DEF Process, ProcessSucceeds, Goto
<1>9. ASSUME NEW c \in Consumers, ProcessFails(c) \/ Ack(c) \/ AckFails(c) \/ SkipAck(c)
      PROVE  EmptyHanded'
  <2>1. NextMessage(c) /\ phase[c] \in {"work", "ack"}
      BY <1>9 DEF ProcessFails, ProcessReturnsError, Ack, AckFails, SkipAck
  <2> QED BY <1>0, <2>1, NextMessageHands
<1>10. ASSUME NEW w \in Workers, CallReadGroup(w) \/ ReadGroupLost(w) \/ ReadGroupFails(w)
       PROVE  EmptyHanded'
    BY <1>0, <1>10, SamePlaceHands DEF CallReadGroup, ReadGroupLost, ReadGroupFails, Goto
<1>11. ASSUME NEW w \in Workers, ReadGroup(w) PROVE EmptyHanded'
  <2> DEFINE n == Lesser(ReadCount, Len(stream) - delivered)
             read == [k \in 1..n |-> delivered + k]
  <2>1. PICK next : next = IF n = 0 THEN "poll" ELSE "work"
      OBVIOUS
  <2>2. PICK messages : messages = read
      OBVIOUS
  <2>3. phase' = [phase EXCEPT ![w] = next] /\ batch' = [batch EXCEPT ![w] = messages]
      BY <1>11, <2>1, <2>2 DEF ReadGroup, Goto
  <2>4. n = 0 => read = <<>>
      OBVIOUS
  <2> HIDE DEF n, read
  <2> QED BY <1>0, <2>1, <2>2, <2>3, <2>4, OneConsumerHands
<1>12. CASE Tick
    BY <1>0, <1>12, SamePlaceHands DEF Tick, Goto
<1>13. CASE ClaimPending
  <2>1. PICK messages, next :
          /\ batch' = [batch EXCEPT ![Reclaimer] = messages]
          /\ phase' = [phase EXCEPT ![Reclaimer] = next]
          /\ next \in {"claiming", "work"} \/ messages = <<>>
      BY <1>13 DEF ClaimPending, Goto
  <2> QED BY <1>0, <2>1, OneConsumerHands
<1>14. CASE ClaimPendingLost \/ ClaimPendingFails
    BY <1>0, <1>14, OneConsumerHands DEF ClaimPendingLost, ClaimPendingFails, DropClaimed, Goto
<1> QED BY <1>0, <1>2, <1>3, <1>4, <1>5, <1>6, <1>7, <1>8, <1>9, <1>10, <1>11, <1>12, <1>13,
           <1>14 DEF Next, HandleStep, WorkerStep, ReclaimerStep

\* What a step may do to a goroutine that it stops.
StopsEmptyHanded ==
    \A c \in Consumers :
        phase[c] # "stopped" /\ phase'[c] = "stopped" => batch[c] = <<>> \/ run' = "down"

\* A goroutine stops at the top of its loop, or with the process.
LEMMA NextStopsEmptyHanded == HandlingInv /\ Next => StopsEmptyHanded
<1> SUFFICES ASSUME HandlingInv, Next, NEW c \in Consumers,
                    phase[c] # "stopped", phase'[c] = "stopped", run' # "down"
             PROVE  batch[c] = <<>>
    BY DEF StopsEmptyHanded
<1>0. TypeOK /\ EmptyHanded /\ Reclaimer \in Consumers /\ Workers \subseteq Consumers
    BY DEF HandlingInv, DeliveryInv, Consumers
<1>1. ASSUME NEW d \in Consumers, NEW next, next # "stopped",
             phase' = [phase EXCEPT ![d] = next]
      PROVE  FALSE
    BY <1>0, <1>1 DEF TypeOK
<1>2. phase' # phase
    OBVIOUS
<1>3. ASSUME NEW d \in Consumers, NextMessage(d) PROVE FALSE
    BY <1>1, <1>3 DEF NextMessage, Goto
<1>4. ~(\E m \in Messages : Publish(m) \/ PublishForeign(m)) /\ ~(\E i \in pel : Age(i))
    BY <1>2 DEF Publish, PublishForeign, XAdd, Age, consumers
<1>5. ~(Start \/ StartFails \/ Cancel \/ Exit \/ Crash)
    BY <1>2 DEF Start, StartFails, Cancel, Exit, Crash, consumers
<1>6. ~ \E d \in Consumers : HandleStep(d)
    BY <1>1, <1>3
    DEF HandleStep, Process, ProcessSucceeds, ProcessFails, ProcessReturnsError, Ack, AckFails,
        Goto
<1>7. ~ \E w \in Workers : WorkerStep(w)
  <2> SUFFICES ASSUME NEW w \in Workers, WorkerStep(w) PROVE FALSE
      OBVIOUS
  <2>1. \/ \E next \in {"poll", "work", "reading"} : phase' = [phase EXCEPT ![w] = next]
        \/ NextMessage(w)
      BY DEF WorkerStep, CallReadGroup, ReadGroup, ReadGroupLost, ReadGroupFails, SkipAck, Goto
  <2> QED BY <1>0, <1>1, <1>3, <2>1
<1>8. ~ReclaimerStep
  <2> SUFFICES ASSUME ReclaimerStep PROVE FALSE
      OBVIOUS
  <2>1. \E next \in {"poll", "work", "claiming"} : phase' = [phase EXCEPT ![Reclaimer] = next]
      BY DEF ReclaimerStep, Tick, ClaimPending, ClaimPendingLost, ClaimPendingFails,
             DropClaimed, Goto
  <2> QED BY <1>0, <1>1, <2>1
<1>9. PICK d \in Consumers : Stop(d)
    BY <1>4, <1>5, <1>6, <1>7, <1>8 DEF Next
<1>10. d = c /\ phase[c] = "poll"
    BY <1>0, <1>9 DEF Stop, Goto, TypeOK
<1> QED BY <1>0, <1>10 DEF EmptyHanded, HandsFree

\* Cancellation of the context stops a goroutine between messages only, for
\* every pool, batch size and moment of the cancellation: a batch that was
\* begun is finished unless the process dies (pool.go:169-176, reclaimer.go:131-134).
THEOREM DeliveryFinishesBatches == Spec => BatchFinished
<1>1. Init => HandlingInv
  <2>1. Init => EmptyHanded
      BY DEF Init, EmptyHanded, HandsFree
  <2> QED BY <2>1, InitDelivery DEF HandlingInv
<1>2. HandlingInv /\ [Next]_vars => HandlingInv'
    BY NextDelivery, NextHands DEF HandlingInv
<1>3. HandlingInv /\ [Next]_vars => [StopsEmptyHanded]_vars
    BY NextStopsEmptyHanded
<1>4. Spec => [][StopsEmptyHanded]_vars
    BY <1>1, <1>2, <1>3, PTL DEF Spec
<1> QED BY <1>4 DEF BatchFinished, StopsEmptyHanded
=============================================================================
