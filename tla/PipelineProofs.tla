--------------------------- MODULE PipelineProofs ---------------------------
(***************************************************************************)
(* The service as a whole, for every pool, batch size, set of scripts and  *)
(* number of faults.                                                       *)
(*                                                                         *)
(* It implements StreamDelivery: handing a message to ProcessEventTx,      *)
(* statement by statement, is one Process or one failure of it.  The step  *)
(* that matters is COMMIT.  It has to add the event in hand to             *)
(* processed_events and nothing else, although it also writes the outcomes *)
(* of the pending events it replayed.  PipelineInv says why: a transaction *)
(* is open only while its consumer handles the very message it was begun   *)
(* for, and whatever else it has written was recorded by an earlier one.   *)
(*                                                                         *)
(* Its counters are true to the tables and to the stream.  A number says   *)
(* too little to be inductive, so the invariants speak of sets: of entries *)
(* the reclaimer has counted, acknowledged and put away (RecoveryInv), and *)
(* of history rows counted, and committed but not counted yet, by whom     *)
(* (CountInv, on top of TallyInv, what each open transaction will report). *)
(***************************************************************************)
EXTENDS Pipeline, SequenceTheorems, FiniteSetTheorems, TLAPS

Messages == {Entry(e) : e \in Published}

Phases == {"stopped", "poll", "reading", "claiming", "work", "ack"}

\* What the group was served and what the consumers have in hand.
Served ==
    /\ stream \in Seq(Messages)
    /\ delivered \in {-1} \cup 0..Len(stream)
    /\ pel \subseteq 1..delivered
    /\ stale \subseteq pel
    /\ phase \in [D!Consumers -> Phases]
    /\ batch \in [D!Consumers -> Seq(1..delivered)]
    /\ \A c \in D!Consumers : /\ phase[c] \in {"work", "ack"} => batch[c] # <<>>
                              /\ phase[c] # "stopped" => delivered # -1 /\ run # "down"

\* A consumer that handles a message goes on handling it.
Undisturbed(c) ==
    phase[c] = "work" => phase'[c] = "work" /\ D!Message(c)' = D!Message(c)

-----------------------------------------------------------------------------
(* The delivery's side                                                     *)

\* A batch of positions stays one when more entries have been delivered.
LEMMA BatchGrows ==
    ASSUME NEW m \in Int, NEW n \in Int, m <= n, NEW s \in Seq(1..m)
    PROVE  s \in Seq(1..n)
<1>1. 1..m \subseteq 1..n
    OBVIOUS
<1> QED BY <1>1, SeqMonotonic

\* What a consumer handles is an entry that was published.
LEMMA InHand ==
    ASSUME Served, NEW c \in D!Consumers, phase[c] \in {"work", "ack"}
    PROVE  /\ Head(batch[c]) \in 1..delivered
           /\ Head(batch[c]) \in 1..Len(stream)
           /\ D!Message(c) \in Messages
           /\ Tail(batch[c]) \in Seq(1..delivered)
           /\ Len(batch[c]) # 1 => Tail(batch[c]) # <<>>
<1>1. batch[c] \in Seq(1..delivered) /\ batch[c] # <<>>
    BY DEF Served
<1>2. /\ Head(batch[c]) \in 1..delivered
      /\ Tail(batch[c]) \in Seq(1..delivered)
      /\ Len(Tail(batch[c])) = Len(batch[c]) - 1
    BY <1>1, HeadTailProperties
<1>3. Len(batch[c]) # 1 => Tail(batch[c]) # <<>>
  <2>1. Len(batch[c]) \in Nat
      BY <1>1, LenProperties
  <2>2. Len(batch[c]) # 1 => Len(Tail(batch[c])) # 0
      BY <1>2, <2>1
  <2>3. \A s : s = <<>> => Len(s) = 0
      OBVIOUS
  <2> QED BY <2>2, <2>3, Zenon
<1>4. delivered \in Int /\ delivered <= Len(stream)
    BY LenProperties DEF Served
<1>5. Head(batch[c]) \in 1..Len(stream)
    BY <1>2, <1>4, LenProperties DEF Served
<1>6. D!Message(c) \in Messages
    BY <1>5, ElementOfSeq DEF Served, D!Message
<1> QED BY <1>2, <1>3, <1>5, <1>6

\* One consumer moves on; the group may have been served further.
LEMMA ConsumerMoves ==
    ASSUME Served, NEW c \in D!Consumers, NEW next \in Phases, NEW messages,
           phase[c] # "stopped",
           phase' = [phase EXCEPT ![c] = next],
           batch' = [batch EXCEPT ![c] = messages],
           messages \in Seq(1..delivered'),
           next \in {"work", "ack"} => messages # <<>>,
           delivered' \in delivered..Len(stream),
           pel' \subseteq 1..delivered', stale' \subseteq pel',
           UNCHANGED <<stream, run>>
    PROVE  Served' /\ \A d \in D!Consumers \ {c} : Undisturbed(d)
<1>1. /\ delivered \in Int /\ delivered' \in Int /\ delivered <= delivered'
      /\ delivered # -1 /\ delivered' # -1 /\ run # "down"
      /\ Len(stream) \in Nat
    BY LenProperties DEF Served
<1>2. batch' \in [D!Consumers -> Seq(1..delivered')]
    BY <1>1, BatchGrows DEF Served
<1>3. phase' \in [D!Consumers -> Phases]
    BY DEF Served
<1>4. \A d \in D!Consumers : phase'[d] \in {"work", "ack"} => batch'[d] # <<>>
    BY DEF Served
<1>5. stream' \in Seq(Messages) /\ delivered' \in {-1} \cup 0..Len(stream')
    BY <1>1 DEF Served
<1>6. Served'
    BY <1>1, <1>2, <1>3, <1>4, <1>5 DEF Served
<1>7. \A d \in D!Consumers \ {c} : Undisturbed(d)
    BY DEF Undisturbed, D!Message, Served
<1> QED BY <1>6, <1>7

\* One consumer moves on with what it has in hand.
LEMMA ConsumerTurns ==
    ASSUME Served, NEW c \in D!Consumers, NEW next \in Phases,
           phase[c] # "stopped", phase' = [phase EXCEPT ![c] = next],
           next \in {"work", "ack"} => batch[c] # <<>>,
           UNCHANGED <<stream, delivered, pel, stale, batch, run>>
    PROVE  Served' /\ \A d \in D!Consumers \ {c} : Undisturbed(d)
<1>1. PICK messages : messages = batch[c]
    OBVIOUS
<1>2. batch' = [batch EXCEPT ![c] = messages] /\ messages \in Seq(1..delivered')
    BY <1>1 DEF Served
<1>3. delivered' \in delivered..Len(stream)
    BY LenProperties DEF Served
<1> QED BY <1>1, <1>2, <1>3, ConsumerMoves DEF Served

\* Nothing is delivered, nobody moves.
LEMMA NobodyMoves ==
    ASSUME Served, UNCHANGED <<stream, delivered, pel, phase, batch>>,
           stale' \subseteq pel, run' # "down" \/ run = "down"
    PROVE  Served' /\ \A d \in D!Consumers : Undisturbed(d)
BY DEF Served, Undisturbed, D!Message

\* A new entry leaves the positions of the others alone.
LEMMA PublishServes ==
    ASSUME Served, NEW m \in Messages, D!XAdd(m)
    PROVE  Served' /\ \A d \in D!Consumers : Undisturbed(d)
<1>1. /\ stream' \in Seq(Messages)
      /\ Len(stream') = Len(stream) + 1
      /\ Len(stream) \in Nat
      /\ \A i \in 1..Len(stream) : stream'[i] = stream[i]
    BY AppendProperties, LenProperties DEF Served, D!XAdd
<1>2. UNCHANGED <<delivered, pel, stale, run, phase, batch>>
    BY DEF D!XAdd, D!consumers
<1>3. Served'
    BY <1>1, <1>2 DEF Served
<1>4. \A d \in D!Consumers : Undisturbed(d)
    BY <1>1, <1>2, InHand DEF Undisturbed, D!Message
<1> QED BY <1>3, <1>4

\* Start, StartFails, Cancel and Exit.
LEMMA ProcessServes ==
    ASSUME Served, D!Start \/ D!StartFails \/ D!Cancel \/ D!Exit
    PROVE  Served' /\ \A d \in D!Consumers : Undisturbed(d)
<1>1. ASSUME D!EnsureGroup \/ UNCHANGED delivered, UNCHANGED <<stream, pel, stale, batch>>
      PROVE  /\ stream' \in Seq(Messages)
             /\ delivered' \in {-1} \cup 0..Len(stream')
             /\ pel' \subseteq 1..delivered'
             /\ stale' \subseteq pel'
             /\ batch' \in [D!Consumers -> Seq(1..delivered')]
             /\ delivered # -1 => delivered' = delivered
             /\ D!EnsureGroup => delivered' # -1
  <2>1. /\ Len(stream) \in Nat
        /\ delivered \in Int /\ delivered' \in Int
        /\ 1..delivered' = 1..delivered
      BY <1>1, LenProperties DEF Served, D!EnsureGroup, D!NoGroup
  <2>2. batch' \in [D!Consumers -> Seq(1..delivered')]
      BY <1>1, <2>1 DEF Served
  <2> QED BY <1>1, <2>1, <2>2 DEF Served, D!EnsureGroup, D!NoGroup
<1>2. CASE D!Start
  <2>1. \A d \in D!Consumers : phase[d] = "stopped"
      BY <1>2 DEF D!Start, Served
  <2>2. Served'
      BY <1>1, <1>2 DEF Served, D!Start, Phases
  <2> QED BY <2>1, <2>2 DEF Undisturbed
<1>3. CASE D!StartFails
    BY <1>1, <1>3 DEF Served, D!StartFails, D!consumers, Undisturbed, D!Message
<1>4. CASE D!Cancel
    BY <1>4, NobodyMoves DEF D!Cancel, D!redis, D!consumers, Served
<1>5. CASE D!Exit
    BY <1>5 DEF D!Exit, D!redis, D!consumers, Served, Undisturbed, D!Message
<1> QED BY <1>2, <1>3, <1>4, <1>5

\* A crash takes the batches away.
LEMMA CrashServes == Served /\ D!Crash => Served'
BY EmptySeq DEF D!Crash, D!redis, Served, Phases

\* handleMessage returns: the rest of the batch follows.
LEMMA NextMessageServes ==
    ASSUME Served, NEW c \in D!Consumers, phase[c] \in {"work", "ack"}, D!NextMessage(c),
           UNCHANGED <<stream, delivered, run>>, pel' \subseteq pel, stale' \subseteq pel'
    PROVE  Served' /\ \A d \in D!Consumers \ {c} : Undisturbed(d)
<1>1. PICK messages : messages = Tail(batch[c])
    OBVIOUS
<1>2. PICK next \in Phases : next = IF Len(batch[c]) = 1 THEN "poll" ELSE "work"
    BY DEF Phases
<1>3. /\ batch' = [batch EXCEPT ![c] = messages]
      /\ phase' = [phase EXCEPT ![c] = next]
    BY <1>1, <1>2 DEF D!NextMessage, D!Goto
<1>4. messages \in Seq(1..delivered') /\ (next \in {"work", "ack"} => messages # <<>>)
    BY <1>1, <1>2, InHand
<1>5. delivered' \in delivered..Len(stream) /\ pel' \subseteq 1..delivered'
    BY LenProperties DEF Served
<1> QED BY <1>3, <1>4, <1>5, ConsumerMoves

\* XREADGROUP with its reply, without it, or without effect.
LEMMA ReadServes ==
    ASSUME Served, NEW w \in D!Consumers,
           D!CallReadGroup(w) \/ D!ReadGroup(w) \/ D!ReadGroupLost(w) \/ D!ReadGroupFails(w)
    PROVE  Served' /\ \A d \in D!Consumers \ {w} : Undisturbed(d)
<1>1. CASE D!CallReadGroup(w) \/ D!ReadGroupFails(w)
  <2>1. PICK next \in {"poll", "reading"} : phase' = [phase EXCEPT ![w] = next]
      BY <1>1 DEF D!CallReadGroup, D!ReadGroupFails, D!Goto
  <2>2. UNCHANGED <<stream, delivered, pel, stale, batch, run>> /\ phase[w] # "stopped"
      BY <1>1 DEF D!CallReadGroup, D!ReadGroupFails, D!redis
  <2> QED BY <2>1, <2>2, ConsumerTurns DEF Phases
<1>2. CASE D!ReadGroup(w) \/ D!ReadGroupLost(w)
  <2>1. phase[w] = "reading"
      BY <1>2 DEF D!ReadGroup, D!ReadGroupLost
  <2>2. delivered \in Nat /\ Len(stream) \in Nat /\ delivered <= Len(stream)
      BY <2>1, LenProperties DEF Served
  <2>3. PICK n : n = D!Lesser(ReadCount, Len(stream) - delivered)
      OBVIOUS
  <2>4. n \in 0..(Len(stream) - delivered)
      BY <2>2, <2>3, SettingsAssumption DEF D!Lesser
  <2>5. D!Deliver(n)
      BY <1>2, <2>3 DEF D!ReadGroup, D!ReadGroupLost
  <2>6. /\ delivered' = delivered + n /\ delivered' \in delivered..Len(stream)
        /\ UNCHANGED <<stream, stale>>
        /\ pel' \subseteq 1..delivered' /\ stale' \subseteq pel'
      BY <2>2, <2>4, <2>5 DEF D!Deliver, Served
  <2>7. UNCHANGED run
      BY <1>2 DEF D!ReadGroup, D!ReadGroupLost
  <2>8. CASE D!ReadGroup(w)
    <3>1. PICK messages : messages = [k \in 1..n |-> delivered + k]
        OBVIOUS
    <3>2. PICK next \in Phases : next = IF n = 0 THEN "poll" ELSE "work"
        BY DEF Phases
    <3>3. batch' = [batch EXCEPT ![w] = messages] /\ phase' = [phase EXCEPT ![w] = next]
        BY <2>3, <2>8, <3>1, <3>2 DEF D!ReadGroup, D!Goto
    <3>4. messages \in Seq(1..delivered')
      <4>1. \A k \in 1..n : delivered + k \in 1..delivered'
          BY <2>2, <2>4, <2>6
      <4> QED BY <2>2, <2>4, <3>1, <4>1, IsASeq
    <3>5. next \in {"work", "ack"} => messages # <<>>
      <4>1. ASSUME n # 0 PROVE 1 \in DOMAIN messages
          BY <2>2, <2>4, <3>1, <4>1
      <4> QED BY <3>2, <4>1
    <3> QED BY <2>1, <2>6, <2>7, <3>3, <3>4, <3>5, ConsumerMoves
  <2>9. CASE D!ReadGroupLost(w)
    <3>1. PICK messages : messages = batch[w]
        OBVIOUS
    <3>2. batch' = [batch EXCEPT ![w] = messages] /\ phase' = [phase EXCEPT ![w] = "poll"]
        BY <2>9, <3>1 DEF D!ReadGroupLost, D!Goto, Served
    <3>3. messages \in Seq(1..delivered)
        BY <3>1 DEF Served
    <3>4. messages \in Seq(1..delivered')
        BY <2>2, <2>4, <2>6, <3>3, BatchGrows
    <3> QED BY <2>1, <2>6, <2>7, <3>2, <3>4, ConsumerMoves DEF Phases
  <2> QED BY <1>2, <2>8, <2>9
<1> QED BY <1>1, <1>2

\* What XAUTOCLAIM returns is on the pending list, from which it takes nothing.
LEMMA ClaimedServed ==
    ASSUME Served, NEW last, NEW claimed \in D!Claims(last), D!XAutoClaim(last, claimed)
    PROVE  /\ claimed \in Seq(1..delivered)
           /\ UNCHANGED <<stream, delivered, pel>>
           /\ stale' \subseteq pel'
<1>1. PICK k \in 0..ReclaimCount : claimed \in [1..k -> D!Scanned(last) \cap stale]
    BY DEF D!Claims
<1>2. D!Scanned(last) \cap stale \subseteq 1..delivered
    BY DEF D!Scanned, Served
<1>3. claimed \in Seq(D!Scanned(last) \cap stale)
    BY <1>1, SettingsAssumption, SeqDef
<1>4. claimed \in Seq(1..delivered)
    BY <1>2, <1>3, SeqMonotonic
<1> QED BY <1>4 DEF D!XAutoClaim, Served

\* The reclaimer's rounds.
LEMMA ClaimServes ==
    ASSUME Served, D!ReclaimerStep
    PROVE  Served' /\ \A d \in D!Consumers \ {Reclaimer} : Undisturbed(d)
<1>0. Reclaimer \in D!Consumers
    BY DEF D!Consumers
<1>1. CASE D!Tick
  <2>1. /\ phase' = [phase EXCEPT ![Reclaimer] = "claiming"] /\ phase[Reclaimer] = "poll"
        /\ UNCHANGED <<stream, delivered, pel, stale, batch, run>>
      BY <1>1 DEF D!Tick, D!Goto, D!redis
  <2> QED BY <1>0, <2>1, ConsumerTurns DEF Phases
<1>2. ASSUME NEW messages \in Seq(1..delivered), NEW next \in Phases,
             phase[Reclaimer] = "claiming",
             batch' = [batch EXCEPT ![Reclaimer] = messages],
             phase' = [phase EXCEPT ![Reclaimer] = next],
             next \in {"work", "ack"} => messages # <<>>,
             UNCHANGED <<stream, delivered, pel, run>>, stale' \subseteq pel'
      PROVE  Served' /\ \A d \in D!Consumers \ {Reclaimer} : Undisturbed(d)
  <2>1. delivered' \in delivered..Len(stream) /\ pel' \subseteq 1..delivered'
      BY <1>2, LenProperties DEF Served
  <2> QED BY <1>0, <1>2, <2>1, ConsumerMoves
<1>3. CASE D!ClaimPending
  <2>1. PICK last \in D!Positions \cup {0} : \E claimed \in D!Claims(last) :
            /\ D!XAutoClaim(last, claimed)
            /\ batch' = [batch EXCEPT ![Reclaimer] = batch[Reclaimer] \o claimed]
            /\ \E after \in {"claiming", "poll", "work"} :
                  /\ phase' = [phase EXCEPT ![Reclaimer] = after]
                  /\ after = "work" => batch[Reclaimer] \o claimed # <<>>
      BY <1>3 DEF D!ClaimPending, D!Goto
  <2>2. PICK claimed \in D!Claims(last), after \in {"claiming", "poll", "work"} :
            /\ D!XAutoClaim(last, claimed)
            /\ batch' = [batch EXCEPT ![Reclaimer] = batch[Reclaimer] \o claimed]
            /\ phase' = [phase EXCEPT ![Reclaimer] = after]
            /\ after = "work" => batch[Reclaimer] \o claimed # <<>>
      BY <2>1
  <2>3. PICK messages : messages = batch[Reclaimer] \o claimed
      OBVIOUS
  <2>4. messages \in Seq(1..delivered)
      BY <1>0, <2>2, <2>3, ClaimedServed, ConcatProperties DEF Served
  <2>5. UNCHANGED <<stream, delivered, pel>> /\ stale' \subseteq pel'
      BY <2>2, ClaimedServed
  <2>6. UNCHANGED run /\ phase[Reclaimer] = "claiming"
      BY <1>3 DEF D!ClaimPending
  <2> QED BY <1>2, <2>2, <2>3, <2>4, <2>5, <2>6 DEF Phases
<1>4. CASE D!ClaimPendingLost \/ D!ClaimPendingFails
  <2>1. UNCHANGED <<stream, delivered, pel>> /\ stale' \subseteq pel'
      BY <1>4, ClaimedServed DEF D!ClaimPendingLost, D!ClaimPendingFails, D!redis, Served
  <2>2. /\ phase[Reclaimer] = "claiming" /\ UNCHANGED run
        /\ batch' = [batch EXCEPT ![Reclaimer] = <<>>]
        /\ phase' = [phase EXCEPT ![Reclaimer] = "poll"]
      BY <1>4 DEF D!ClaimPendingLost, D!ClaimPendingFails, D!DropClaimed, D!Goto
  <2> QED BY <1>2, <2>1, <2>2, EmptySeq DEF Phases
<1> QED BY <1>1, <1>3, <1>4 DEF D!ReclaimerStep

-----------------------------------------------------------------------------
(* The write set of a transaction                                          *)

\* The event_ids a write set has an outcome for.
Writes(w) == {i \in Ids : w.outcome[i] # ""}

\* w has the fields of a write set, and an outcome or none for every event_id.
IsWriteSet(w) ==
    /\ w = [outcome |-> w.outcome, order |-> w.order, history |-> w.history,
            defer |-> w.defer, settle |-> w.settle, dead |-> w.dead]
    /\ w.outcome = [i \in Ids |-> w.outcome[i]]

\* v is w with an outcome for event_id i, and perhaps another deferred row.
Adds(w, v, i, rows) ==
    /\ IsWriteSet(v)
    /\ Writes(v) = Writes(w) \cup {i}
    /\ v.defer = w.defer \cup rows

\* An open transaction begins with nothing written.
LEMMA NothingWritten == IsWriteSet(R!NoWrites) /\ Writes(R!NoWrites) = {} /\ R!NoWrites.defer = {}
BY DEF IsWriteSet, Writes, R!NoWrites

\* updateOutcome
LEMMA OutcomeAdds ==
    ASSUME NEW w, IsWriteSet(w), NEW row, row.id \in Ids, NEW outcome, outcome # ""
    PROVE  Adds(w, R!updateOutcome(w, row, outcome), row.id, {})
<1> DEFINE v == R!updateOutcome(w, row, outcome)
<1>0. w = [outcome |-> w.outcome, order |-> w.order, history |-> w.history,
           defer |-> w.defer, settle |-> w.settle, dead |-> w.dead]
    BY DEF IsWriteSet
<1>1. PICK x : x = [w.outcome EXCEPT ![row.id] = outcome]
    OBVIOUS
<1>2. v = [w EXCEPT !.outcome = x]
    BY <1>0, <1>1 DEF R!updateOutcome
<1> HIDE DEF v
<1>3. v = [outcome |-> x, order |-> w.order, history |-> w.history, defer |-> w.defer,
           settle |-> w.settle, dead |-> w.dead]
    BY <1>0, <1>2
<1>4. x = [i \in Ids |-> IF i = row.id THEN outcome ELSE w.outcome[i]]
    BY <1>1 DEF IsWriteSet
<1>5. IsWriteSet(v)
    BY <1>3, <1>4 DEF IsWriteSet
<1>6. v.defer = w.defer /\ \A i \in Ids : v.outcome[i] = IF i = row.id THEN outcome
                                                       ELSE w.outcome[i]
    BY <1>3, <1>4
<1>7. Writes(v) = Writes(w) \cup {row.id}
    BY <1>6 DEF Writes
<1> QED BY <1>5, <1>6, <1>7 DEF Adds, v

\* A write that does not touch the outcomes, followed by updateOutcome
LEMMA WriteThenOutcome ==
    ASSUME NEW w, IsWriteSet(w), NEW row, row.id \in Ids, NEW outcome, outcome # "",
           NEW v, NEW a, NEW b, NEW rows, NEW s, NEW x,
           v = [outcome |-> w.outcome, order |-> a, history |-> b,
                defer |-> w.defer \cup rows, settle |-> s, dead |-> x]
    PROVE  Adds(w, R!updateOutcome(v, row, outcome), row.id, rows)
<1>1. IsWriteSet(v) /\ Writes(v) = Writes(w) /\ v.defer = w.defer \cup rows
    BY DEF IsWriteSet, Writes
<1>2. Adds(v, R!updateOutcome(v, row, outcome), row.id, {})
    BY <1>1, OutcomeAdds
<1> QED BY <1>1, <1>2 DEF Adds

\* applyEvent, insertPendingEvent and insertDeadLetterEvent write an outcome for
\* their row and for no other.
LEMMA StatementAdds ==
    ASSUME NEW w, IsWriteSet(w), NEW row, row.id \in Ids, NEW from
    PROVE  /\ Adds(w, R!applyEvent(w, row, from), row.id, {})
           /\ Adds(w, R!insertPendingEvent(w, row), row.id, {row})
           /\ Adds(w, R!insertDeadLetterEvent(w, row), row.id, {})
<1>0. w = [outcome |-> w.outcome, order |-> w.order, history |-> w.history,
           defer |-> w.defer, settle |-> w.settle, dead |-> w.dead]
    BY DEF IsWriteSet
<1>1. Adds(w, R!applyEvent(w, row, from), row.id, {})
  <2>1. PICK a : a = [status |-> row.status, ts |-> row.ts]
      OBVIOUS
  <2>2. PICK b : b = Append(w.history, [id |-> row.id, from |-> from, to |-> row.status,
                                         ts |-> row.ts])
      OBVIOUS
  <2>3. PICK v : v = [w EXCEPT !.order = a, !.history = b]
      OBVIOUS
  <2>4. R!applyEvent(w, row, from) = R!updateOutcome(v, row, "APPLIED")
      BY <1>0, <2>1, <2>2, <2>3 DEF R!applyEvent
  <2>5. v = [outcome |-> w.outcome, order |-> a, history |-> b,
             defer |-> w.defer \cup {}, settle |-> w.settle, dead |-> w.dead]
      BY <1>0, <2>3
  <2> QED BY <2>4, <2>5, WriteThenOutcome
<1>2. Adds(w, R!insertPendingEvent(w, row), row.id, {row})
  <2>1. PICK v : v = [w EXCEPT !.defer = w.defer \cup {row}]
      OBVIOUS
  <2>2. R!insertPendingEvent(w, row) = R!updateOutcome(v, row, "OUT_OF_ORDER")
      BY <1>0, <2>1 DEF R!insertPendingEvent
  <2>3. v = [outcome |-> w.outcome, order |-> w.order, history |-> w.history,
             defer |-> w.defer \cup {row}, settle |-> w.settle, dead |-> w.dead]
      BY <1>0, <2>1
  <2> QED BY <2>2, <2>3, WriteThenOutcome
<1>3. Adds(w, R!insertDeadLetterEvent(w, row), row.id, {})
  <2>1. PICK x : x = [w.dead EXCEPT ![row.id] = @ + 1]
      OBVIOUS
  <2>2. PICK v : v = [w EXCEPT !.dead = x]
      OBVIOUS
  <2>3. R!insertDeadLetterEvent(w, row) = R!updateOutcome(v, row, "INVALID_TRANSITION")
      BY <1>0, <2>1, <2>2 DEF R!insertDeadLetterEvent
  <2>4. v = [outcome |-> w.outcome, order |-> w.order, history |-> w.history,
             defer |-> w.defer \cup {}, settle |-> w.settle, dead |-> x]
      BY <1>0, <2>2
  <2> QED BY <2>3, <2>4, WriteThenOutcome
<1> QED BY <1>1, <1>2, <1>3

\* deletePending completes the replay of a row and writes no outcome.
LEMMA DeletePendingAdds ==
    ASSUME NEW w, NEW v, NEW row, NEW i, NEW rows, Adds(w, v, i, rows)
    PROVE  Adds(w, R!deletePending(v, row), i, rows)
<1> DEFINE u == R!deletePending(v, row)
<1>1. v = [outcome |-> v.outcome, order |-> v.order, history |-> v.history,
           defer |-> v.defer, settle |-> v.settle, dead |-> v.dead]
    BY DEF Adds, IsWriteSet
<1>2. u = [outcome |-> v.outcome, order |-> v.order, history |-> v.history,
           defer |-> v.defer, settle |-> v.settle \cup {row}, dead |-> v.dead]
    BY <1>1 DEF R!deletePending
<1> HIDE DEF u
<1>3. IsWriteSet(u) /\ Writes(u) = Writes(v) /\ u.defer = v.defer
    BY <1>2 DEF Adds, IsWriteSet, Writes
<1> QED BY <1>3 DEF Adds, u

-----------------------------------------------------------------------------
(* The invariant                                                           *)

\* The event_ids in processed_events
Durable == {i \in Ids : processed[i] # R!NotProcessed}

Callers == /\ DOMAIN pc = D!Consumers /\ DOMAIN ev = D!Consumers
           /\ DOMAIN ws = D!Consumers /\ DOMAIN result = D!Consumers

\* A deferred event was recorded when it was deferred.
Deferred == \A r \in pending : r.id \in Durable

\* A transaction is open only while its consumer handles the message it was
\* begun for.
Handling(c) ==
    pc[c] # "idle" => /\ phase[c] = "work"
                      /\ ev[c] = R!Row(Event(c))
                      /\ R!validateEvent(Event(c))

\* What a transaction has written an outcome for is its own event or was
\* recorded before, and past the INSERT its own event is one or the other.
Writing(c) ==
    /\ IsWriteSet(ws[c])
    /\ pc[c] \in {"idle", "lock", "insert"} => ws[c] = R!NoWrites
    /\ pc[c] \notin {"idle", "lock", "insert"} => ev[c].id \in Durable \cup Writes(ws[c])
    /\ Writes(ws[c]) \subseteq Durable \cup {ev[c].id}
    /\ ws[c].defer \subseteq {ev[c]}
    /\ ws[c].defer # {} => ev[c].id \in Writes(ws[c])

PipelineInv == /\ Served /\ Callers /\ Deferred
               /\ \A c \in D!Consumers : Handling(c) /\ Writing(c)

\* The event of an open transaction is the one on the stream.
LEMMA InTransaction ==
    ASSUME Served, NEW c \in D!Consumers, Handling(c), pc[c] # "idle"
    PROVE  /\ phase[c] = "work"
           /\ ev[c].id \in Ids
           /\ ev[c].id = D!Message(c).id
           /\ D!Message(c).form = "valid"
<1>1. phase[c] = "work" /\ ev[c] = R!Row(Event(c)) /\ R!validateEvent(Event(c))
    BY DEF Handling
<1>2. PICK e \in Published : D!Message(c) = Entry(e)
    BY <1>1, InHand DEF Messages
<1>3. Event(c) = e /\ D!Message(c).id = e.id
    BY <1>2 DEF Event, Entry
<1>4. isKnown(e.status)
    BY <1>1, <1>3 DEF R!validateEvent, R!isPersistableStatus, isKnown, Status
<1>5. ev[c].id = e.id /\ e.id \in Ids
    BY <1>1, <1>3 DEF R!Row, Ids
<1> QED BY <1>1, <1>2, <1>3, <1>4, <1>5 DEF Entry

\* What a consumer has in hand is acceptable to validateEvent or not.
LEMMA FormOfMessage ==
    ASSUME Served, NEW c \in D!Consumers, phase[c] \in {"work", "ack"}
    PROVE  D!Message(c).form \in {"valid", "refused"}
BY InHand DEF Messages, Entry

\* Whoever is not concerned by a step keeps his transaction.
LEMMA OthersKeepWriting ==
    ASSUME NEW d \in D!Consumers, Writing(d), Durable \subseteq Durable',
           pc'[d] = pc[d], ev'[d] = ev[d], ws'[d] = ws[d]
    PROVE  Writing(d)'
BY DEF Writing

\* He goes on with the same message.
LEMMA OthersKeepHandling ==
    ASSUME NEW d \in D!Consumers, Handling(d), Undisturbed(d), pc'[d] = pc[d], ev'[d] = ev[d]
    PROVE  Handling(d)'
BY DEF Handling, Undisturbed, Event

\* The initial state.
LEMMA InitPipeline == Init => PipelineInv
<1> SUFFICES ASSUME Init PROVE PipelineInv
    OBVIOUS
<1>1. Served
    BY EmptySeq DEF Init, D!Init, D!NoGroup, Served, Phases
<1>2. Callers /\ Deferred /\ (\A c \in D!Consumers : pc[c] = "idle" /\ ws[c] = R!NoWrites)
    BY DEF Init, R!Init, Callers, Deferred, D!Consumers
<1>3. \A c \in D!Consumers : Handling(c) /\ Writing(c)
    BY <1>2, NothingWritten DEF Handling, Writing
<1> QED BY <1>1, <1>2, <1>3 DEF PipelineInv

\* A step of the delivery that leaves the database alone.
LEMMA DatabaseIdle ==
    ASSUME PipelineInv, Served', UNCHANGED database,
           \A d \in D!Consumers : Undisturbed(d) \/ phase[d] # "work"
    PROVE  PipelineInv'
<1>1. UNCHANGED <<processed, pending, pc, ev, ws, result>>
    BY DEF database, tables
<1>2. UNCHANGED Durable
    BY <1>1 DEF Durable
<1>3. ASSUME NEW d \in D!Consumers PROVE Handling(d)' /\ Writing(d)'
  <2>1. Handling(d) /\ Writing(d)
      BY DEF PipelineInv
  <2>2. Handling(d)'
    <3>1. CASE Undisturbed(d)
        BY <1>1, <2>1, <3>1, OthersKeepHandling
    <3>2. CASE phase[d] # "work"
        BY <1>1, <2>1, <3>2 DEF Handling
    <3> QED BY <3>1, <3>2
  <2>3. Writing(d)'
      BY <1>1, <1>2, <2>1, OthersKeepWriting
  <2> QED BY <2>2, <2>3
<1>4. Callers' /\ Deferred'
    BY <1>1, <1>2 DEF PipelineInv, Callers, Deferred
<1> QED BY <1>3, <1>4 DEF PipelineInv

\* A statement of c's transaction that leaves delivery and the tables alone.
LEMMA OnlyCaller ==
    ASSUME PipelineInv, NEW c \in D!Consumers, UNCHANGED <<delivery, tables>>, Callers',
           \A d \in D!Consumers \ {c} : pc'[d] = pc[d] /\ ev'[d] = ev[d] /\ ws'[d] = ws[d],
           Handling(c)', Writing(c)'
    PROVE  PipelineInv'
<1>1. UNCHANGED <<stream, delivered, pel, stale, run, phase, batch, processed, pending>>
    BY DEF delivery, tables
<1>2. Served' /\ UNCHANGED Durable /\ Deferred'
    BY <1>1 DEF PipelineInv, Served, Durable, Deferred
<1>3. ASSUME NEW d \in D!Consumers, d # c PROVE Handling(d)' /\ Writing(d)'
  <2>1. Undisturbed(d)
      BY <1>1 DEF Undisturbed, D!Message
  <2>2. Handling(d) /\ Writing(d)
      BY DEF PipelineInv
  <2> QED BY <1>2, <1>3, <2>1, <2>2, OthersKeepHandling, OthersKeepWriting
<1> QED BY <1>2, <1>3 DEF PipelineInv

-----------------------------------------------------------------------------
(* The transaction                                                         *)

\* BEGIN for the message in hand
LEMMA BeginPipeline ==
    ASSUME PipelineInv, NEW c \in D!Consumers, Begin(c)
    PROVE  PipelineInv'
<1>1. /\ UNCHANGED <<delivery, tables, ws>>
      /\ pc[c] = "idle" /\ phase[c] = "work" /\ R!validateEvent(Event(c))
      /\ pc' = [pc EXCEPT ![c] = "lock"]
      /\ ev' = [ev EXCEPT ![c] = R!Row(Event(c))]
      /\ DOMAIN result' = DOMAIN result
    BY DEF Begin, R!BeginTx, R!tables, tables
<1>2. Callers' /\ pc'[c] = "lock" /\ ev'[c] = R!Row(Event(c)) /\ ws'[c] = ws[c]
    BY <1>1 DEF PipelineInv, Callers
<1>3. UNCHANGED <<stream, phase, batch, processed>>
    BY <1>1 DEF delivery, tables
<1>4. Event(c)' = Event(c)
    BY <1>3 DEF Event, D!Message
<1>5. Handling(c)'
    BY <1>1, <1>2, <1>3, <1>4 DEF Handling
<1>6. ws[c] = R!NoWrites
    BY <1>1 DEF PipelineInv, Writing
<1>7. Writing(c)'
    BY <1>2, <1>6, NothingWritten DEF Writing
<1> QED BY <1>1, <1>2, <1>5, <1>7, OnlyCaller DEF PipelineInv, Callers

\* A statement inside c's transaction, which keeps its event.
LEMMA InsideTx ==
    ASSUME PipelineInv, NEW c \in D!Consumers, UNCHANGED <<delivery, tables, ev>>,
           pc[c] # "idle", Callers',
           \A d \in D!Consumers \ {c} : pc'[d] = pc[d] /\ ws'[d] = ws[d],
           Writing(c)'
    PROVE  PipelineInv'
<1>1. UNCHANGED <<stream, phase, batch>>
    BY DEF delivery
<1>2. Event(c)' = Event(c)
    BY <1>1 DEF Event, D!Message
<1>3. Handling(c)'
    BY <1>1, <1>2 DEF PipelineInv, Handling
<1> QED BY <1>3, OnlyCaller

\* A statement that writes the outcome of its own event or of a recorded one.
LEMMA WritesOutcome ==
    ASSUME PipelineInv, NEW c \in D!Consumers, UNCHANGED <<delivery, tables, ev>>,
           pc[c] # "idle", Callers',
           \A d \in D!Consumers \ {c} : pc'[d] = pc[d] /\ ws'[d] = ws[d],
           pc'[c] \notin {"idle", "lock", "insert"},
           NEW i \in Durable \cup {ev[c].id}, NEW rows \in SUBSET {ev[c]},
           Adds(ws[c], ws'[c], i, rows),
           i = ev[c].id \/ (rows = {} /\ ev[c].id \in Durable \cup Writes(ws[c]))
    PROVE  PipelineInv'
<1>1. UNCHANGED Durable /\ ev'[c] = ev[c]
    BY DEF Durable, tables
<1>2. Writing(c)
    BY DEF PipelineInv
<1>3. /\ IsWriteSet(ws'[c]) /\ Writes(ws'[c]) = Writes(ws[c]) \cup {i}
      /\ ws'[c].defer = ws[c].defer \cup rows
    BY DEF Adds
<1>4. Writing(c)'
    BY <1>1, <1>2, <1>3 DEF Writing
<1> QED BY <1>4, InsideTx

\* A statement that writes nothing.
LEMMA WritesNothing ==
    ASSUME PipelineInv, NEW c \in D!Consumers, UNCHANGED <<delivery, tables, ev, ws>>,
           pc[c] # "idle", Callers',
           \A d \in D!Consumers \ {c} : pc'[d] = pc[d],
           \/ pc'[c] \in {"lock", "insert"} /\ pc[c] \in {"lock", "insert"}
           \/ /\ pc'[c] \notin {"idle", "lock", "insert"}
              /\ ev[c].id \in Durable \cup Writes(ws[c])
    PROVE  PipelineInv'
<1>1. UNCHANGED Durable /\ ev'[c] = ev[c] /\ ws'[c] = ws[c]
    BY DEF Durable, tables
<1>2. Writing(c)
    BY DEF PipelineInv
<1>3. Writing(c)'
    BY <1>1, <1>2 DEF Writing
<1> QED BY <1>3, InsideTx

\* The statements between BEGIN and COMMIT
LEMMA StatementPipeline ==
    ASSUME PipelineInv, NEW c \in D!Consumers, Statement(c)
    PROVE  PipelineInv'
<1>0. /\ Served /\ Callers /\ Deferred /\ Handling(c) /\ Writing(c)
    BY DEF PipelineInv
<1>1. pc[c] # "idle" /\ UNCHANGED <<delivery, tables, ev>>
    BY DEF Statement, R!AcquireLock, R!insertProcessedEvent, R!TxBody, R!loadCurrentStatus,
           R!Apply, R!SkipDuplicateStatus, R!Defer, R!Reject, R!Route, R!ReplayApply,
           R!ReplaySkip, R!ReplayReject, R!ReplayRow, R!ReplayDone, R!tables, tables
<1>2. ev[c].id \in Ids
    BY <1>0, <1>1, InTransaction
<1>3. IsWriteSet(ws[c])
    BY <1>0 DEF Writing
<1>4. pc[c] \in {"load", "classify", "replay"} => ev[c].id \in Durable \cup Writes(ws[c])
    BY <1>0 DEF Writing
<1>5. ASSUME NEW next, pc' = [pc EXCEPT ![c] = next], DOMAIN ws' = DOMAIN ws,
             DOMAIN result' = DOMAIN result
      PROVE  /\ Callers' /\ pc'[c] = next
             /\ \A d \in D!Consumers \ {c} : pc'[d] = pc[d]
    BY <1>0, <1>1, <1>5 DEF Callers
<1>6. CASE R!AcquireLock(c)
  <2>1. /\ pc[c] = "lock" /\ UNCHANGED <<ws, result>>
        /\ pc' = [pc EXCEPT ![c] = "insert"]
      BY <1>6 DEF R!AcquireLock
  <2> QED BY <1>1, <1>5, <2>1, WritesNothing
<1>7. CASE R!insertProcessedEvent(c) /\ UNCHANGED ws
  <2>1. pc[c] = "insert" /\ DOMAIN result' = DOMAIN result
      BY <1>7 DEF R!insertProcessedEvent
  <2>2. CASE processed[ev[c].id] # R!NotProcessed
    <3>1. pc' = [pc EXCEPT ![c] = "commit"]
        BY <1>7, <2>2 DEF R!insertProcessedEvent
    <3>2. ev[c].id \in Durable
        BY <1>2, <2>2 DEF Durable
    <3> QED BY <1>1, <1>5, <1>7, <2>1, <3>1, <3>2, WritesNothing
  <2>3. CASE processed[ev[c].id] = R!NotProcessed
    <3>1. ws'[c] = R!updateOutcome(ws[c], ev[c], "RECEIVED")
        BY <1>0, <1>7, <2>3 DEF R!insertProcessedEvent, Callers
    <3>2. ws[c] = R!NoWrites
        BY <1>0, <2>1 DEF Writing
    <3>3. Adds(ws[c], ws'[c], ev[c].id, {})
        BY <1>2, <1>3, <3>1, OutcomeAdds
    <3>4. FALSE
        BY <1>7, <1>2, <3>2, <3>3, NothingWritten DEF Adds
    <3> QED BY <3>4
  <2> QED BY <2>2, <2>3
<1>8. ASSUME NEW next, next \notin {"idle", "lock", "insert"},
             pc' = [pc EXCEPT ![c] = next] \/ (pc' = pc /\ pc[c] = next),
             NEW v, ws' = [ws EXCEPT ![c] = v], DOMAIN result' = DOMAIN result,
             NEW i \in Durable \cup {ev[c].id}, NEW rows \in SUBSET {ev[c]},
             Adds(ws[c], v, i, rows),
             i = ev[c].id \/ (rows = {} /\ pc[c] = "replay")
      PROVE  PipelineInv'
  <2>1. /\ Callers' /\ pc'[c] = next /\ ws'[c] = v
        /\ \A d \in D!Consumers \ {c} : pc'[d] = pc[d] /\ ws'[d] = ws[d]
      BY <1>0, <1>1, <1>8 DEF Callers
  <2> QED BY <1>1, <1>4, <1>8, <2>1, WritesOutcome
<1>9. CASE R!insertProcessedEvent(c) /\ ~UNCHANGED ws
  <2>1. PICK v : v = R!updateOutcome(ws[c], ev[c], "RECEIVED")
      OBVIOUS
  <2>2. /\ pc' = [pc EXCEPT ![c] = "load"] /\ ws' = [ws EXCEPT ![c] = v]
        /\ DOMAIN result' = DOMAIN result
      BY <1>9, <2>1 DEF R!insertProcessedEvent
  <2>3. Adds(ws[c], v, ev[c].id, {})
      BY <1>2, <1>3, <2>1, OutcomeAdds
  <2>4. PICK i \in Durable \cup {ev[c].id}, rows \in SUBSET {ev[c]} :
            i = ev[c].id /\ rows = {}
      OBVIOUS
  <2>5. PICK next : next = "load" /\ next \notin {"idle", "lock", "insert"}
      OBVIOUS
  <2>6. Adds(ws[c], v, i, rows) /\ pc' = [pc EXCEPT ![c] = next]
      BY <2>2, <2>3, <2>4, <2>5
  <2> QED BY <1>8, <2>2, <2>4, <2>5, <2>6
<1>10. CASE R!loadCurrentStatus(c)
  <2>1. /\ pc[c] = "load" /\ UNCHANGED <<ws, result>>
        /\ pc' = [pc EXCEPT ![c] = "classify"]
      BY <1>10 DEF R!loadCurrentStatus
  <2> QED BY <1>1, <1>4, <1>5, <2>1, WritesNothing
\* The switch on the classification
<1>11. ASSUME NEW class, NEW v, NEW next \in {"replay", "commit"}, R!Route(c, class, v, next),
              NEW rows \in SUBSET {ev[c]}, Adds(ws[c], v, ev[c].id, rows)
       PROVE  PipelineInv'
  <2>1. /\ pc' = [pc EXCEPT ![c] = next] /\ ws' = [ws EXCEPT ![c] = v]
        /\ DOMAIN result' = DOMAIN result
      BY <1>11 DEF R!Route
  <2> QED BY <1>8, <1>11, <2>1
<1>12. CASE R!Apply(c) \/ R!SkipDuplicateStatus(c) \/ R!Defer(c) \/ R!Reject(c)
  <2>1. PICK v1, v2, v3, v4 :
            /\ v1 = R!applyEvent(ws[c], ev[c], cur[c])
            /\ v2 = R!updateOutcome(ws[c], ev[c], "DUPLICATE_STATUS")
            /\ v3 = R!insertPendingEvent(ws[c], ev[c])
            /\ v4 = R!insertDeadLetterEvent(ws[c], ev[c])
      OBVIOUS
  <2>2. /\ Adds(ws[c], v1, ev[c].id, {}) /\ Adds(ws[c], v2, ev[c].id, {})
        /\ Adds(ws[c], v3, ev[c].id, {ev[c]}) /\ Adds(ws[c], v4, ev[c].id, {})
      BY <1>2, <1>3, <2>1, StatementAdds, OutcomeAdds
  <2>3. CASE R!Apply(c)
    <3>1. R!Route(c, "APPLIED", v1, "replay")
        BY <2>1, <2>3 DEF R!Apply
    <3> QED BY <1>11, <2>2, <3>1
  <2>4. CASE R!SkipDuplicateStatus(c)
    <3>1. R!Route(c, "DUPLICATE_STATUS", v2, "commit")
        BY <2>1, <2>4 DEF R!SkipDuplicateStatus
    <3> QED BY <1>11, <2>2, <3>1
  <2>5. CASE R!Defer(c)
    <3>1. R!Route(c, "OUT_OF_ORDER", v3, "commit")
        BY <2>1, <2>5 DEF R!Defer
    <3> QED BY <1>11, <2>2, <3>1
  <2>6. CASE R!Reject(c)
    <3>1. R!Route(c, "INVALID_TRANSITION", v4, "commit")
        BY <2>1, <2>6 DEF R!Reject
    <3> QED BY <1>11, <2>2, <3>1
  <2> QED BY <1>12, <2>3, <2>4, <2>5, <2>6
\* A replayed row is the transaction's own or was deferred, hence recorded, before.
<1>13. ASSUME NEW row \in R!PendingView(c)
       PROVE  row.id \in Durable \cup {ev[c].id} /\ row.id \in Ids
    BY <1>0, <1>2 DEF R!PendingView, Deferred, Writing, Durable
<1>14. ASSUME NEW row \in R!PendingView(c), NEW class, NEW v, R!ReplayRow(c, row, class, v),
              Adds(ws[c], v, row.id, {}), DOMAIN result' = DOMAIN result, UNCHANGED pc
       PROVE  PipelineInv'
  <2>1. pc[c] = "replay" /\ ws' = [ws EXCEPT ![c] = v]
      BY <1>14 DEF R!ReplayRow
  <2>2. PICK i \in Durable \cup {ev[c].id} : i = row.id
      BY <1>13
  <2> QED BY <1>8, <1>14, <2>1, <2>2
<1>15. CASE R!ReplayApply(c)
  <2>1. PICK row \in R!PendingView(c) :
            /\ R!ReplayRow(c, row, "APPLIED",
                           R!deletePending(R!applyEvent(ws[c], row, cur[c]), row))
            /\ DOMAIN result' = DOMAIN result /\ UNCHANGED pc
      BY <1>15 DEF R!ReplayApply
  <2>2. PICK v : v = R!deletePending(R!applyEvent(ws[c], row, cur[c]), row)
      OBVIOUS
  <2>3. Adds(ws[c], v, row.id, {})
      BY <1>3, <1>13, <2>2, StatementAdds, DeletePendingAdds
  <2>4. R!ReplayRow(c, row, "APPLIED", v)
      BY <2>1, <2>2
  <2> QED BY <1>14, <2>1, <2>3, <2>4
<1>16. CASE R!ReplaySkip(c)
  <2>1. PICK row \in R!PendingView(c) :
            /\ R!ReplayRow(c, row, "DUPLICATE_STATUS",
                   R!deletePending(R!updateOutcome(ws[c], row, "DUPLICATE_STATUS"), row))
            /\ DOMAIN result' = DOMAIN result /\ UNCHANGED pc
      BY <1>16 DEF R!ReplaySkip
  <2>2. PICK v :
            v = R!deletePending(R!updateOutcome(ws[c], row, "DUPLICATE_STATUS"), row)
      OBVIOUS
  <2>3. Adds(ws[c], v, row.id, {})
      BY <1>3, <1>13, <2>2, OutcomeAdds, DeletePendingAdds
  <2>4. R!ReplayRow(c, row, "DUPLICATE_STATUS", v)
      BY <2>1, <2>2
  <2> QED BY <1>14, <2>1, <2>3, <2>4
<1>17. CASE R!ReplayReject(c)
  <2>1. PICK row \in R!PendingView(c) :
            /\ R!ReplayRow(c, row, "INVALID_TRANSITION",
                   R!deletePending(R!insertDeadLetterEvent(ws[c], row), row))
            /\ DOMAIN result' = DOMAIN result /\ UNCHANGED pc
      BY <1>17 DEF R!ReplayReject
  <2>2. PICK v : v = R!deletePending(R!insertDeadLetterEvent(ws[c], row), row)
      OBVIOUS
  <2>3. Adds(ws[c], v, row.id, {})
      BY <1>3, <1>13, <2>2, StatementAdds, DeletePendingAdds
  <2>4. R!ReplayRow(c, row, "INVALID_TRANSITION", v)
      BY <2>1, <2>2
  <2> QED BY <1>14, <2>1, <2>3, <2>4
<1>18. CASE R!ReplayDone(c)
  <2>1. /\ pc[c] = "replay" /\ UNCHANGED <<ws, result>>
        /\ pc' = [pc EXCEPT ![c] = "commit"]
      BY <1>18 DEF R!ReplayDone
  <2> QED BY <1>1, <1>4, <1>5, <2>1, WritesNothing
<1> QED BY <1>6, <1>7, <1>9, <1>10, <1>12, <1>15, <1>16, <1>17, <1>18 DEF Statement, R!TxBody

\* COMMIT records the event of its transaction, and no other.
LEMMA CommitRecordsOne ==
    ASSUME PipelineInv, NEW c \in D!Consumers, R!Commit(c)
    PROVE  /\ Durable' = Durable \cup {ev[c].id}
           /\ Durable' = Durable \cup Writes(ws[c])
<1>1. pc[c] = "commit" /\ R!MakeVisible(c)
    BY DEF R!Commit
<1>2. Handling(c) /\ Writing(c) /\ Served
    BY DEF PipelineInv
<1>3. ev[c].id \in Ids
    BY <1>1, <1>2, InTransaction
<1>4. \A i \in Ids : (processed'[i] # R!NotProcessed) <=>
                         (ws[c].outcome[i] # "" \/ processed[i] # R!NotProcessed)
  <2> SUFFICES ASSUME NEW i \in Ids
               PROVE  (processed'[i] # R!NotProcessed) <=>
                         (ws[c].outcome[i] # "" \/ processed[i] # R!NotProcessed)
      OBVIOUS
  <2>1. CASE ws[c].outcome[i] = ""
      BY <1>1, <2>1 DEF R!MakeVisible
  <2>2. CASE ws[c].outcome[i] # ""
    <3>1. processed'[i].outcome = ws[c].outcome[i]
        BY <1>1, <2>2 DEF R!MakeVisible
    <3>2. R!NotProcessed.outcome = ""
        BY DEF R!NotProcessed
    <3> QED BY <2>2, <3>1, <3>2
  <2> QED BY <2>1, <2>2
<1>5. Durable' = Durable \cup Writes(ws[c])
    BY <1>4 DEF Durable, Writes
<1>6. Durable \cup Writes(ws[c]) = Durable \cup {ev[c].id}
    BY <1>1, <1>2 DEF Writing
<1> QED BY <1>5, <1>6

\* The end of c's transaction
LEMMA EndTxPipeline ==
    ASSUME PipelineInv, NEW c \in D!Consumers, Served',
           \A d \in D!Consumers \ {c} : Undisturbed(d),
           Durable \subseteq Durable', Deferred',
           pc' = [pc EXCEPT ![c] = "idle"] \/ (UNCHANGED pc /\ pc[c] = "idle"),
           \A d \in D!Consumers \ {c} : ev'[d] = ev[d],
           DOMAIN ev' = DOMAIN ev, DOMAIN result' = DOMAIN result,
           ws' = [ws EXCEPT ![c] = R!NoWrites] \/ (UNCHANGED ws /\ pc[c] = "idle")
    PROVE  PipelineInv'
<1>1. Callers /\ Writing(c)
    BY DEF PipelineInv
<1>2. /\ Callers' /\ pc'[c] = "idle" /\ ws'[c] = R!NoWrites
      /\ \A d \in D!Consumers \ {c} : pc'[d] = pc[d] /\ ws'[d] = ws[d]
    BY <1>1 DEF Callers, Writing
<1>3. Handling(c)' /\ Writing(c)'
    BY <1>2, NothingWritten DEF Handling, Writing
<1>4. ASSUME NEW d \in D!Consumers, d # c PROVE Handling(d)' /\ Writing(d)'
  <2>1. Handling(d) /\ Writing(d)
      BY DEF PipelineInv
  <2> QED BY <1>2, <1>4, <2>1, OthersKeepHandling, OthersKeepWriting
<1> QED BY <1>2, <1>3, <1>4 DEF PipelineInv

\* ProcessEventTx returns, and handleMessage goes on.
LEMMA ReturnServes ==
    ASSUME Served, NEW c \in D!Consumers, ProcessReturns(c)
    PROVE  Served' /\ \A d \in D!Consumers \ {c} : Undisturbed(d)
<1>1. CASE D!ProcessSucceeds(c)
  <2>1. /\ phase[c] = "work" /\ phase' = [phase EXCEPT ![c] = "ack"]
        /\ UNCHANGED <<stream, delivered, pel, stale, batch, run>>
      BY <1>1 DEF D!ProcessSucceeds, D!Goto, D!redis
  <2>2. batch[c] # <<>>
      BY <2>1 DEF Served
  <2> QED BY <2>1, <2>2, ConsumerTurns DEF Phases
<1>2. CASE D!ProcessReturnsError(c)
  <2>1. /\ phase[c] = "work" /\ D!NextMessage(c)
        /\ UNCHANGED <<stream, delivered, pel, stale, run>>
      BY <1>2 DEF D!ProcessReturnsError, D!redis
  <2> QED BY <2>1, NextMessageServes DEF Served
<1> QED BY <1>1, <1>2 DEF ProcessReturns

\* COMMIT, answered or not
LEMMA CommitPipeline ==
    ASSUME PipelineInv, NEW c \in D!Consumers, Commit(c)
    PROVE  PipelineInv'
<1>1. R!Commit(c) /\ ProcessReturns(c)
    BY DEF Commit
<1>2. Served' /\ \A d \in D!Consumers \ {c} : Undisturbed(d)
    BY <1>1, ReturnServes DEF PipelineInv
<1>3. Durable' = Durable \cup Writes(ws[c]) /\ Durable \subseteq Durable'
    BY <1>1, CommitRecordsOne
<1>4. Deferred'
  <2>1. Deferred /\ Writing(c)
      BY DEF PipelineInv
  <2>2. \A r \in ws[c].defer : r.id \in Writes(ws[c])
      BY <2>1 DEF Writing
  <2>3. pending' \subseteq pending \cup ws[c].defer
      BY <1>1 DEF R!Commit, R!MakeVisible
  <2> QED BY <1>3, <2>1, <2>2, <2>3 DEF Deferred
<1>5. /\ pc' = [pc EXCEPT ![c] = "idle"] /\ ws' = [ws EXCEPT ![c] = R!NoWrites]
      /\ UNCHANGED ev /\ DOMAIN result' = DOMAIN result
    BY <1>1 DEF R!Commit, R!EndTx
<1> QED BY <1>2, <1>3, <1>4, <1>5, EndTxPipeline

\* The event is refused, or the transaction does not begin or is rolled back.
LEMMA FailPipeline ==
    ASSUME PipelineInv, NEW c \in D!Consumers, Fail(c)
    PROVE  PipelineInv'
<1>1. ProcessReturns(c)
    BY DEF Fail
<1>2. Served' /\ \A d \in D!Consumers \ {c} : Undisturbed(d)
    BY <1>1, ReturnServes DEF PipelineInv
<1>3. UNCHANGED <<processed, pending>>
    BY DEF Fail, R!RefuseEvent, R!BeginFails, R!ReturnEarly, R!Rollback, R!tables
<1>4. UNCHANGED Durable /\ Deferred'
    BY <1>3 DEF Durable, Deferred, PipelineInv
<1>5. CASE R!Rollback(c)
  <2>1. /\ pc' = [pc EXCEPT ![c] = "idle"] /\ ws' = [ws EXCEPT ![c] = R!NoWrites]
        /\ UNCHANGED ev /\ DOMAIN result' = DOMAIN result
      BY <1>5 DEF R!Rollback, R!EndTx
  <2> QED BY <1>2, <1>4, <2>1, EndTxPipeline
<1>6. CASE R!ReturnEarly(c)
  <2>1. /\ pc[c] = "idle" /\ UNCHANGED <<pc, ws>>
        /\ ev' = [ev EXCEPT ![c] = R!NoRow] /\ DOMAIN result' = DOMAIN result
      BY <1>6 DEF R!ReturnEarly
  <2>2. DOMAIN ev' = DOMAIN ev /\ \A d \in D!Consumers \ {c} : ev'[d] = ev[d]
      BY <2>1 DEF PipelineInv, Callers
  <2> QED BY <1>2, <1>4, <2>1, <2>2, EndTxPipeline
<1> QED BY <1>5, <1>6 DEF Fail, R!RefuseEvent, R!BeginFails

\* The XACK
LEMMA AcknowledgePipeline ==
    ASSUME PipelineInv, NEW c \in D!Consumers, Acknowledge(c)
    PROVE  PipelineInv'
<1>1. /\ phase[c] = "ack" /\ D!NextMessage(c) /\ UNCHANGED <<stream, delivered, run>>
      /\ pel' \subseteq pel /\ UNCHANGED database
    BY DEF Acknowledge, Idle, D!Ack, D!AckFails, D!SkipAck, D!redis
<1>2. stale' \subseteq pel'
    BY DEF Acknowledge, D!Ack, D!AckFails, D!SkipAck, D!redis, PipelineInv, Served
<1>3. Served' /\ \A d \in D!Consumers \ {c} : Undisturbed(d)
    BY <1>1, <1>2, NextMessageServes DEF PipelineInv
<1> QED BY <1>1, <1>3, DatabaseIdle

\* The metrics
LEMMA RecordPipeline ==
    ASSUME PipelineInv, NEW c \in D!Consumers, Record(c)
    PROVE  PipelineInv'
<1>1. phase[c] = "ack" /\ UNCHANGED <<stream, delivered, pel, stale, phase, batch, run>>
    BY DEF Record, delivery
<1>2. stale' \subseteq pel
    BY <1>1 DEF PipelineInv, Served
<1>3. Served' /\ \A d \in D!Consumers \ {c} : Undisturbed(d)
    BY <1>1, <1>2, NobodyMoves DEF PipelineInv
<1>4. /\ UNCHANGED <<processed, pending, pc, ws>>
      /\ ev' = [ev EXCEPT ![c] = R!NoRow] /\ DOMAIN result' = DOMAIN result
    BY DEF Record, tables
<1>5. UNCHANGED Durable /\ Deferred'
    BY <1>4 DEF Durable, Deferred, PipelineInv
<1>6. pc[c] = "idle"
    BY <1>1 DEF PipelineInv, Handling
<1>7. DOMAIN ev' = DOMAIN ev /\ \A d \in D!Consumers \ {c} : ev'[d] = ev[d]
    BY <1>4 DEF PipelineInv, Callers
<1> QED BY <1>3, <1>4, <1>5, <1>6, <1>7, EndTxPipeline

\* The process dies; its transactions are rolled back.
LEMMA CrashPipeline ==
    ASSUME PipelineInv, Crash
    PROVE  PipelineInv'
<1>1. Served'
    BY CrashServes DEF PipelineInv, Crash
<1>2. /\ pc' = [c \in D!Consumers |-> "idle"] /\ ev' = [c \in D!Consumers |-> R!NoRow]
      /\ ws' = [c \in D!Consumers |-> R!NoWrites]
      /\ result' = [c \in D!Consumers |-> R!NoResult]
      /\ UNCHANGED <<processed, pending>>
    BY DEF Crash, tables
<1>3. UNCHANGED Durable /\ Deferred'
    BY <1>2 DEF Durable, Deferred, PipelineInv
<1>4. \A c \in D!Consumers : pc'[c] = "idle" /\ ws'[c] = R!NoWrites
    BY <1>2
<1>5. \A c \in D!Consumers : Handling(c)' /\ Writing(c)'
    BY <1>4, NothingWritten DEF Handling, Writing
<1>6. Callers'
    BY <1>2 DEF Callers
<1> QED BY <1>1, <1>3, <1>5, <1>6 DEF PipelineInv

\* Reading, claiming and stopping
LEMMA FetchPipeline ==
    ASSUME PipelineInv, NEW c \in D!Consumers, Fetch(c)
    PROVE  PipelineInv'
<1>0. Served /\ UNCHANGED database
    BY DEF PipelineInv, Fetch, Idle
<1>1. CASE D!CallReadGroup(c) \/ D!ReadGroup(c) \/ D!ReadGroupLost(c) \/ D!ReadGroupFails(c)
  <2>1. phase[c] # "work"
      BY <1>1 DEF D!CallReadGroup, D!ReadGroup, D!ReadGroupLost, D!ReadGroupFails
  <2> QED BY <1>0, <1>1, <2>1, ReadServes, DatabaseIdle
<1>2. CASE c = Reclaimer /\ D!ReclaimerStep
  <2>1. phase[Reclaimer] # "work"
      BY <1>2 DEF D!ReclaimerStep, D!Tick, D!ClaimPending, D!ClaimPendingLost,
                  D!ClaimPendingFails
  <2> QED BY <1>0, <1>2, <2>1, ClaimServes, DatabaseIdle
<1>3. CASE D!Stop(c)
  <2>1. /\ phase[c] = "poll" /\ phase' = [phase EXCEPT ![c] = "stopped"]
        /\ UNCHANGED <<stream, delivered, pel, stale, batch, run>>
      BY <1>3 DEF D!Stop, D!Goto, D!redis
  <2>2. Served' /\ \A d \in D!Consumers \ {c} : Undisturbed(d)
      BY <1>0, <2>1, ConsumerTurns DEF Phases
  <2> QED BY <1>0, <2>1, <2>2, DatabaseIdle
<1> QED BY <1>1, <1>2, <1>3 DEF Fetch

\* The entry Publish puts on the stream is one of the script.
LEMMA ScriptEntries ==
    ASSUME script \in Scripts, Publish, Len(stream) \in Nat
    PROVE  \E m \in Messages : m = Entry(script[Len(stream) + 1])
<1>1. script \in Seq(R!OrderEvent) /\ Len(stream) < Len(script)
    BY ScriptAssumption DEF Publish
<1>2. Len(stream) + 1 \in DOMAIN script
    BY <1>1, LenProperties
<1>3. script[Len(stream) + 1] \in Published
    BY <1>2 DEF Published
<1> QED BY <1>3 DEF Messages

\* The service's invariant, with the script its producer has chosen.
ServiceInv == PipelineInv /\ script \in Scripts

\* Every step of the service keeps it.
LEMMA NextPipeline == ServiceInv /\ [Next]_vars => ServiceInv'
<1> SUFFICES ASSUME ServiceInv, [Next]_vars PROVE ServiceInv'
    OBVIOUS
<1>0. PipelineInv /\ Served /\ script \in Scripts
    BY DEF ServiceInv, PipelineInv
<1>1. UNCHANGED script
    BY DEF Next, Publish, Age, Start, StartFails, Cancel, Exit, Crash, ConsumerStep, Fetch,
           Begin, Statement, Commit, Fail, ProcessReturns, Record, Acknowledge, Idle, vars
<1> SUFFICES PipelineInv'
    BY <1>0, <1>1 DEF ServiceInv
<1>2. ASSUME UNCHANGED database, Served', \A d \in D!Consumers : Undisturbed(d)
      PROVE  PipelineInv'
    BY <1>0, <1>2, DatabaseIdle
<1>3. CASE Publish
  <2>1. PICK m \in Messages : m = Entry(script[Len(stream) + 1])
      BY <1>0, <1>3, ScriptEntries, LenProperties DEF Served
  <2>2. D!XAdd(m) /\ UNCHANGED database
      BY <1>3, <2>1 DEF Publish, D!Publish, Idle
  <2> QED BY <1>0, <1>2, <2>2, PublishServes
<1>4. ASSUME NEW i \in pel, Age(i) PROVE PipelineInv'
  <2>1. /\ UNCHANGED database
        /\ UNCHANGED <<stream, delivered, pel, phase, batch, run>> /\ stale' \subseteq pel
      BY <1>0, <1>4 DEF Age, Idle, D!Age, D!consumers, Served
  <2> QED BY <1>0, <1>2, <2>1, NobodyMoves
<1>5. CASE Start \/ StartFails \/ Cancel \/ Exit
  <2>1. D!Start \/ D!StartFails \/ D!Cancel \/ D!Exit
      BY <1>5 DEF Start, StartFails, Cancel, Exit
  <2>2. UNCHANGED database
      BY <1>5 DEF Start, StartFails, Cancel, Exit, Idle
  <2> QED BY <1>0, <1>2, <2>1, <2>2, ProcessServes
<1>6. CASE Crash
    BY <1>0, <1>6, CrashPipeline
<1>7. ASSUME NEW c \in D!Consumers, ConsumerStep(c) PROVE PipelineInv'
    BY <1>0, <1>7, FetchPipeline, BeginPipeline, StatementPipeline, CommitPipeline,
       FailPipeline, RecordPipeline, AcknowledgePipeline DEF ConsumerStep
<1>8. CASE UNCHANGED vars
  <2>1. UNCHANGED database /\ UNCHANGED <<stream, delivered, pel, stale, phase, batch, run>>
      BY <1>8 DEF vars, delivery
  <2>2. stale' \subseteq pel
      BY <1>0, <2>1 DEF Served
  <2> QED BY <1>0, <1>2, <2>1, <2>2, NobodyMoves
<1> QED BY <1>3, <1>4, <1>5, <1>6, <1>7, <1>8 DEF Next

-----------------------------------------------------------------------------
(* The refinement                                                          *)

\* Delivery sees nothing of a step that leaves it and processed_events alone.
LEMMA Unseen ==
    ASSUME UNCHANGED <<delivery, processed>>
    PROVE  UNCHANGED D!vars
BY DEF delivery, D!vars, D!redis, D!consumers

\* Success of ProcessEventTx is Process.
LEMMA CommitDelivers ==
    ASSUME PipelineInv, NEW c \in D!Consumers, Commit(c)
    PROVE  D!HandleStep(c)
<1>1. R!Commit(c) /\ (D!ProcessSucceeds(c) \/ D!ProcessReturnsError(c)) /\ pc[c] = "commit"
    BY DEF Commit, ProcessReturns, R!Commit
<1>2. D!Message(c).form = "valid" /\ ev[c].id = D!Message(c).id
    BY <1>1, InTransaction DEF PipelineInv
<1>3. Durable' = Durable \cup {D!Message(c).id}
    BY <1>1, <1>2, CommitRecordsOne
<1>4. CASE D!ProcessSucceeds(c)
    BY <1>2, <1>3, <1>4 DEF D!HandleStep, D!Process, Durable
<1>5. CASE D!ProcessReturnsError(c)
    BY <1>2, <1>3, <1>5 DEF D!HandleStep, D!ProcessFails, Durable
<1> QED BY <1>1, <1>4, <1>5

\* A refusal or a rollback is a failure of Process that leaves no trace.
LEMMA FailDelivers ==
    ASSUME PipelineInv, NEW c \in D!Consumers, Fail(c)
    PROVE  D!HandleStep(c)
<1>1. UNCHANGED processed /\ result' = [result EXCEPT ![c] = R!Failed] /\ phase[c] = "work"
    BY DEF Fail, R!RefuseEvent, R!BeginFails, R!ReturnEarly, R!Rollback, R!tables
<1>2. result'[c].status = "error"
    BY <1>1 DEF PipelineInv, Callers, R!Failed
<1>3. D!ProcessReturnsError(c)
    BY <1>2 DEF Fail, ProcessReturns
<1>4. D!Message(c).form \in {"valid", "refused"}
    BY <1>1, FormOfMessage DEF PipelineInv
<1>5. UNCHANGED Durable
    BY <1>1 DEF Durable
<1> QED BY <1>3, <1>4, <1>5 DEF D!HandleStep, D!ProcessFails, Durable

\* Every step of the service is a step of the delivery or none.
LEMMA StepDelivers == ServiceInv /\ [Next]_vars => [D!Next]_(D!vars)
<1> SUFFICES ASSUME ServiceInv, [Next]_vars PROVE D!Next \/ UNCHANGED D!vars
    OBVIOUS
<1>0. PipelineInv /\ Served /\ script \in Scripts
    BY DEF ServiceInv, PipelineInv
<1>1. CASE Publish
  <2>1. PICK m \in Messages : m = Entry(script[Len(stream) + 1])
      BY <1>0, <1>1, ScriptEntries, LenProperties DEF Served
  <2>2. D!Publish(m)
      BY <1>1, <2>1 DEF Publish
  <2> QED BY <2>2 DEF D!Next, Messages
<1>2. ASSUME NEW i \in pel, Age(i) PROVE D!Next
    BY <1>2 DEF Age, D!Next
<1>3. CASE Start \/ StartFails \/ Cancel \/ Exit \/ Crash
    BY <1>3 DEF Start, StartFails, Cancel, Exit, Crash, D!Next
<1>4. ASSUME NEW c \in D!Consumers, ConsumerStep(c) PROVE D!Next \/ UNCHANGED D!vars
  <2>1. CASE Fetch(c)
      BY <2>1 DEF Fetch, D!Next, D!WorkerStep
  <2>2. CASE Begin(c) \/ Statement(c)
    <3>1. UNCHANGED <<delivery, processed>>
        BY <2>2 DEF Begin, Statement, R!BeginTx, R!AcquireLock, R!insertProcessedEvent, R!TxBody,
               R!loadCurrentStatus, R!Apply, R!SkipDuplicateStatus, R!Defer, R!Reject, R!Route,
               R!ReplayApply, R!ReplaySkip, R!ReplayReject, R!ReplayDone, R!tables
    <3> QED BY <3>1, Unseen
  <2>3. CASE Commit(c) \/ Fail(c)
    <3>1. D!HandleStep(c)
        BY <1>0, <2>3, CommitDelivers, FailDelivers
    <3> QED BY <3>1 DEF D!Next
  <2>4. CASE Acknowledge(c)
    <3>1. D!Ack(c) \/ D!AckFails(c) \/ (c \in Workers /\ D!SkipAck(c))
        BY <2>4 DEF Acknowledge
    <3> QED BY <3>1 DEF D!Next, D!HandleStep, D!WorkerStep
  <2>5. CASE Record(c)
    <3>1. UNCHANGED <<delivery, processed>>
        BY <2>5 DEF Record, tables
    <3> QED BY <3>1, Unseen
  <2> QED BY <1>4, <2>1, <2>2, <2>3, <2>4, <2>5 DEF ConsumerStep
<1>5. CASE UNCHANGED vars
    BY <1>5, Unseen DEF vars, database, tables
<1> QED BY <1>1, <1>2, <1>3, <1>4, <1>5 DEF Next

\* The service with ProcessEventTx in it, statement by statement, delivers as
\* StreamDelivery says, for every pool, batch size, script and number of faults:
\* handleMessage learns of success only when exactly its event was made durable,
\* and an error leaves open whether it was (pool.go:182-207,
\* reclaimer.go:137-163, order_repository.go:67-213).
THEOREM PipelineImplementsDelivery == Spec => ImplementsDelivery
<1>1. Init => ServiceInv
    BY InitPipeline DEF Init, ServiceInv
<1>2. Init => D!Init
    BY DEF Init
<1> QED BY <1>1, <1>2, NextPipeline, StepDelivers, PTL DEF Spec, ImplementsDelivery, D!Spec

-----------------------------------------------------------------------------
(* Recovered messages                                                      *)

\* The entries acknowledged, and those the reclaimer has in hand.
Acked   == (1..delivered) \ pel
Claimed == {batch[Reclaimer][n] : n \in DOMAIN batch[Reclaimer]}

Increasing(s) == \A m, n \in DOMAIN s : m < n => s[m] < s[n]

\* The reclaimer has no entry in hand twice: the cursor of a running ClaimPending
\* is past all it has claimed, even if some of it has grown stale again.
Reclaiming ==
    /\ start \in Nat /\ faults \in Nat
    /\ Increasing(batch[Reclaimer])
    /\ phase[Reclaimer] = "claiming" => \A i \in Claimed : i < start
    /\ phase[Reclaimer] \notin {"claiming", "work", "ack"} => Claimed = {}

\* Every recovered message that is counted is an acknowledged entry the reclaimer
\* is through with, the one it is about to acknowledge, or a fault.
Recovering ==
    /\ metrics.recoveredMessages \in Nat
    /\ \E A \in SUBSET Acked :
          /\ metrics.recoveredMessages <= Cardinality(A) + CountedInHand + faults
          /\ A \cap Claimed = {}

\* What was acknowledged stays so, and the reclaimer takes up none of it.
KeepsAcked ==
    /\ Acked \subseteq Acked'
    /\ Claimed' \cap Acked \subseteq Claimed
    /\ faults' \in {faults, faults + 1}

\* The entries acknowledged are finitely many.
LEMMA FiniteAcked ==
    ASSUME delivered \in Int, NEW A \in SUBSET Acked
    PROVE  /\ IsFiniteSet(A) /\ Cardinality(A) \in Nat
           /\ IsFiniteSet(Acked) /\ Cardinality(Acked) \in Nat
           /\ Cardinality(A) <= Cardinality(Acked)
<1>1. IsFiniteSet(1..delivered)
    BY FS_Interval
<1>2. Acked \in SUBSET (1..delivered)
    BY DEF Acked
<1>3. IsFiniteSet(Acked)
    BY <1>1, <1>2, FS_Subset
<1>4. IsFiniteSet(A) /\ Cardinality(A) <= Cardinality(Acked)
    BY <1>3, FS_Subset
<1> QED BY <1>3, <1>4, FS_CardinalityType

\* A step that counts no more than it takes in hand or loses to a fault.
LEMMA StillRecovered ==
    ASSUME Recovering, KeepsAcked, delivered \in Int, faults \in Nat,
           metrics'.recoveredMessages \in Nat,
           \/ metrics'.recoveredMessages = 0
           \/ metrics'.recoveredMessages + CountedInHand + faults
                 <= metrics.recoveredMessages + CountedInHand' + faults'
    PROVE  Recovering'
<1>1. PICK A \in SUBSET Acked :
         /\ metrics.recoveredMessages <= Cardinality(A) + CountedInHand + faults
         /\ A \cap Claimed = {}
    BY DEF Recovering
<1>2. Cardinality(A) \in Nat
    BY <1>1, FiniteAcked
<1>3. metrics.recoveredMessages \in Nat
    BY DEF Recovering
<1>4. metrics'.recoveredMessages <= Cardinality(A) + CountedInHand' + faults'
  <2>1. faults' \in Nat
      BY DEF KeepsAcked
  <2>2. CountedInHand \in Nat /\ CountedInHand' \in Nat
      BY DEF CountedInHand
  <2>3. PICK a, h, i, m, n, f, g :
           /\ a = Cardinality(A) /\ h = CountedInHand /\ i = CountedInHand'
           /\ m = metrics.recoveredMessages /\ n = metrics'.recoveredMessages
           /\ f = faults /\ g = faults'
      OBVIOUS
  <2>4. /\ a \in Nat /\ h \in Nat /\ i \in Nat /\ m \in Nat /\ n \in Nat /\ f \in Nat /\ g \in Nat
        /\ m <= a + h + f /\ (n = 0 \/ n + h + f <= m + i + g)
      BY <1>1, <1>2, <1>3, <2>1, <2>2, <2>3
  <2>5. n <= a + i + g
      BY ONLY <2>4
  <2> QED BY <2>3, <2>5
<1>5. A \in SUBSET Acked' /\ A \cap Claimed' = {}
    BY <1>1 DEF KeepsAcked
<1> QED BY <1>4, <1>5 DEF Recovering

\* The batch after its first entry
LEMMA RestOfBatch ==
    ASSUME NEW T, NEW s \in Seq(T), s # <<>>
    PROVE  /\ DOMAIN s = 1..Len(s) /\ Len(s) \in Nat /\ 1 \in DOMAIN s
           /\ Head(s) = s[1]
           /\ DOMAIN Tail(s) = 1..(Len(s) - 1)
           /\ \A n \in DOMAIN Tail(s) : n + 1 \in DOMAIN s /\ Tail(s)[n] = s[n + 1]
<1>1. /\ Len(s) \in Nat /\ DOMAIN s = 1..Len(s) /\ Len(s) # 0
    BY LenProperties, EmptySeq
<1>2. /\ Head(s) = s[1]
      /\ DOMAIN Tail(s) = 1..(Len(s) - 1)
      /\ \A n \in 1..(Len(s) - 1) : Tail(s)[n] = s[n + 1]
    BY <1>1, HeadTailProperties
<1> QED BY <1>1, <1>2

\* What is left of a batch in stream order has the first entry behind it.
LEMMA RestIncreasing ==
    ASSUME NEW T \in SUBSET Int, NEW s \in Seq(T), s # <<>>, Increasing(s)
    PROVE  /\ Increasing(Tail(s))
           /\ \A n \in DOMAIN Tail(s) : Tail(s)[n] # Head(s)
           /\ \A n \in DOMAIN Tail(s) : \E k \in DOMAIN s : Tail(s)[n] = s[k]
           /\ Len(s) = 1 => DOMAIN Tail(s) = {}
<1>1. /\ DOMAIN s = 1..Len(s) /\ Len(s) \in Nat /\ 1 \in DOMAIN s
      /\ Head(s) = s[1]
      /\ DOMAIN Tail(s) = 1..(Len(s) - 1)
      /\ \A n \in DOMAIN Tail(s) : n + 1 \in DOMAIN s /\ Tail(s)[n] = s[n + 1]
    BY RestOfBatch
<1>2. \A n \in DOMAIN s : s[n] \in Int
    BY <1>1, ElementOfSeq
<1>3. Increasing(Tail(s))
    BY <1>1, <1>2 DEF Increasing
<1>4. \A n \in DOMAIN Tail(s) : Tail(s)[n] # Head(s)
  <2> SUFFICES ASSUME NEW n \in DOMAIN Tail(s) PROVE s[1] < s[n + 1]
      BY <1>1, <1>2
  <2> QED BY <1>1 DEF Increasing
<1> QED BY <1>1, <1>3, <1>4

\* Both go on together.
Proceeds == Reclaiming' /\ KeepsAcked

\* What a step may do to the pending list.
Serves == /\ delivered \in Int /\ delivered' \in Int /\ delivered <= delivered'
          /\ pel' \subseteq pel \cup (delivered + 1 .. delivered')
          /\ faults' \in {faults, faults + 1}

\* A step of somebody else: a worker, the producer, the clock, the process.
LEMMA ReclaimerAside ==
    ASSUME Reclaiming, Serves, UNCHANGED start,
           phase'[Reclaimer] = phase[Reclaimer], batch'[Reclaimer] = batch[Reclaimer]
    PROVE  Proceeds
<1>1. UNCHANGED Claimed /\ faults' \in Nat
    BY DEF Claimed, Serves, Reclaiming
<1>2. Reclaiming'
    BY <1>1 DEF Reclaiming, Increasing
<1>3. Acked \subseteq Acked'
    BY DEF Serves, Acked
<1> QED BY <1>1, <1>2, <1>3 DEF Proceeds, KeepsAcked, Serves

\* The reclaimer moves with a batch that was in its hand or is pending.
LEMMA ReclaimerMoves ==
    ASSUME Reclaiming, Serves, start' \in Nat, NEW next, phase'[Reclaimer] = next,
           Increasing(batch'[Reclaimer]),
           Claimed' \subseteq Claimed \cup pel,
           next = "claiming" => \A i \in Claimed' : i < start',
           next \notin {"claiming", "work", "ack"} => Claimed' = {}
    PROVE  Proceeds
<1>1. Reclaiming'
    BY DEF Reclaiming, Serves
<1>2. Acked \subseteq Acked' /\ Claimed' \cap Acked \subseteq Claimed
    BY DEF Serves, Acked
<1> QED BY <1>1, <1>2 DEF Proceeds, KeepsAcked, Serves

\* The next message of the reclaimer's batch
LEMMA ReclaimerNextMessage ==
    ASSUME Served, Reclaiming, Serves, UNCHANGED start, D!NextMessage(Reclaimer),
           phase[Reclaimer] \in {"work", "ack"}
    PROVE  /\ Proceeds
           /\ Claimed' \subseteq Claimed \ {Head(batch[Reclaimer])}
           /\ Head(batch[Reclaimer]) \in Claimed
<1>0. Reclaimer \in D!Consumers
    BY DEF D!Consumers
<1>1. PICK s : s = batch[Reclaimer]
    OBVIOUS
<1>2. s \in Seq(1..delivered) /\ s # <<>> /\ Increasing(s)
    BY <1>0, <1>1 DEF Served, Reclaiming
<1>3. 1..delivered \in SUBSET Int
    BY DEF Serves
<1>4. PICK next : next = IF Len(s) = 1 THEN "poll" ELSE "work"
    OBVIOUS
<1>5. batch'[Reclaimer] = Tail(s) /\ phase'[Reclaimer] = next
    BY <1>0, <1>1, <1>4 DEF Served, D!NextMessage, D!Goto
<1>6. /\ Increasing(Tail(s))
      /\ \A n \in DOMAIN Tail(s) : Tail(s)[n] # Head(s)
      /\ \A n \in DOMAIN Tail(s) : \E k \in DOMAIN s : Tail(s)[n] = s[k]
      /\ Len(s) = 1 => DOMAIN Tail(s) = {}
    BY <1>2, <1>3, RestIncreasing
<1>7. Claimed' \subseteq Claimed \ {Head(s)}
    BY <1>1, <1>5, <1>6 DEF Claimed
<1>8. Head(s) \in Claimed
    BY <1>1, <1>2, RestOfBatch DEF Claimed
<1>9. next \notin {"claiming", "work", "ack"} => Claimed' = {}
    BY <1>4, <1>5, <1>6 DEF Claimed
<1>10. Proceeds
  <2>1. next # "claiming" /\ start' \in Nat
      BY <1>4 DEF Reclaiming
  <2> QED BY <1>5, <1>6, <1>7, <1>9, <2>1, ReclaimerMoves
<1> QED BY <1>1, <1>7, <1>8, <1>10

\* XAUTOCLAIM continues behind what was claimed.
LEMMA ClaimsInOrder ==
    ASSUME NEW s, NEW t, NEW T \in SUBSET Int, s \in Seq(T), t \in Seq(T),
           Increasing(s), Increasing(t),
           \A m \in DOMAIN s, n \in DOMAIN t : s[m] < t[n]
    PROVE  /\ Increasing(s \o t)
           /\ \A n \in DOMAIN (s \o t) : \/ \E m \in DOMAIN s : (s \o t)[n] = s[m]
                                         \/ \E m \in DOMAIN t : (s \o t)[n] = t[m]
<1> DEFINE u == s \o t
<1>1. /\ Len(s) \in Nat /\ DOMAIN s = 1..Len(s)
      /\ Len(t) \in Nat /\ DOMAIN t = 1..Len(t)
      /\ DOMAIN u = 1..(Len(s) + Len(t))
      /\ \A n \in DOMAIN u : u[n] = IF n <= Len(s) THEN s[n] ELSE t[n - Len(s)]
    BY ConcatProperties, LenProperties
<1>2. \A n \in DOMAIN u : n > Len(s) => n - Len(s) \in DOMAIN t
    BY <1>1
<1>3. \A n \in DOMAIN u : n <= Len(s) => n \in DOMAIN s
    BY <1>1
<1> HIDE DEF u
<1>4. Increasing(u)
  <2> SUFFICES ASSUME NEW m \in DOMAIN u, NEW n \in DOMAIN u, m < n PROVE u[m] < u[n]
      BY DEF Increasing
  <2>0. m \in Int /\ n \in Int
      BY <1>1
  <2>1. CASE n <= Len(s)
      BY <1>1, <1>3, <2>0, <2>1 DEF Increasing
  <2>2. CASE m <= Len(s) /\ n > Len(s)
      BY <1>1, <1>2, <1>3, <2>0, <2>2
  <2>3. CASE m > Len(s)
    <3>1. m - Len(s) < n - Len(s) /\ n > Len(s)
        BY <1>1, <2>0, <2>3
    <3> QED BY <1>1, <1>2, <2>0, <2>3, <3>1 DEF Increasing
  <2> QED BY <1>1, <2>0, <2>1, <2>2, <2>3
<1>5. \A n \in DOMAIN u : \/ \E m \in DOMAIN s : u[n] = s[m]
                          \/ \E m \in DOMAIN t : u[n] = t[m]
    BY <1>1, <1>2, <1>3
<1> QED BY <1>4, <1>5 DEF u

\* One round of ClaimPending
LEMMA ReclaimerClaims ==
    ASSUME Served, Reclaiming, Serves, D!ClaimPending
    PROVE  Proceeds
<1>0. Reclaimer \in D!Consumers /\ phase[Reclaimer] = "claiming"
    BY DEF D!Consumers, D!ClaimPending
<1>1. PICK last \in D!Positions \cup {0}, next \in D!Positions \cup {0} :
         \E claimed \in D!Claims(last) :
            LET messages == batch[Reclaimer] \o claimed
                done     == next \in {0, start} \/ Len(messages) >= ReclaimCount
            IN  /\ D!XAutoClaim(last, claimed)
                /\ D!IsCursor(next, last)
                /\ batch' = [batch EXCEPT ![Reclaimer] = messages]
                /\ start' = IF done THEN 0 ELSE next
                /\ phase' = [phase EXCEPT ![Reclaimer] =
                                IF ~done THEN "claiming"
                                ELSE IF messages = <<>> THEN "poll" ELSE "work"]
    BY DEF D!ClaimPending, D!Goto
<1>2. PICK claimed \in D!Claims(last) :
            LET messages == batch[Reclaimer] \o claimed
                done     == next \in {0, start} \/ Len(messages) >= ReclaimCount
            IN  /\ D!XAutoClaim(last, claimed)
                /\ D!IsCursor(next, last)
                /\ batch' = [batch EXCEPT ![Reclaimer] = messages]
                /\ start' = IF done THEN 0 ELSE next
                /\ phase' = [phase EXCEPT ![Reclaimer] =
                                IF ~done THEN "claiming"
                                ELSE IF messages = <<>> THEN "poll" ELSE "work"]
    BY <1>1
<1>3. PICK s, t : s = batch[Reclaimer] /\ t = claimed
    OBVIOUS
<1>4. PICK done \in BOOLEAN : done = (next \in {0, start} \/ Len(s \o t) >= ReclaimCount)
    OBVIOUS
<1>5. /\ D!XAutoClaim(last, t) /\ D!IsCursor(next, last)
      /\ batch'[Reclaimer] = s \o t
      /\ start' = IF done THEN 0 ELSE next
      /\ phase'[Reclaimer] = IF ~done THEN "claiming"
                             ELSE IF s \o t = <<>> THEN "poll" ELSE "work"
    BY <1>0, <1>2, <1>3, <1>4 DEF Served
<1>6. next \in Nat /\ last \in Nat /\ start \in Nat /\ start' \in Nat
    BY <1>1, <1>5, LenProperties DEF D!Positions, Served, Reclaiming
<1>7. s \in Seq(1..delivered) /\ t \in Seq(1..delivered) /\ 1..delivered \in SUBSET Int
    BY <1>0, <1>3, <1>5, ClaimedServed DEF Served, Serves
<1>8. \A n \in DOMAIN t : t[n] \in pel /\ start <= t[n] /\ t[n] <= last /\ t[n] \in Int
  <2>1. PICK k \in 0..ReclaimCount : t \in [1..k -> D!Scanned(last) \cap stale]
      BY <1>2, <1>3 DEF D!Claims
  <2>2. \A n \in DOMAIN t : t[n] \in D!Scanned(last)
      BY <2>1
  <2> QED BY <1>7, <2>2 DEF D!Scanned, Served
<1>9. Increasing(s) /\ Increasing(t)
    BY <1>3, <1>5 DEF Reclaiming, D!XAutoClaim, D!Lists, Increasing
<1>10. \A m \in DOMAIN s : s[m] < start /\ s[m] \in Int
  <2>1. \A m \in DOMAIN s : s[m] \in 1..delivered
      BY <1>7, ElementOfSeq, LenProperties
  <2> QED BY <1>0, <1>3, <1>7, <2>1 DEF Reclaiming, Claimed
<1>11. \A m \in DOMAIN s, n \in DOMAIN t : s[m] < t[n]
    BY <1>6, <1>8, <1>10
<1>12. /\ Increasing(s \o t)
       /\ \A n \in DOMAIN (s \o t) : \/ \E m \in DOMAIN s : (s \o t)[n] = s[m]
                                     \/ \E m \in DOMAIN t : (s \o t)[n] = t[m]
    BY <1>7, <1>9, <1>11, ClaimsInOrder
<1>13. Claimed' \subseteq Claimed \cup pel
    BY <1>3, <1>5, <1>8, <1>12 DEF Claimed
<1>14. \A i \in Claimed' : (i < start \/ i <= last) /\ i \in Int
    BY <1>5, <1>8, <1>10, <1>12 DEF Claimed
<1>15. ~done => \A i \in Claimed' : i < start'
  <2> SUFFICES ASSUME ~done, NEW i \in Claimed' PROVE i < next
      BY <1>5
  <2>1. next # 0
      BY <1>4
  <2>2. next \in pel /\ start <= next /\ last < next
      BY <1>5, <2>1 DEF D!IsCursor, D!Rest
  <2> QED BY <1>6, <1>14, <2>2
<1>16. phase'[Reclaimer] \notin {"claiming", "work", "ack"} => Claimed' = {}
    BY <1>5 DEF Claimed
<1>17. phase'[Reclaimer] = "claiming" => ~done
    BY <1>5
<1> QED BY <1>5, <1>6, <1>12, <1>13, <1>15, <1>16, <1>17, ReclaimerMoves

\* The reclaimer's other steps: the timer, and a ClaimPending that fails.
LEMMA ReclaimerTurns ==
    ASSUME Served, Reclaiming, Serves, D!Tick \/ D!ClaimPendingLost \/ D!ClaimPendingFails
    PROVE  Proceeds
<1>0. Reclaimer \in D!Consumers
    BY DEF D!Consumers
<1>1. CASE D!Tick
  <2>1. /\ phase[Reclaimer] = "poll" /\ phase'[Reclaimer] = "claiming"
        /\ start' = 0 /\ batch'[Reclaimer] = batch[Reclaimer]
      BY <1>0, <1>1 DEF D!Tick, D!Goto, Served
  <2>2. Claimed' = Claimed /\ Claimed = {} /\ Increasing(batch'[Reclaimer])
      BY <2>1 DEF Claimed, Reclaiming
  <2> QED BY <2>1, <2>2, ReclaimerMoves
<1>2. CASE D!ClaimPendingLost \/ D!ClaimPendingFails
  <2>1. phase'[Reclaimer] = "poll" /\ start' = 0 /\ batch'[Reclaimer] = <<>>
      BY <1>0, <1>2 DEF D!ClaimPendingLost, D!ClaimPendingFails, D!DropClaimed, D!Goto, Served
  <2>2. Claimed' = {} /\ Increasing(batch'[Reclaimer])
      BY <2>1 DEF Claimed, Increasing
  <2> QED BY <2>1, <2>2, ReclaimerMoves
<1> QED BY <1>1, <1>2

\* No step takes an entry back or puts an acknowledged one on the pending list.
LEMMA DeliveryServes ==
    ASSUME Served, Reclaiming, [D!Next]_(D!vars)
    PROVE  Serves
<1>0. delivered \in Int /\ faults \in Nat /\ Len(stream) \in Nat /\ delivered <= Len(stream)
    BY LenProperties DEF Served, Reclaiming
<1>1. ASSUME UNCHANGED delivered, pel' \subseteq pel, faults' \in {faults, faults + 1}
      PROVE  Serves
    BY <1>0, <1>1 DEF Serves
<1>2. ASSUME NEW w \in Workers, D!ReadGroup(w) \/ D!ReadGroupLost(w)
      PROVE  Serves
  <2>1. PICK n : n = D!Lesser(ReadCount, Len(stream) - delivered)
      OBVIOUS
  <2>2. n \in Nat
      BY <1>0, <2>1, SettingsAssumption DEF D!Lesser
  <2>3. /\ D!Deliver(n) /\ faults' \in {faults, faults + 1}
      BY <1>2, <2>1 DEF D!ReadGroup, D!ReadGroupLost, D!Fault, D!NoFault
  <2> QED BY <1>0, <2>2, <2>3 DEF Serves, D!Deliver
<1>3. CASE D!Start \/ D!StartFails
  <2>1. /\ UNCHANGED pel /\ faults' \in {faults, faults + 1}
        /\ D!EnsureGroup \/ UNCHANGED delivered
      BY <1>3 DEF D!Start, D!StartFails, D!Fault
  <2>2. delivered' \in Int /\ delivered <= delivered'
      BY <1>0, <2>1 DEF D!EnsureGroup, D!NoGroup
  <2> QED BY <1>0, <2>1, <2>2 DEF Serves
<1>4. CASE D!Cancel \/ D!Exit \/ D!Crash
    BY <1>1, <1>4 DEF D!Cancel, D!Exit, D!Crash, D!redis, D!Fault
<1>5. ASSUME NEW m, D!Publish(m) \/ D!PublishForeign(m) PROVE Serves
    BY <1>1, <1>5 DEF D!Publish, D!PublishForeign, D!XAdd
<1>6. ASSUME NEW i, D!Age(i) PROVE Serves
    BY <1>1, <1>6 DEF D!Age
<1>7. ASSUME NEW c, D!HandleStep(c) \/ D!Stop(c) \/ D!SkipAck(c) PROVE Serves
  <2>1. CASE D!Process(c) \/ D!Stop(c) \/ D!SkipAck(c)
      BY <1>1, <2>1 DEF D!Process, D!ProcessSucceeds, D!Stop, D!SkipAck, D!redis
  <2>2. CASE D!ProcessFails(c)
      BY <1>1, <2>2 DEF D!ProcessFails, D!ProcessReturnsError, D!Fault, D!NoFault, D!redis
  <2>3. CASE D!Ack(c)
      BY <1>1, <2>3 DEF D!Ack
  <2>4. CASE D!AckFails(c)
      BY <1>1, <2>4 DEF D!AckFails, D!Fault, D!redis
  <2> QED BY <1>7, <2>1, <2>2, <2>3, <2>4 DEF D!HandleStep
<1>8. ASSUME NEW w \in Workers, D!CallReadGroup(w) \/ D!ReadGroupFails(w) PROVE Serves
    BY <1>1, <1>8 DEF D!CallReadGroup, D!ReadGroupFails, D!redis, D!Fault, D!NoFault
<1>9. CASE D!ReclaimerStep
  <2>1. CASE D!Tick
      BY <1>1, <2>1 DEF D!Tick, D!redis
  <2>2. CASE D!ClaimPending
      BY <1>1, <2>2 DEF D!ClaimPending, D!XAutoClaim
  <2>3. CASE D!ClaimPendingLost
      BY <1>1, <2>3 DEF D!ClaimPendingLost, D!XAutoClaim, D!Fault, D!NoFault
  <2>4. CASE D!ClaimPendingFails
      BY <1>1, <2>4 DEF D!ClaimPendingFails, D!redis, D!Fault, D!NoFault
  <2> QED BY <1>9, <2>1, <2>2, <2>3, <2>4 DEF D!ReclaimerStep
<1>10. CASE UNCHANGED D!vars
    BY <1>1, <1>10 DEF D!vars, D!redis
<1> QED BY <1>2, <1>3, <1>4, <1>5, <1>6, <1>7, <1>8, <1>9, <1>10 DEF D!Next, D!WorkerStep

\* Every step of the delivery.
LEMMA DeliveryProceeds ==
    ASSUME Served, Reclaiming, [D!Next]_(D!vars)
    PROVE  Proceeds
<1>0. Serves /\ Reclaimer \in D!Consumers /\ start \in Nat
    BY DeliveryServes DEF D!Consumers, Reclaiming
<1>1. ASSUME UNCHANGED <<start, phase, batch>> PROVE Proceeds
    BY <1>0, <1>1, ReclaimerAside
<1>2. ASSUME NEW m, D!Publish(m) \/ D!PublishForeign(m) PROVE Proceeds
    BY <1>1, <1>2 DEF D!Publish, D!PublishForeign, D!XAdd, D!consumers
<1>3. ASSUME NEW i, D!Age(i) PROVE Proceeds
    BY <1>1, <1>3 DEF D!Age, D!consumers
<1>4. CASE D!StartFails \/ D!Cancel \/ D!Exit \/ UNCHANGED D!vars
    BY <1>1, <1>4 DEF D!StartFails, D!Cancel, D!Exit, D!vars, D!consumers
<1>5. CASE D!Start
  <2>1. phase[Reclaimer] = "stopped"
      BY <1>0, <1>5 DEF D!Start, Served
  <2>2. UNCHANGED <<batch, start>> /\ phase'[Reclaimer] = "poll"
      BY <1>0, <1>5 DEF D!Start
  <2>3. Claimed' = Claimed /\ Claimed = {} /\ Increasing(batch'[Reclaimer])
      BY <2>1, <2>2 DEF Claimed, Reclaiming
  <2> QED BY <1>0, <2>2, <2>3, ReclaimerMoves
<1>6. CASE D!Crash
  <2>1. start' = 0 /\ phase'[Reclaimer] = "stopped" /\ batch'[Reclaimer] = <<>>
      BY <1>0, <1>6 DEF D!Crash
  <2>2. Claimed' = {} /\ Increasing(batch'[Reclaimer])
      BY <2>1 DEF Claimed, Increasing
  <2> QED BY <1>0, <2>1, <2>2, ReclaimerMoves
\* The steps of the others, one goroutine each
<1>7. ASSUME NEW c \in D!Consumers, c # Reclaimer,
             D!HandleStep(c) \/ D!Stop(c) \/ D!WorkerStep(c)
      PROVE  Proceeds
  <2>1. UNCHANGED start
      BY <1>7 DEF D!HandleStep, D!Stop, D!WorkerStep, D!Process, D!ProcessSucceeds,
                  D!ProcessFails, D!ProcessReturnsError, D!Ack, D!AckFails, D!CallReadGroup,
                  D!ReadGroup, D!ReadGroupLost, D!ReadGroupFails, D!SkipAck
  <2>2. phase'[Reclaimer] = phase[Reclaimer] /\ batch'[Reclaimer] = batch[Reclaimer]
      BY <1>0, <1>7 DEF Served, D!NextMessage, D!Goto, D!HandleStep, D!Stop, D!WorkerStep,
                  D!Process, D!ProcessSucceeds, D!ProcessFails, D!ProcessReturnsError, D!Ack,
                  D!AckFails, D!CallReadGroup, D!ReadGroup, D!ReadGroupLost,
                  D!ReadGroupFails, D!SkipAck
  <2> QED BY <1>0, <2>1, <2>2, ReclaimerAside
<1>8. CASE D!HandleStep(Reclaimer) \/ D!Stop(Reclaimer)
  <2>1. ASSUME D!NextMessage(Reclaimer), phase[Reclaimer] \in {"work", "ack"}, UNCHANGED start
        PROVE  Proceeds
      BY <1>0, <2>1, ReclaimerNextMessage
  <2>2. CASE D!ProcessFails(Reclaimer) \/ D!Ack(Reclaimer) \/ D!AckFails(Reclaimer)
      BY <2>1, <2>2 DEF D!ProcessFails, D!ProcessReturnsError, D!Ack, D!AckFails
  <2>3. CASE D!Process(Reclaimer)
    <3>1. phase'[Reclaimer] = "ack" /\ UNCHANGED <<start, batch>>
        BY <1>0, <2>3 DEF D!Process, D!ProcessSucceeds, D!Goto, Served
    <3>2. UNCHANGED Claimed /\ Increasing(batch'[Reclaimer])
        BY <3>1 DEF Claimed, Reclaiming
    <3> QED BY <1>0, <3>1, <3>2, ReclaimerMoves
  <2>4. CASE D!Stop(Reclaimer)
    <3>1. /\ phase[Reclaimer] = "poll" /\ phase'[Reclaimer] = "stopped"
          /\ UNCHANGED <<start, batch>>
        BY <1>0, <2>4 DEF D!Stop, D!Goto, Served
    <3>2. UNCHANGED Claimed /\ Claimed = {} /\ Increasing(batch'[Reclaimer])
        BY <3>1 DEF Claimed, Reclaiming
    <3> QED BY <1>0, <3>1, <3>2, ReclaimerMoves
  <2> QED BY <1>8, <2>2, <2>3, <2>4 DEF D!HandleStep
<1>9. CASE D!ReclaimerStep
    BY <1>0, <1>9, ReclaimerClaims, ReclaimerTurns DEF D!ReclaimerStep
<1>10. ASSUME NEW w \in Workers PROVE w \in D!Consumers /\ w # Reclaimer
    BY ReclaimerAssumption DEF D!Consumers
<1> QED BY <1>2, <1>3, <1>4, <1>5, <1>6, <1>7, <1>8, <1>9, <1>10 DEF D!Next

-----------------------------------------------------------------------------
(* The counters                                                            *)

\* m has the counters of the process.
IsMetrics(m) ==
    m = [applied |-> m.applied, pendingReplayed |-> m.pendingReplayed,
         deadLetters |-> m.deadLetters, recoveredMessages |-> m.recoveredMessages]

\* What a result adds to applied and to dead_letters.
One(r, class) == IF r.class = class THEN 1 ELSE 0

\* What RecordResult does to each counter
LEMMA ResultRecorded ==
    ASSUME NEW m, IsMetrics(m), NEW r
    PROVE  /\ IsMetrics(RecordResult(m, r))
           /\ RecordResult(m, r).pendingReplayed = m.pendingReplayed + r.replayed
           /\ RecordResult(m, r).applied = m.applied + One(r, "APPLIED")
           /\ RecordResult(m, r).deadLetters = m.deadLetters + One(r, "INVALID_TRANSITION")
           /\ RecordResult(m, r).recoveredMessages = m.recoveredMessages
<1> DEFINE v == RecordResult(m, r)
<1>1. PICK x, y, z : /\ x = m.pendingReplayed + r.replayed
                     /\ y = m.applied + One(r, "APPLIED")
                     /\ z = m.deadLetters + One(r, "INVALID_TRANSITION")
    OBVIOUS
<1>2. v = [m EXCEPT !.pendingReplayed = x, !.applied = y, !.deadLetters = z]
    BY <1>1 DEF RecordResult, One, IsMetrics
<1> HIDE DEF v
<1>3. v = [applied |-> y, pendingReplayed |-> x, deadLetters |-> z,
           recoveredMessages |-> m.recoveredMessages]
    BY <1>2 DEF IsMetrics
<1>4. IsMetrics(v)
    BY <1>3 DEF IsMetrics
<1> QED BY <1>1, <1>3, <1>4 DEF v

\* What RecordRecovered does to each counter
LEMMA RecoveredRecorded ==
    ASSUME NEW m, IsMetrics(m)
    PROVE  /\ IsMetrics(RecordRecovered(m))
           /\ RecordRecovered(m).pendingReplayed = m.pendingReplayed
           /\ RecordRecovered(m).applied = m.applied
           /\ RecordRecovered(m).deadLetters = m.deadLetters
           /\ RecordRecovered(m).recoveredMessages = m.recoveredMessages + 1
<1> DEFINE v == RecordRecovered(m)
<1>1. PICK x : x = m.recoveredMessages + 1
    OBVIOUS
<1>2. v = [m EXCEPT !.recoveredMessages = x]
    BY <1>1 DEF RecordRecovered, IsMetrics
<1> HIDE DEF v
<1>3. v = [applied |-> m.applied, pendingReplayed |-> m.pendingReplayed,
           deadLetters |-> m.deadLetters, recoveredMessages |-> x]
    BY <1>2 DEF IsMetrics
<1>4. IsMetrics(v)
    BY <1>3 DEF IsMetrics
<1> QED BY <1>1, <1>3, <1>4 DEF v

\* The message c has handled adds its result, and one recovered message if c is
\* the reclaimer.
LEMMA RecordCounts ==
    ASSUME IsMetrics(metrics), NEW c \in D!Consumers, Record(c)
    PROVE  /\ IsMetrics(metrics')
           /\ metrics'.pendingReplayed = metrics.pendingReplayed + result[c].replayed
           /\ metrics'.applied = metrics.applied + One(result[c], "APPLIED")
           /\ metrics'.deadLetters = metrics.deadLetters + One(result[c], "INVALID_TRANSITION")
           /\ metrics'.recoveredMessages = IF c = Reclaimer THEN metrics.recoveredMessages + 1
                                           ELSE metrics.recoveredMessages
<1>1. PICK m, r : m = RecordResult(metrics, result[c]) /\ r = result[c]
    OBVIOUS
<1>2. /\ IsMetrics(m) /\ m.pendingReplayed = metrics.pendingReplayed + r.replayed
      /\ m.applied = metrics.applied + One(r, "APPLIED")
      /\ m.deadLetters = metrics.deadLetters + One(r, "INVALID_TRANSITION")
      /\ m.recoveredMessages = metrics.recoveredMessages
    BY <1>1, ResultRecorded
<1>3. metrics' = IF c = Reclaimer THEN RecordRecovered(m) ELSE m
    BY <1>1 DEF Record
<1>4. CASE c = Reclaimer
    BY <1>1, <1>2, <1>3, <1>4, RecoveredRecorded
<1>5. CASE c # Reclaimer
    BY <1>1, <1>2, <1>3, <1>5
<1> QED BY <1>4, <1>5

\* No other step counts anything.
LEMMA OthersDoNotCount ==
    ASSUME [Next]_vars, ~\E c \in D!Consumers : Record(c)
    PROVE  UNCHANGED metrics \/ (Start /\ metrics' = NoMetrics)
BY DEF Next, Publish, Age, Start, StartFails, Cancel, Exit, Crash, ConsumerStep, Fetch, Begin,
       Statement, Commit, Fail, Acknowledge, ProcessReturns, vars

\* A step that begins, goes on with or ends a transaction does not concern a message
\* that is in "ack".
LEMMA TransactionElsewhere ==
    ASSUME PipelineInv, NEW c \in D!Consumers, NEW d \in D!Consumers, phase[d] = "ack",
           Begin(c) \/ Statement(c) \/ Commit(c) \/ Fail(c)
    PROVE  phase'[d] = "ack" /\ result'[d] = result[d]
<1>0. Callers /\ Served /\ Handling(c)
    BY DEF PipelineInv
<1>1. CASE Begin(c)
    BY <1>0, <1>1 DEF Begin, R!BeginTx, Callers, delivery
<1>2. CASE Statement(c)
  <2>1. pc[c] # "idle" /\ UNCHANGED phase
      BY <1>2 DEF Statement, delivery, R!AcquireLock, R!insertProcessedEvent, R!TxBody,
             R!loadCurrentStatus, R!Apply, R!SkipDuplicateStatus, R!Defer, R!Reject, R!Route,
             R!ReplayApply, R!ReplaySkip, R!ReplayReject, R!ReplayRow, R!ReplayDone
  <2>2. c # d
      BY <1>0, <2>1 DEF Handling
  <2>3. ASSUME NEW class, NEW w, NEW next, R!Route(c, class, w, next)
        PROVE  result'[d] = result[d]
      BY <1>0, <2>2, <2>3 DEF R!Route, Callers
  <2>4. result'[d] = result[d]
      BY <1>0, <1>2, <2>2, <2>3 DEF Statement, R!AcquireLock, R!insertProcessedEvent, R!TxBody,
             R!loadCurrentStatus, R!Apply, R!SkipDuplicateStatus, R!Defer, R!Reject,
             R!ReplayApply, R!ReplaySkip, R!ReplayReject, R!ReplayRow, R!ReplayDone, Callers
  <2> QED BY <2>1, <2>4
<1>3. CASE Commit(c) \/ Fail(c)
  <2>1. phase[c] = "work"
      BY <1>3 DEF Commit, Fail, ProcessReturns, D!ProcessSucceeds, D!ProcessReturnsError
  <2>2. phase'[d] = phase[d]
      BY <1>0, <1>3, <2>1 DEF Commit, Fail, ProcessReturns, D!ProcessSucceeds,
             D!ProcessReturnsError, D!NextMessage, D!Goto, Served
  <2>3. result'[d] = result[d]
      BY <1>0, <1>3, <2>1 DEF Commit, Fail, R!Commit, R!RefuseEvent, R!BeginFails,
             R!ReturnEarly, R!Rollback, Callers
  <2> QED BY <2>2, <2>3
<1> QED BY <1>1, <1>2, <1>3

\* The message the reclaimer is about to acknowledge stays in its hand until then,
\* unless the process dies.
LEMMA StaysInHand ==
    ASSUME PipelineInv, [Next]_vars, Recorded(Reclaimer), ~Acknowledge(Reclaimer)
    PROVE  Recorded(Reclaimer)' \/ faults' = faults + 1
<1>0. /\ phase[Reclaimer] = "ack" /\ result[Reclaimer] = R!NoResult
      /\ Reclaimer \in D!Consumers /\ Callers /\ Served
    BY DEF Recorded, D!Consumers, PipelineInv
<1>1. ASSUME phase'[Reclaimer] = "ack", result'[Reclaimer] = result[Reclaimer]
      PROVE  Recorded(Reclaimer)'
    BY <1>0, <1>1 DEF Recorded
<1>2. CASE Publish \/ (\E i \in pel : Age(i)) \/ StartFails \/ Cancel \/ Exit \/ UNCHANGED vars
  <2>1. UNCHANGED <<phase, result>>
      BY <1>2 DEF Publish, Age, StartFails, Cancel, Exit, Idle, vars, delivery, database,
             D!Publish, D!XAdd, D!Age, D!StartFails, D!Cancel, D!Exit, D!consumers
  <2> QED BY <1>0, <1>1, <2>1
<1>3. CASE Start
    BY <1>0, <1>3 DEF Start, D!Start, Served
<1>4. CASE Crash
    BY <1>4 DEF Crash, D!Crash, D!Fault
<1>5. ASSUME NEW c \in D!Consumers, ConsumerStep(c) PROVE Recorded(Reclaimer)'
  <2>1. CASE Fetch(c)
    <3>1. UNCHANGED result
        BY <2>1 DEF Fetch, Idle, database
    <3>2. phase'[Reclaimer] = "ack"
        BY <1>0, <2>1 DEF Fetch, D!CallReadGroup, D!ReadGroup, D!ReadGroupLost,
               D!ReadGroupFails, D!Stop, D!ReclaimerStep, D!Tick, D!ClaimPending,
               D!ClaimPendingLost, D!ClaimPendingFails, D!Goto, Served
    <3> QED BY <1>1, <3>1, <3>2
  <2>2. CASE Begin(c) \/ Statement(c) \/ Commit(c) \/ Fail(c)
      BY <1>0, <1>1, <2>2, TransactionElsewhere
  <2>3. CASE Record(c)
    <3>1. c # Reclaimer /\ UNCHANGED phase /\ result' = [result EXCEPT ![c] = R!NoResult]
        BY <1>0, <2>3 DEF Record, delivery
    <3> QED BY <1>0, <1>1, <3>1 DEF Callers
  <2>4. CASE Acknowledge(c)
    <3>1. c # Reclaimer /\ UNCHANGED result /\ D!NextMessage(c)
        BY <2>4 DEF Acknowledge, Idle, database, D!Ack, D!AckFails, D!SkipAck
    <3>2. phase'[Reclaimer] = phase[Reclaimer]
        BY <1>0, <3>1 DEF D!NextMessage, D!Goto, Served
    <3> QED BY <1>0, <1>1, <3>1, <3>2
  <2> QED BY <1>5, <2>1, <2>2, <2>3, <2>4 DEF ConsumerStep
<1> QED BY <1>2, <1>3, <1>4, <1>5 DEF Next

\* What the reclaimer has counted, with the entries it has in hand.
RecoveryInv == /\ IsMetrics(metrics) /\ Reclaiming /\ Recovering

\* The reclaimer's XACK, or its failure
LEMMA AcknowledgeRecovers ==
    ASSUME PipelineInv, RecoveryInv, Acknowledge(Reclaimer), Serves, Proceeds
    PROVE  Recovering'
<1>0. Reclaimer \in D!Consumers
    BY DEF D!Consumers
<1>1. PICK A \in SUBSET Acked :
         /\ metrics.recoveredMessages <= Cardinality(A) + CountedInHand + faults
         /\ A \cap Claimed = {}
    BY DEF Recovering, RecoveryInv
<1>2. IsFiniteSet(A) /\ Cardinality(A) \in Nat
    BY <1>1, FiniteAcked DEF Serves
<1>3. faults \in Nat /\ metrics.recoveredMessages \in Nat /\ UNCHANGED metrics
    BY DEF RecoveryInv, Reclaiming, Recovering, Acknowledge
<1>4. CountedInHand = 1 /\ CountedInHand' \in Nat
    BY DEF Acknowledge, CountedInHand
<1>5. D!Ack(Reclaimer) \/ D!AckFails(Reclaimer)
    BY ReclaimerAssumption DEF Acknowledge
<1>6. PICK i : i = Head(batch[Reclaimer])
    OBVIOUS
<1>7. phase[Reclaimer] = "ack" /\ D!NextMessage(Reclaimer) /\ UNCHANGED <<start, delivered>>
    BY <1>5 DEF D!Ack, D!AckFails, D!redis
<1>8. i \in 1..delivered /\ Claimed' \subseteq Claimed \ {i} /\ i \in Claimed
    BY <1>0, <1>6, <1>7, InHand, ReclaimerNextMessage DEF PipelineInv, RecoveryInv
<1>9. A \subseteq Acked'
    BY <1>1 DEF Proceeds, KeepsAcked
<1>10. CASE D!Ack(Reclaimer)
  <2>1. pel' = pel \ {i} /\ faults' = faults
      BY <1>6, <1>10 DEF D!Ack
  <2>2. A \cup {i} \in SUBSET Acked' /\ (A \cup {i}) \cap Claimed' = {} /\ i \notin A
      BY <1>1, <1>7, <1>8, <1>9, <2>1 DEF Acked
  <2>3. Cardinality(A \cup {i}) = Cardinality(A) + 1
      BY <1>2, <2>2, FS_AddElement
  <2>4. metrics'.recoveredMessages <= Cardinality(A \cup {i}) + CountedInHand' + faults'
      BY <1>1, <1>2, <1>3, <1>4, <2>1, <2>3
  <2> QED BY <1>3, <2>2, <2>4 DEF Recovering
<1>11. CASE D!AckFails(Reclaimer)
  <2>1. faults' = faults + 1
      BY <1>11 DEF D!AckFails, D!Fault
  <2>2. metrics'.recoveredMessages <= Cardinality(A) + CountedInHand' + faults'
      BY <1>1, <1>2, <1>3, <1>4, <2>1
  <2>3. A \in SUBSET Acked' /\ A \cap Claimed' = {}
      BY <1>1, <1>8, <1>9
  <2> QED BY <1>3, <2>2, <2>3 DEF Recovering
<1> QED BY <1>5, <1>10, <1>11

\* Every step of the service.
LEMMA NextRecovers == ServiceInv /\ RecoveryInv /\ [Next]_vars => RecoveryInv'
<1> SUFFICES ASSUME ServiceInv, RecoveryInv, [Next]_vars PROVE RecoveryInv'
    OBVIOUS
<1>1. [D!Next]_(D!vars) /\ PipelineInv /\ Served /\ Callers
    BY StepDelivers DEF ServiceInv, PipelineInv
<1>2. Serves /\ Proceeds /\ delivered \in Int /\ faults \in Nat
    BY <1>1, DeliveryServes, DeliveryProceeds DEF RecoveryInv, Serves, Reclaiming
<1>3. Reclaiming' /\ KeepsAcked /\ faults' \in {faults, faults + 1}
    BY <1>2 DEF Proceeds, KeepsAcked
<1>4. metrics.recoveredMessages \in Nat /\ Recovering /\ IsMetrics(metrics)
    BY DEF RecoveryInv, Recovering
<1>5. ASSUME ~Acknowledge(Reclaimer)
      PROVE  CountedInHand + faults <= CountedInHand' + faults'
  <2>1. Recorded(Reclaimer) => Recorded(Reclaimer)' \/ faults' = faults + 1
      BY <1>1, <1>5, StaysInHand
  <2>2. /\ CountedInHand \in {0, 1} /\ CountedInHand' \in {0, 1}
        /\ CountedInHand = 1 => CountedInHand' = 1 \/ faults' = faults + 1
      BY <2>1 DEF CountedInHand
  <2>3. PICK h, i, f, g : h = CountedInHand /\ i = CountedInHand' /\ f = faults /\ g = faults'
      OBVIOUS
  <2>4. /\ f \in Nat /\ g \in {f, f + 1} /\ h \in {0, 1} /\ i \in {0, 1}
        /\ h = 1 => i = 1 \/ g = f + 1
      BY <1>2, <1>3, <2>2, <2>3
  <2>5. h + f <= i + g
      BY ONLY <2>4
  <2> QED BY <2>3, <2>5
<1>6. ASSUME Record(Reclaimer) PROVE IsMetrics(metrics') /\ Recovering'
  <2>0. Reclaimer \in D!Consumers
      BY DEF D!Consumers
  <2>1. /\ IsMetrics(metrics')
        /\ metrics'.recoveredMessages = metrics.recoveredMessages + 1
      BY <1>4, <1>6, <2>0, RecordCounts
  <2>2. ~Recorded(Reclaimer) /\ UNCHANGED <<phase, faults>> /\ phase[Reclaimer] = "ack"
      BY <1>6 DEF Record, Recorded, delivery
  <2>3. result'[Reclaimer] = R!NoResult
      BY <1>1, <1>6, <2>0 DEF Record, Callers
  <2>4. CountedInHand = 0 /\ CountedInHand' = 1
      BY <2>2, <2>3 DEF CountedInHand, Recorded
  <2>5. metrics'.recoveredMessages + CountedInHand + faults
           <= metrics.recoveredMessages + CountedInHand' + faults'
      BY <1>2, <1>4, <2>1, <2>2, <2>4
  <2> QED BY <1>2, <1>3, <1>4, <2>1, <2>5, StillRecovered
<1>7. ASSUME IsMetrics(metrics'),
             metrics'.recoveredMessages \in {metrics.recoveredMessages, 0},
             ~Acknowledge(Reclaimer)
      PROVE  IsMetrics(metrics') /\ Recovering'
  <2>1. CountedInHand \in Nat /\ CountedInHand' \in Nat
      BY DEF CountedInHand
  <2>2. \/ metrics'.recoveredMessages = 0
        \/ metrics'.recoveredMessages + CountedInHand + faults
              <= metrics.recoveredMessages + CountedInHand' + faults'
    <3>1. PICK h, i, m, n, f, g :
             /\ h = CountedInHand /\ i = CountedInHand' /\ f = faults /\ g = faults'
             /\ m = metrics.recoveredMessages /\ n = metrics'.recoveredMessages
        OBVIOUS
    <3>2. /\ h \in Nat /\ i \in Nat /\ m \in Nat /\ f \in Nat /\ g \in Nat
          /\ n \in {m, 0} /\ h + f <= i + g
      <4>1. CountedInHand + faults <= CountedInHand' + faults'
          BY <1>5, <1>7
      <4>2. g \in Nat
          BY <1>2, <1>3, <3>1
      <4> QED BY <1>2, <1>4, <1>7, <2>1, <3>1, <4>1, <4>2
    <3>3. n = 0 \/ n + h + f <= m + i + g
        BY ONLY <3>2
    <3> QED BY <3>1, <3>3
  <2> QED BY <1>2, <1>3, <1>4, <1>7, <2>2, StillRecovered
<1>8. ASSUME NEW c \in D!Consumers, Record(c), c # Reclaimer
      PROVE  IsMetrics(metrics') /\ Recovering'
  <2>1. IsMetrics(metrics') /\ metrics'.recoveredMessages = metrics.recoveredMessages
      BY <1>4, <1>8, RecordCounts
  <2>2. ~Acknowledge(Reclaimer)
    <3>1. UNCHANGED <<phase, batch>> /\ Reclaimer \in D!Consumers
        BY <1>8 DEF Record, delivery, D!Consumers
    <3>2. ASSUME Acknowledge(Reclaimer) PROVE FALSE
      <4>1. phase[Reclaimer] = "ack" /\ D!NextMessage(Reclaimer)
          BY <3>2 DEF Acknowledge, D!Ack, D!AckFails, D!SkipAck
      <4>2. phase'[Reclaimer] # "ack"
          BY <1>1, <3>1, <4>1 DEF D!NextMessage, D!Goto, Served
      <4> QED BY <3>1, <4>1, <4>2
    <3> QED BY <3>2
  <2> QED BY <1>7, <2>1, <2>2
<1>9. CASE Acknowledge(Reclaimer)
  <2>1. UNCHANGED metrics
      BY <1>9 DEF Acknowledge
  <2> QED BY <1>1, <1>2, <1>3, <1>4, <1>9, <2>1, AcknowledgeRecovers DEF RecoveryInv
<1>10. CASE ~Acknowledge(Reclaimer) /\ ~\E c \in D!Consumers : Record(c)
  <2>1. UNCHANGED metrics \/ metrics' = NoMetrics
      BY <1>10, OthersDoNotCount
  <2>2. IsMetrics(metrics') /\ metrics'.recoveredMessages \in {metrics.recoveredMessages, 0}
      BY <1>4, <2>1 DEF NoMetrics, IsMetrics
  <2> QED BY <1>3, <1>7, <1>10, <2>2 DEF RecoveryInv
<1> QED BY <1>3, <1>6, <1>8, <1>9, <1>10 DEF RecoveryInv

\* Nothing is counted and nothing is in hand at the beginning.
LEMMA InitRecovers == Init => RecoveryInv
<1> SUFFICES ASSUME Init PROVE RecoveryInv
    OBVIOUS
<1>1. Reclaimer \in D!Consumers
    BY DEF D!Consumers
<1>2. /\ start \in Nat /\ faults \in Nat /\ batch[Reclaimer] = <<>>
      /\ phase[Reclaimer] = "stopped"
    BY <1>1 DEF Init, D!Init
<1>3. Claimed = {} /\ Increasing(batch[Reclaimer])
    BY <1>2 DEF Claimed, Increasing
<1>4. Reclaiming
    BY <1>2, <1>3 DEF Reclaiming
<1>5. IsMetrics(metrics) /\ metrics.recoveredMessages = 0
    BY DEF Init, NoMetrics, IsMetrics
<1>6. Recovering
  <2>1. Cardinality({}) = 0 /\ {} \in SUBSET Acked /\ {} \cap Claimed = {}
      BY FS_EmptySet
  <2>2. metrics.recoveredMessages <= Cardinality({}) + CountedInHand + faults
      BY <1>2, <1>5, <2>1 DEF CountedInHand
  <2> QED BY <1>5, <2>1, <2>2 DEF Recovering
<1> QED BY <1>4, <1>5, <1>6 DEF RecoveryInv

\* The set of entries bounds the counter.
LEMMA RecoveryBounded == PipelineInv /\ RecoveryInv => RecoveredExceedsByFaults
<1> SUFFICES ASSUME PipelineInv, RecoveryInv PROVE RecoveredExceedsByFaults
    OBVIOUS
<1>1. PICK A \in SUBSET Acked :
         metrics.recoveredMessages <= Cardinality(A) + CountedInHand + faults
    BY DEF RecoveryInv, Recovering
<1>2. delivered \in Int /\ faults \in Nat /\ metrics.recoveredMessages \in Nat
    BY LenProperties DEF RecoveryInv, Recovering, Reclaiming, PipelineInv, Served
<1>3. Cardinality(A) \in Nat /\ Cardinality(Acked) \in Nat /\ Cardinality(A) <= Cardinality(Acked)
    BY <1>2, FiniteAcked
<1>4. metrics.recoveredMessages <= Cardinality(Acked) + CountedInHand + faults
    BY <1>1, <1>2, <1>3 DEF CountedInHand
<1> QED BY <1>4 DEF RecoveredExceedsByFaults, Acked

\* Apart from the message the reclaimer has counted and is about to acknowledge,
\* recovered_messages exceeds the acknowledged entries by one per failed call at
\* most, for every pool, batch size and script: the reclaimer never has an
\* entry in hand twice and never takes up an acknowledged one again, although
\* a worker may acknowledge what the reclaimer holds, and what it claimed in
\* one round of ClaimPending may be stale again in the next
\* (reclaimer.go:137-174, redis_stream.go:149-204).
THEOREM RecoveredExceedsByFaultsHolds == Spec => []RecoveredExceedsByFaults
<1>1. Init => ServiceInv /\ RecoveryInv
    BY InitPipeline, InitRecovers DEF Init, ServiceInv
<1>2. ServiceInv => PipelineInv
    BY DEF ServiceInv
<1> QED BY <1>1, <1>2, NextPipeline, NextRecovers, RecoveryBounded, PTL DEF Spec

-----------------------------------------------------------------------------
(* History rows and dead letters of a transaction                          *)

IsSequence(s) == \E T : s \in Seq(T)

\* The event_ids w writes a dead letter for.
Buried(w) == {i \in Ids : w.dead[i] > 0}

\* w keeps a sequence of history rows and a number of dead letters per event_id.
IsLedger(w) == IsSequence(w.history) /\ w.dead \in [Ids -> Nat]

\* v is w with n more history rows and dead letters for the event_ids of X.
Grows(w, v, n, X) ==
    /\ IsLedger(v)
    /\ Len(v.history) = Len(w.history) + n
    /\ Buried(v) = Buried(w) \cup X

\* A sequence has a length, and its domain goes up to it.
LEMMA SequenceLen ==
    ASSUME NEW s, IsSequence(s)
    PROVE  Len(s) \in Nat /\ DOMAIN s = 1..Len(s)
BY LenProperties DEF IsSequence

\* A row is appended.
LEMMA SequenceAppend ==
    ASSUME NEW s, IsSequence(s), NEW x
    PROVE  IsSequence(Append(s, x)) /\ Len(Append(s, x)) = Len(s) + 1
<1>1. PICK T : s \in Seq(T)
    BY DEF IsSequence
<1>2. s \in Seq(T \cup {x})
    BY <1>1, SeqMonotonic
<1>3. Append(s, x) \in Seq(T \cup {x}) /\ Len(Append(s, x)) = Len(s) + 1
    BY <1>2, AppendProperties
<1> QED BY <1>3 DEF IsSequence

\* The rows of a transaction are appended to those of the order.
LEMMA SequenceConcat ==
    ASSUME NEW s, NEW t, IsSequence(s), IsSequence(t)
    PROVE  IsSequence(s \o t) /\ Len(s \o t) = Len(s) + Len(t)
<1>1. PICK S, T : s \in Seq(S) /\ t \in Seq(T)
    BY DEF IsSequence
<1>2. s \in Seq(S \cup T) /\ t \in Seq(S \cup T)
    BY <1>1, SeqMonotonic
<1>3. s \o t \in Seq(S \cup T) /\ Len(s \o t) = Len(s) + Len(t)
    BY <1>2, ConcatProperties
<1> QED BY <1>3 DEF IsSequence

\* A transaction begins with no row and no dead letter.
LEMMA NothingGrown == /\ IsLedger(R!NoWrites) /\ Len(R!NoWrites.history) = 0
                      /\ Buried(R!NoWrites) = {}
<1>1. R!NoWrites.history = <<>> /\ R!NoWrites.dead = [i \in Ids |-> 0]
    BY DEF R!NoWrites
<1>2. <<>> \in Seq({})
    BY EmptySeq
<1>3. Len(R!NoWrites.history) = 0
    BY <1>1
<1>4. Buried(R!NoWrites) = {}
    BY <1>1 DEF Buried
<1>5. IsLedger(R!NoWrites)
    BY <1>1, <1>2 DEF IsLedger, IsSequence
<1> QED BY <1>3, <1>4, <1>5

\* updateOutcome writes neither.
LEMMA OutcomeOnly ==
    ASSUME NEW w, IsWriteSet(w), NEW row, NEW outcome
    PROVE  /\ R!updateOutcome(w, row, outcome).history = w.history
           /\ R!updateOutcome(w, row, outcome).dead = w.dead
<1>0. w = [outcome |-> w.outcome, order |-> w.order, history |-> w.history,
           defer |-> w.defer, settle |-> w.settle, dead |-> w.dead]
    BY DEF IsWriteSet
<1>1. PICK x : x = [w.outcome EXCEPT ![row.id] = outcome]
    OBVIOUS
<1>2. R!updateOutcome(w, row, outcome) = [w EXCEPT !.outcome = x]
    BY <1>0, <1>1 DEF R!updateOutcome
<1>3. [w EXCEPT !.outcome = x] =
          [outcome |-> x, order |-> w.order, history |-> w.history, defer |-> w.defer,
           settle |-> w.settle, dead |-> w.dead]
    BY <1>0
<1> QED BY <1>2, <1>3

\* What a write does to the ledger depends on the ledger alone.
LEMMA SameGrowth ==
    ASSUME NEW w, NEW v, NEW u, NEW n, NEW X, Grows(w, v, n, X),
           u.history = v.history, u.dead = v.dead
    PROVE  Grows(w, u, n, X)
BY DEF Grows, IsLedger, Buried

\* A write set with other history rows and dead letters, then updateOutcome
LEMMA WriteThenGrows ==
    ASSUME NEW w, IsWriteSet(w), NEW v, NEW a, NEW b, NEW d, NEW s, NEW x,
           v = [outcome |-> w.outcome, order |-> a, history |-> b, defer |-> d,
                settle |-> s, dead |-> x],
           NEW n, NEW X, Grows(w, v, n, X), NEW row, NEW outcome
    PROVE  Grows(w, R!updateOutcome(v, row, outcome), n, X)
<1>1. IsWriteSet(v)
    BY DEF IsWriteSet
<1> QED BY <1>1, OutcomeOnly, SameGrowth

\* The rows and dead letters each branch adds
LEMMA StatementGrows ==
    ASSUME NEW w, IsWriteSet(w), IsLedger(w), NEW row, row.id \in Ids, NEW from, NEW outcome
    PROVE  /\ Grows(w, R!updateOutcome(w, row, outcome), 0, {})
           /\ Grows(w, R!applyEvent(w, row, from), 1, {})
           /\ Grows(w, R!insertPendingEvent(w, row), 0, {})
           /\ Grows(w, R!insertDeadLetterEvent(w, row), 0, {row.id})
<1>0. w = [outcome |-> w.outcome, order |-> w.order, history |-> w.history,
           defer |-> w.defer, settle |-> w.settle, dead |-> w.dead]
    BY DEF IsWriteSet
<1>1. Grows(w, w, 0, {})
  <2>1. Len(w.history) \in Nat
      BY SequenceLen DEF IsLedger
  <2> QED BY <2>1 DEF Grows
<1>2. Grows(w, R!updateOutcome(w, row, outcome), 0, {})
    BY <1>1, OutcomeOnly, SameGrowth
<1>3. Grows(w, R!applyEvent(w, row, from), 1, {})
  <2>1. PICK a : a = [status |-> row.status, ts |-> row.ts]
      OBVIOUS
  <2>2. PICK h : h = [id |-> row.id, from |-> from, to |-> row.status, ts |-> row.ts]
      OBVIOUS
  <2>3. PICK b : b = Append(w.history, h)
      OBVIOUS
  <2>4. PICK v : v = [w EXCEPT !.order = a, !.history = b]
      OBVIOUS
  <2>5. R!applyEvent(w, row, from) = R!updateOutcome(v, row, "APPLIED")
      BY <1>0, <2>1, <2>2, <2>3, <2>4 DEF R!applyEvent
  <2>6. v = [outcome |-> w.outcome, order |-> a, history |-> b,
             defer |-> w.defer, settle |-> w.settle, dead |-> w.dead]
      BY <1>0, <2>4
  <2>7. IsSequence(b) /\ Len(b) = Len(w.history) + 1
      BY <2>3, SequenceAppend DEF IsLedger
  <2>8. v.history = b /\ v.dead = w.dead
      BY <2>6
  <2>9. Grows(w, v, 1, {})
      BY <2>7, <2>8 DEF Grows, IsLedger, Buried
  <2> QED BY <2>5, <2>6, <2>9, WriteThenGrows
<1>4. Grows(w, R!insertPendingEvent(w, row), 0, {})
  <2>1. PICK d : d = w.defer \cup {row}
      OBVIOUS
  <2>2. PICK v : v = [w EXCEPT !.defer = d]
      OBVIOUS
  <2>3. R!insertPendingEvent(w, row) = R!updateOutcome(v, row, "OUT_OF_ORDER")
      BY <1>0, <2>1, <2>2 DEF R!insertPendingEvent
  <2>4. v = [outcome |-> w.outcome, order |-> w.order, history |-> w.history,
             defer |-> d, settle |-> w.settle, dead |-> w.dead]
      BY <1>0, <2>2
  <2>5. v.history = w.history /\ v.dead = w.dead
      BY <2>4
  <2>6. Grows(w, v, 0, {})
      BY <1>1, <2>5, SameGrowth
  <2> QED BY <2>3, <2>4, <2>6, WriteThenGrows
<1>5. Grows(w, R!insertDeadLetterEvent(w, row), 0, {row.id})
  <2>1. PICK x : x = [w.dead EXCEPT ![row.id] = @ + 1]
      OBVIOUS
  <2>2. PICK v : v = [w EXCEPT !.dead = x]
      OBVIOUS
  <2>3. R!insertDeadLetterEvent(w, row) = R!updateOutcome(v, row, "INVALID_TRANSITION")
      BY <1>0, <2>1, <2>2 DEF R!insertDeadLetterEvent
  <2>4. v = [outcome |-> w.outcome, order |-> w.order, history |-> w.history,
             defer |-> w.defer, settle |-> w.settle, dead |-> x]
      BY <1>0, <2>2
  <2>5. v.history = w.history /\ v.dead = x
      BY <2>4
  <2>6. w.dead \in [Ids -> Nat] /\ Len(w.history) \in Nat
      BY SequenceLen DEF IsLedger
  <2>7. /\ x \in [Ids -> Nat]
        /\ \A i \in Ids : x[i] = IF i = row.id THEN w.dead[i] + 1 ELSE w.dead[i]
      BY <2>1, <2>6
  <2>8. Buried(v) = Buried(w) \cup {row.id}
      BY <2>5, <2>6, <2>7 DEF Buried
  <2>9. Grows(w, v, 0, {row.id})
      BY <2>5, <2>6, <2>7, <2>8 DEF Grows, IsLedger
  <2> QED BY <2>3, <2>4, <2>9, WriteThenGrows
<1> QED BY <1>2, <1>3, <1>4, <1>5

\* Deleting a pending event adds none.
LEMMA DeletePendingGrows ==
    ASSUME NEW w, NEW v, NEW row, NEW n, NEW X, IsWriteSet(v), Grows(w, v, n, X)
    PROVE  Grows(w, R!deletePending(v, row), n, X)
<1>1. v = [outcome |-> v.outcome, order |-> v.order, history |-> v.history,
           defer |-> v.defer, settle |-> v.settle, dead |-> v.dead]
    BY DEF IsWriteSet
<1>2. R!deletePending(v, row) =
          [outcome |-> v.outcome, order |-> v.order, history |-> v.history,
           defer |-> v.defer, settle |-> v.settle \cup {row}, dead |-> v.dead]
    BY <1>1 DEF R!deletePending
<1> QED BY <1>2, SameGrowth

-----------------------------------------------------------------------------
(* What ProcessEventTx is about to return                                  *)

\* The history rows a result reports.
Weight(r) == r.replayed + One(r, "APPLIED")

IsResult(r) == /\ r = [status |-> r.status, class |-> r.class, replayed |-> r.replayed]
               /\ r.replayed \in Nat

\* A result reports a number of rows.
LEMMA ResultWeight ==
    ASSUME NEW r, IsResult(r)
    PROVE  /\ Weight(r) \in Nat
           /\ One(r, "INVALID_TRANSITION") = IF r.class = "INVALID_TRANSITION" THEN 1 ELSE 0
BY DEF Weight, IsResult, One

\* Unless it is APPLIED or has replayed something, it reports none.
LEMMA NoWeight ==
    ASSUME NEW r, r.class # "APPLIED", r.replayed = 0
    PROVE  Weight(r) = 0
BY DEF Weight, One

\* The results before classification and after a failure report nothing.
LEMMA NoResults == /\ IsResult(R!NoResult) /\ R!NoResult.class = "" /\ R!NoResult.replayed = 0
                   /\ R!NoResult.status # "ok"
                   /\ IsResult(R!Failed) /\ R!Failed.class = "" /\ R!Failed.replayed = 0
                   /\ R!Failed.status = "error"
BY DEF IsResult, R!NoResult, R!Failed

\* A result after one of its fields was set
LEMMA ResultFields ==
    ASSUME NEW r, IsResult(r), NEW x
    PROVE  /\ IsResult([r EXCEPT !.class = x]) /\ [r EXCEPT !.class = x].class = x
           /\ [r EXCEPT !.class = x].replayed = r.replayed
           /\ IsResult([r EXCEPT !.status = x]) /\ [r EXCEPT !.status = x].class = r.class
           /\ [r EXCEPT !.status = x].replayed = r.replayed
           /\ [r EXCEPT !.status = x].status = x
           /\ IsResult([r EXCEPT !.replayed = @ + 1])
           /\ [r EXCEPT !.replayed = @ + 1].class = r.class
           /\ [r EXCEPT !.replayed = @ + 1].replayed = r.replayed + 1
<1>0. r = [status |-> r.status, class |-> r.class, replayed |-> r.replayed]
    BY DEF IsResult
<1>1. [r EXCEPT !.class = x] = [status |-> r.status, class |-> x, replayed |-> r.replayed]
    BY <1>0
<1>2. [r EXCEPT !.status = x] = [status |-> x, class |-> r.class, replayed |-> r.replayed]
    BY <1>0
<1>3. [r EXCEPT !.replayed = @ + 1] = [status |-> r.status, class |-> r.class,
                                       replayed |-> r.replayed + 1]
  <2>1. PICK n : n = r.replayed + 1
      OBVIOUS
  <2>2. [r EXCEPT !.replayed = n] = [status |-> r.status, class |-> r.class, replayed |-> n]
      BY <1>0
  <2> QED BY <1>0, <2>1, <2>2
<1>4. r.replayed + 1 \in Nat
    BY DEF IsResult
<1> QED BY <1>1, <1>2, <1>3, <1>4 DEF IsResult

\* The same for a result given by an equation
LEMMA ClassRecorded ==
    ASSUME NEW q, IsResult(q), NEW x, NEW r, r = [q EXCEPT !.class = x]
    PROVE  IsResult(r) /\ r.class = x /\ r.replayed = q.replayed
BY ResultFields

-----------------------------------------------------------------------------
(* The transactions' tally                                                 *)

Opening   == {"idle", "lock", "insert"}
Undecided == {"lock", "insert", "load", "classify"}

\* The rows of order_status_history, and the event_ids with a dead letter
AllRows == UNION {{o} \X DOMAIN history[o] : o \in Orders}
Dead    == {i \in Ids : deadLetters[i] > 0}

\* An open transaction will report as many changes as it has history rows, and an
\* invalid transition only with a dead letter.
Tallied(c) ==
    /\ IsResult(result[c]) /\ IsLedger(ws[c])
    /\ Buried(ws[c]) \subseteq Writes(ws[c])
    /\ pc[c] # "idle" => Len(ws[c].history) = Weight(result[c])
    /\ pc[c] \in Undecided => result[c].class = "" /\ result[c].replayed = 0
    /\ pc[c] # "idle" /\ result[c].class = "INVALID_TRANSITION" => ev[c].id \in Buried(ws[c])

\* The transaction has inserted its event.
Fresh(c) == pc[c] \notin Opening /\ result[c].class # "DUPLICATE_EVENT"

\* Then, and only then, nobody else has committed it.
Inserted(c) == pc[c] \notin Opening => (Fresh(c) <=> ev[c].id \notin Durable)

\* The primary key of processed_events lets one open transaction insert an event.
Distinct == \A c, d \in D!Consumers : c # d /\ Fresh(c) /\ Fresh(d) => ev[c].id # ev[d].id

\* What the transactions have left in the tables
Settled ==
    /\ DOMAIN history = Orders
    /\ \A o \in Orders : IsSequence(history[o])
    /\ deadLetters \in [Ids -> Nat]
    /\ Dead \subseteq Durable
    /\ IsFiniteSet(Durable) /\ IsFiniteSet(AllRows)

TallyInv == /\ Settled /\ Distinct
            /\ \A c \in D!Consumers : Tallied(c) /\ Inserted(c)

\* No transaction is open and all tables are empty at the beginning.
LEMMA InitTally == Init => TallyInv
<1> SUFFICES ASSUME Init PROVE TallyInv
    OBVIOUS
<1>1. /\ processed = [i \in Ids |-> R!NotProcessed] /\ history = [o \in Orders |-> <<>>]
      /\ deadLetters = [i \in Ids |-> 0]
      /\ pc = [p \in D!Consumers |-> "idle"] /\ ws = [p \in D!Consumers |-> R!NoWrites]
      /\ result = [p \in D!Consumers |-> R!NoResult]
    BY DEF Init, R!Init, D!Consumers
<1>2. Durable = {} /\ Dead = {}
    BY <1>1 DEF Durable, Dead
<1>3. \A o \in Orders : IsSequence(history[o]) /\ DOMAIN history[o] = {}
    BY <1>1, EmptySeq DEF IsSequence
<1>4. AllRows = {}
    BY <1>3 DEF AllRows
<1>5. Settled
    BY <1>1, <1>2, <1>3, <1>4, FS_EmptySet DEF Settled
<1>6. ASSUME NEW c \in D!Consumers
      PROVE  pc[c] = "idle" /\ ws[c] = R!NoWrites /\ result[c] = R!NoResult
    BY <1>1, <1>6
<1>7. \A c \in D!Consumers : Tallied(c) /\ Inserted(c) /\ ~Fresh(c)
    BY <1>6, NoResults, NothingGrown DEF Tallied, Inserted, Fresh, Opening, Undecided
<1> QED BY <1>5, <1>7 DEF TallyInv, Distinct

\* A step that leaves the database alone.
LEMMA DatabaseIdleTally ==
    ASSUME TallyInv, UNCHANGED database
    PROVE  TallyInv'
<1>1. UNCHANGED <<processed, history, deadLetters, pc, ev, ws, result>>
    BY DEF database, tables
<1>2. UNCHANGED Durable /\ UNCHANGED Dead /\ UNCHANGED AllRows
    BY <1>1 DEF Durable, Dead, AllRows
<1>3. Settled'
    BY <1>1, <1>2 DEF TallyInv, Settled
<1>4. Distinct'
    BY <1>1 DEF TallyInv, Distinct, Fresh
<1>5. \A c \in D!Consumers : Tallied(c)' /\ Inserted(c)'
    BY <1>1, <1>2 DEF TallyInv, Tallied, Inserted, Fresh
<1> QED BY <1>3, <1>4, <1>5 DEF TallyInv

\* Whoever is not concerned by a step keeps his tally.
LEMMA OthersKeepTally ==
    ASSUME TallyInv, NEW d \in D!Consumers, pc'[d] = pc[d], ev'[d] = ev[d], ws'[d] = ws[d],
           result'[d] = result[d]
    PROVE  Tallied(d)' /\ Fresh(d)' = Fresh(d)
BY DEF TallyInv, Tallied, Fresh

\* A step of c's transaction that leaves the tables alone.
LEMMA OnlyCallerTallies ==
    ASSUME TallyInv, NEW c \in D!Consumers, UNCHANGED tables,
           \A d \in D!Consumers \ {c} : /\ pc'[d] = pc[d] /\ ev'[d] = ev[d]
                                        /\ ws'[d] = ws[d] /\ result'[d] = result[d],
           Tallied(c)', Inserted(c)',
           Fresh(c)' => \A d \in D!Consumers \ {c} : Fresh(d) => ev'[c].id # ev[d].id
    PROVE  TallyInv'
<1>1. UNCHANGED <<processed, history, deadLetters>>
    BY DEF tables
<1>2. UNCHANGED Durable /\ UNCHANGED Dead /\ UNCHANGED AllRows
    BY <1>1 DEF Durable, Dead, AllRows
<1>3. Settled'
    BY <1>1, <1>2 DEF TallyInv, Settled
<1>4. \A d \in D!Consumers \ {c} : Tallied(d)' /\ Fresh(d)' = Fresh(d)
    BY OthersKeepTally
<1>5. \A d \in D!Consumers \ {c} : Inserted(d)'
    BY <1>2, <1>4 DEF TallyInv, Inserted
<1>6. Distinct'
  <2> SUFFICES ASSUME NEW a \in D!Consumers, NEW b \in D!Consumers, a # b,
                      Fresh(a)', Fresh(b)'
               PROVE  ev'[a].id # ev'[b].id
      BY DEF Distinct
  <2>1. CASE a = c
      BY <1>4, <2>1
  <2>2. CASE b = c
      BY <1>4, <2>2
  <2>3. CASE a # c /\ b # c
      BY <1>4, <2>3 DEF TallyInv, Distinct
  <2> QED BY <2>1, <2>2, <2>3
<1> QED BY <1>3, <1>4, <1>5, <1>6 DEF TallyInv

\* c's transaction ends or has not begun.
LEMMA CallerIdle ==
    ASSUME TallyInv, NEW c \in D!Consumers, UNCHANGED tables,
           \A d \in D!Consumers \ {c} : /\ pc'[d] = pc[d] /\ ev'[d] = ev[d]
                                        /\ ws'[d] = ws[d] /\ result'[d] = result[d],
           pc'[c] = "idle", ws'[c] = R!NoWrites, IsResult(result'[c])
    PROVE  TallyInv'
<1>1. Tallied(c)' /\ Inserted(c)' /\ ~Fresh(c)'
    BY NothingGrown DEF Tallied, Inserted, Fresh, Opening, Undecided
<1> QED BY <1>1, OnlyCallerTallies

\* A statement that adds to the write set, and as much to the result.
LEMMA StatementTallies ==
    ASSUME TallyInv, NEW c \in D!Consumers, UNCHANGED <<tables, ev>>,
           \A d \in D!Consumers \ {c} : /\ pc'[d] = pc[d] /\ ws'[d] = ws[d]
                                        /\ result'[d] = result[d],
           pc[c] \notin Opening, pc'[c] \in {"classify", "replay", "commit"},
           NEW n \in Nat, NEW i, NEW X \in SUBSET {i},
           Grows(ws[c], ws'[c], n, X), Writes(ws[c]) \cup X \subseteq Writes(ws'[c]),
           IsResult(result'[c]), Weight(result'[c]) = Weight(result[c]) + n,
           pc'[c] = "classify" => result'[c] = result[c] /\ pc[c] \in Undecided,
           result[c].class = "DUPLICATE_EVENT" <=> result'[c].class = "DUPLICATE_EVENT",
           result'[c].class = "INVALID_TRANSITION" =>
               result[c].class = "INVALID_TRANSITION" \/ ev[c].id \in X
    PROVE  TallyInv'
<1>1. UNCHANGED Durable /\ ev'[c] = ev[c]
    BY DEF tables, Durable
<1>2. Tallied(c) /\ Inserted(c)
    BY DEF TallyInv
<1>3. /\ IsLedger(ws'[c]) /\ Len(ws'[c].history) = Len(ws[c].history) + n
      /\ Buried(ws'[c]) = Buried(ws[c]) \cup X
    BY DEF Grows
<1>4. Len(ws'[c].history) = Weight(result'[c])
    BY <1>2, <1>3 DEF Tallied, Opening
<1>5. pc'[c] \in Undecided => result'[c].class = "" /\ result'[c].replayed = 0
    BY <1>2 DEF Tallied, Undecided
<1>6. result'[c].class = "INVALID_TRANSITION" => ev'[c].id \in Buried(ws'[c])
    BY <1>1, <1>2, <1>3 DEF Tallied, Opening
<1>7. Buried(ws'[c]) \subseteq Writes(ws'[c])
    BY <1>2, <1>3 DEF Tallied
<1>8. Tallied(c)'
    BY <1>3, <1>4, <1>5, <1>6, <1>7 DEF Tallied
<1>9. Fresh(c)' = Fresh(c) /\ Inserted(c)'
    BY <1>1, <1>2 DEF Inserted, Fresh, Opening
<1>10. Fresh(c)' => \A d \in D!Consumers \ {c} : Fresh(d) => ev'[c].id # ev[d].id
    BY <1>1, <1>9 DEF TallyInv, Distinct
<1> QED BY <1>8, <1>9, <1>10, OnlyCallerTallies

\* BEGIN
LEMMA BeginTallies ==
    ASSUME PipelineInv, TallyInv, NEW c \in D!Consumers, Begin(c)
    PROVE  TallyInv'
<1>1. /\ UNCHANGED <<tables, ws>> /\ pc[c] = "idle"
      /\ pc' = [pc EXCEPT ![c] = "lock"]
      /\ ev' = [ev EXCEPT ![c] = R!Row(Event(c))]
      /\ result' = [result EXCEPT ![c] = R!NoResult]
    BY DEF Begin, R!BeginTx, R!tables, tables
<1>2. Callers /\ ws[c] = R!NoWrites
    BY <1>1 DEF PipelineInv, Writing
<1>3. /\ pc'[c] = "lock" /\ result'[c] = R!NoResult /\ ws'[c] = R!NoWrites
      /\ \A d \in D!Consumers \ {c} : /\ pc'[d] = pc[d] /\ ev'[d] = ev[d]
                                      /\ ws'[d] = ws[d] /\ result'[d] = result[d]
    BY <1>1, <1>2 DEF Callers
<1>4. Weight(R!NoResult) = 0
    BY DEF Weight, One, R!NoResult
<1>5. Tallied(c)' /\ Inserted(c)' /\ ~Fresh(c)'
    BY <1>3, <1>4, NothingGrown, NoResults DEF Tallied, Inserted, Fresh, Opening, Undecided
<1> QED BY <1>1, <1>3, <1>5, OnlyCallerTallies

\* The advisory lock and the INSERT INTO processed_events
LEMMA InsertTallies ==
    ASSUME PipelineInv, TallyInv, NEW c \in D!Consumers,
           R!AcquireLock(c) \/ R!insertProcessedEvent(c)
    PROVE  TallyInv'
<1>0. /\ Callers /\ Handling(c) /\ Writing(c) /\ Served /\ Tallied(c)
    BY DEF PipelineInv, TallyInv
<1>1. UNCHANGED <<tables, ev>> /\ pc[c] \in {"lock", "insert"}
    BY DEF R!AcquireLock, R!insertProcessedEvent, R!tables, tables
<1>2. ev[c].id \in Ids /\ ws[c] = R!NoWrites /\ result[c].class = "" /\ result[c].replayed = 0
      /\ IsResult(result[c])
    BY <1>0, <1>1, InTransaction DEF Writing, Tallied, Undecided
<1>3. CASE R!AcquireLock(c)
  <2>1. UNCHANGED <<ws, result>> /\ pc' = [pc EXCEPT ![c] = "insert"] /\ pc[c] = "lock"
      BY <1>3 DEF R!AcquireLock
  <2>2. /\ pc'[c] = "insert"
        /\ \A d \in D!Consumers \ {c} : pc'[d] = pc[d]
      BY <1>0, <2>1 DEF Callers
  <2>3. Tallied(c)' /\ Inserted(c)' /\ ~Fresh(c)'
      BY <1>0, <1>1, <2>1, <2>2 DEF Tallied, Inserted, Fresh, Opening, Undecided
  <2> QED BY <1>1, <2>1, <2>2, <2>3, OnlyCallerTallies
<1>4. CASE R!insertProcessedEvent(c) /\ processed[ev[c].id] # R!NotProcessed
  <2>1. PICK r : r = [result[c] EXCEPT !.class = "DUPLICATE_EVENT"]
      OBVIOUS
  <2>2. /\ UNCHANGED ws /\ pc' = [pc EXCEPT ![c] = "commit"]
        /\ result' = [result EXCEPT ![c] = r]
      BY <1>4, <2>1 DEF R!insertProcessedEvent
  <2>3. /\ pc'[c] = "commit" /\ result'[c] = r /\ ws'[c] = R!NoWrites /\ ev'[c] = ev[c]
        /\ \A d \in D!Consumers \ {c} : pc'[d] = pc[d] /\ result'[d] = result[d]
      BY <1>0, <1>1, <1>2, <2>2 DEF Callers
  <2>4. IsResult(r) /\ r.class = "DUPLICATE_EVENT" /\ r.replayed = 0
      BY <1>2, <2>1, ResultFields
  <2>5. Weight(r) = 0
      BY <2>4 DEF Weight, One
  <2>6. ev[c].id \in Durable'
      BY <1>1, <1>2, <1>4 DEF Durable, tables
  <2>7. Tallied(c)'
      BY <2>3, <2>4, <2>5, NothingGrown DEF Tallied, Undecided
  <2>8. Inserted(c)' /\ ~Fresh(c)'
      BY <2>3, <2>4, <2>6 DEF Inserted, Fresh
  <2> QED BY <1>1, <2>2, <2>3, <2>7, <2>8, OnlyCallerTallies
<1>5. CASE R!insertProcessedEvent(c) /\ processed[ev[c].id] = R!NotProcessed
  <2>1. PICK v : v = R!updateOutcome(ws[c], ev[c], "RECEIVED")
      OBVIOUS
  <2>2. /\ UNCHANGED result /\ pc' = [pc EXCEPT ![c] = "load"]
        /\ ws' = [ws EXCEPT ![c] = v]
        /\ ~R!WrittenElsewhere(c, ev[c].id)
      BY <1>5, <2>1 DEF R!insertProcessedEvent
  <2>3. /\ pc'[c] = "load" /\ ws'[c] = v /\ ev'[c] = ev[c] /\ result'[c] = result[c]
        /\ \A d \in D!Consumers \ {c} : pc'[d] = pc[d] /\ ws'[d] = ws[d]
      BY <1>0, <1>1, <2>2 DEF Callers
  <2>4. Grows(R!NoWrites, v, 0, {})
      BY <1>0, <1>2, <2>1, NothingGrown, StatementGrows DEF Writing
  <2>5. IsLedger(v) /\ Len(v.history) = 0 /\ Buried(v) = {}
      BY <2>4, NothingGrown DEF Grows
  <2>6. Weight(result[c]) = 0
      BY <1>2, NoWeight
  <2>7. ev[c].id \notin Durable'
      BY <1>1, <1>5 DEF Durable, tables
  <2>8. Tallied(c)'
      BY <1>2, <2>3, <2>5, <2>6 DEF Tallied, Undecided
  <2>9. Inserted(c)'
      BY <1>2, <2>3, <2>7 DEF Inserted, Fresh
  <2>10. \A d \in D!Consumers \ {c} : Fresh(d) => ev[c].id # ev[d].id
    <3> SUFFICES ASSUME NEW d \in D!Consumers \ {c}, Fresh(d), ev[c].id = ev[d].id PROVE FALSE
        OBVIOUS
    <3>1. ev[d].id \in Writes(ws[d])
        BY DEF Fresh, TallyInv, Inserted, PipelineInv, Writing, Opening
    <3>2. ws[d].outcome[ev[c].id] # ""
        BY <3>1 DEF Writes
    <3> QED BY <2>2, <3>2 DEF R!WrittenElsewhere, D!Consumers
  <2> QED BY <1>1, <2>2, <2>3, <2>8, <2>9, <2>10, OnlyCallerTallies
<1> QED BY <1>3, <1>4, <1>5

\* The switch on the classification
LEMMA RouteTallies ==
    ASSUME PipelineInv, TallyInv, NEW c \in D!Consumers,
           R!Apply(c) \/ R!SkipDuplicateStatus(c) \/ R!Defer(c) \/ R!Reject(c)
    PROVE  TallyInv'
<1>0. /\ Callers /\ Handling(c) /\ Writing(c) /\ Served /\ Tallied(c)
    BY DEF PipelineInv, TallyInv
<1>1. UNCHANGED <<tables, ev>> /\ pc[c] = "classify"
    BY DEF R!Apply, R!SkipDuplicateStatus, R!Defer, R!Reject, R!Route, R!tables, tables
<1>2. ev[c].id \in Ids /\ IsWriteSet(ws[c]) /\ IsLedger(ws[c]) /\ IsResult(result[c])
      /\ result[c].class = "" /\ result[c].replayed = 0
    BY <1>0, <1>1, InTransaction DEF Writing, Tallied, Undecided
<1>3. ASSUME NEW class \in {"APPLIED", "DUPLICATE_STATUS", "OUT_OF_ORDER", "INVALID_TRANSITION"},
             NEW v, NEW next \in {"replay", "commit"}, R!Route(c, class, v, next),
             NEW n \in Nat, NEW X \in SUBSET {ev[c].id}, Grows(ws[c], v, n, X),
             Writes(v) = Writes(ws[c]) \cup {ev[c].id},
             n = IF class = "APPLIED" THEN 1 ELSE 0,
             class = "INVALID_TRANSITION" => ev[c].id \in X
      PROVE  TallyInv'
  <2>1. PICK r : r = [result[c] EXCEPT !.class = class]
      OBVIOUS
  <2>2. /\ pc' = [pc EXCEPT ![c] = next] /\ ws' = [ws EXCEPT ![c] = v]
        /\ result' = [result EXCEPT ![c] = r]
      BY <1>3, <2>1 DEF R!Route
  <2>3. /\ pc'[c] = next /\ ws'[c] = v /\ result'[c] = r
        /\ \A d \in D!Consumers \ {c} : /\ pc'[d] = pc[d] /\ ws'[d] = ws[d]
                                        /\ result'[d] = result[d]
      BY <1>0, <2>2 DEF Callers
  <2>4. IsResult(r) /\ r.class = class /\ r.replayed = result[c].replayed
    <3>1. PICK q : q = result[c]
        OBVIOUS
    <3>2. IsResult(q) /\ r = [q EXCEPT !.class = class]
        BY <1>2, <2>1, <3>1
    <3>3. IsResult(r) /\ r.class = class /\ r.replayed = q.replayed
        BY ONLY <3>2, ClassRecorded
    <3> QED BY <3>1, <3>3
  <2>5. Weight(r) = Weight(result[c]) + n
    <3>1. One(r, "APPLIED") = n /\ One(result[c], "APPLIED") = 0
        BY <1>2, <1>3, <2>4 DEF One
    <3>2. r.replayed = 0 /\ result[c].replayed = 0
        BY <1>2, <2>4
    <3> QED BY <1>3, <3>1, <3>2 DEF Weight
  <2>6. /\ result[c].class = "DUPLICATE_EVENT" <=> result'[c].class = "DUPLICATE_EVENT"
        /\ result'[c].class = "INVALID_TRANSITION" => ev[c].id \in X
      BY <1>2, <1>3, <2>3, <2>4
  <2>7. PICK i : i = ev[c].id
      OBVIOUS
  <2>8. X \in SUBSET {i} /\ Writes(ws[c]) \cup X \subseteq Writes(ws'[c])
      BY <1>3, <2>3, <2>7
  <2>9. pc[c] \notin Opening /\ pc'[c] \in {"classify", "replay", "commit"}
        /\ pc'[c] # "classify"
      BY <1>1, <1>3, <2>3 DEF Opening
  <2>10. Grows(ws[c], ws'[c], n, X) /\ IsResult(result'[c])
         /\ Weight(result'[c]) = Weight(result[c]) + n
      BY <1>3, <2>3, <2>4, <2>5
  <2> QED BY <1>1, <2>3, <2>6, <2>8, <2>9, <2>10, StatementTallies
<1>4. PICK v1, v2, v3, v4 :
          /\ v1 = R!applyEvent(ws[c], ev[c], cur[c])
          /\ v2 = R!updateOutcome(ws[c], ev[c], "DUPLICATE_STATUS")
          /\ v3 = R!insertPendingEvent(ws[c], ev[c])
          /\ v4 = R!insertDeadLetterEvent(ws[c], ev[c])
    OBVIOUS
<1>5. /\ Adds(ws[c], v1, ev[c].id, {}) /\ Adds(ws[c], v2, ev[c].id, {})
      /\ Adds(ws[c], v3, ev[c].id, {ev[c]}) /\ Adds(ws[c], v4, ev[c].id, {})
    BY <1>2, <1>4, StatementAdds, OutcomeAdds
<1>6. /\ Grows(ws[c], v1, 1, {}) /\ Grows(ws[c], v2, 0, {})
      /\ Grows(ws[c], v3, 0, {}) /\ Grows(ws[c], v4, 0, {ev[c].id})
    BY <1>2, <1>4, StatementGrows
<1>7. \A v \in {v1, v2, v3, v4} : Writes(v) = Writes(ws[c]) \cup {ev[c].id}
    BY <1>5 DEF Adds
<1>8. CASE R!Apply(c)
  <2>1. R!Route(c, "APPLIED", v1, "replay")
      BY <1>4, <1>8 DEF R!Apply
  <2> QED BY <1>3, <1>6, <1>7, <2>1
<1>9. CASE R!SkipDuplicateStatus(c)
  <2>1. R!Route(c, "DUPLICATE_STATUS", v2, "commit")
      BY <1>4, <1>9 DEF R!SkipDuplicateStatus
  <2> QED BY <1>3, <1>6, <1>7, <2>1
<1>10. CASE R!Defer(c)
  <2>1. R!Route(c, "OUT_OF_ORDER", v3, "commit")
      BY <1>4, <1>10 DEF R!Defer
  <2> QED BY <1>3, <1>6, <1>7, <2>1
<1>11. CASE R!Reject(c)
  <2>1. R!Route(c, "INVALID_TRANSITION", v4, "commit")
      BY <1>4, <1>11 DEF R!Reject
  <2> QED BY <1>3, <1>6, <1>7, <2>1
<1> QED BY <1>8, <1>9, <1>10, <1>11

\* loadCurrentStatus, and the end of replayPending
LEMMA ReadTallies ==
    ASSUME PipelineInv, TallyInv, NEW c \in D!Consumers,
           R!loadCurrentStatus(c) \/ R!ReplayDone(c)
    PROVE  TallyInv'
<1>0. Callers /\ Tallied(c)
    BY DEF PipelineInv, TallyInv
<1>1. UNCHANGED <<tables, ev, ws, result>>
    BY DEF R!loadCurrentStatus, R!ReplayDone, R!tables, tables
<1>2. \/ pc[c] = "load" /\ pc' = [pc EXCEPT ![c] = "classify"]
      \/ pc[c] = "replay" /\ pc' = [pc EXCEPT ![c] = "commit"]
    BY DEF R!loadCurrentStatus, R!ReplayDone
<1>3. /\ \A d \in D!Consumers \ {c} : pc'[d] = pc[d]
      /\ pc[c] \notin Opening /\ pc'[c] \in {"classify", "replay", "commit"}
      /\ pc'[c] = "classify" => pc[c] \in Undecided
    BY <1>0, <1>2 DEF Callers, Opening, Undecided
<1>4. ws'[c] = ws[c] /\ result'[c] = result[c] /\ IsResult(result[c]) /\ IsLedger(ws[c])
    BY <1>0, <1>1 DEF Tallied
<1>5. Len(ws[c].history) \in Nat /\ Weight(result[c]) \in Nat
    BY <1>4, SequenceLen, ResultWeight DEF IsLedger
<1>6. Grows(ws[c], ws'[c], 0, {}) /\ Weight(result'[c]) = Weight(result[c]) + 0
    BY <1>4, <1>5 DEF Grows
<1>7. PICK n, i : n = 0 /\ i = ev[c].id
    OBVIOUS
<1>8. PICK X \in SUBSET {i} : X = {}
    OBVIOUS
<1>9. /\ Grows(ws[c], ws'[c], n, X) /\ Weight(result'[c]) = Weight(result[c]) + n
      /\ Writes(ws[c]) \cup X \subseteq Writes(ws'[c])
      /\ n \in Nat
    BY <1>4, <1>6, <1>7, <1>8
<1> QED BY <1>1, <1>3, <1>4, <1>9, StatementTallies

\* One iteration of replayPending
LEMMA ReplayTallies ==
    ASSUME PipelineInv, TallyInv, NEW c \in D!Consumers,
           R!ReplayApply(c) \/ R!ReplaySkip(c) \/ R!ReplayReject(c)
    PROVE  TallyInv'
<1>0. /\ Callers /\ Handling(c) /\ Writing(c) /\ Served /\ Deferred /\ Tallied(c)
    BY DEF PipelineInv, TallyInv
<1>1. UNCHANGED <<tables, ev, pc>> /\ pc[c] = "replay"
    BY DEF R!ReplayApply, R!ReplaySkip, R!ReplayReject, R!ReplayRow, R!tables, tables
<1>2. ev[c].id \in Ids /\ IsWriteSet(ws[c]) /\ IsLedger(ws[c]) /\ IsResult(result[c])
    BY <1>0, <1>1, InTransaction DEF Writing, Tallied
<1>3. ASSUME NEW row \in R!PendingView(c) PROVE row.id \in Ids
    BY <1>0, <1>2 DEF R!PendingView, Deferred, Writing, Durable
<1>4. ASSUME NEW v, ws' = [ws EXCEPT ![c] = v], NEW r, result'[c] = r,
             \A d \in D!Consumers \ {c} : result'[d] = result[d], IsResult(r), r.class = result[c].class, NEW n \in Nat,
             r.replayed = result[c].replayed + n,
             NEW i, NEW X \in SUBSET {i}, Grows(ws[c], v, n, X),
             Writes(v) = Writes(ws[c]) \cup {i}
      PROVE  TallyInv'
  <2>1. /\ ws'[c] = v /\ result'[c] = r
        /\ \A d \in D!Consumers \ {c} : ws'[d] = ws[d] /\ result'[d] = result[d]
      BY <1>0, <1>4 DEF Callers
  <2>2. Weight(r) = Weight(result[c]) + n
    <3>1. /\ One(r, "APPLIED") = One(result[c], "APPLIED")
          /\ One(result[c], "APPLIED") \in Nat /\ result[c].replayed \in Nat
        BY <1>2, <1>4 DEF One, IsResult
    <3> QED BY <1>4, <3>1 DEF Weight
  <2>3. Grows(ws[c], ws'[c], n, X) /\ Writes(ws[c]) \cup X \subseteq Writes(ws'[c])
        /\ IsResult(result'[c]) /\ Weight(result'[c]) = Weight(result[c]) + n
        /\ result'[c].class = result[c].class
      BY <1>4, <2>1, <2>2
  <2>4. pc[c] \notin Opening /\ pc'[c] \in {"classify", "replay", "commit"}
        /\ pc'[c] # "classify" /\ \A d \in D!Consumers \ {c} : pc'[d] = pc[d]
      BY <1>1 DEF Opening
  <2> QED BY <1>1, <2>1, <2>3, <2>4, StatementTallies
<1>5. CASE R!ReplayApply(c)
  <2>1. PICK row \in R!PendingView(c) :
            /\ R!ReplayRow(c, row, "APPLIED",
                           R!deletePending(R!applyEvent(ws[c], row, cur[c]), row))
            /\ result' = [result EXCEPT ![c].replayed = @ + 1]
      BY <1>5 DEF R!ReplayApply
  <2>2. PICK u : u = R!applyEvent(ws[c], row, cur[c])
      OBVIOUS
  <2>3. PICK v : v = R!deletePending(u, row)
      OBVIOUS
  <2>4. Adds(ws[c], u, row.id, {}) /\ Grows(ws[c], u, 1, {})
      BY <1>2, <1>3, <2>2, StatementAdds, StatementGrows
  <2>5. Adds(ws[c], v, row.id, {}) /\ Grows(ws[c], v, 1, {})
    <3>1. IsWriteSet(u)
        BY <2>4 DEF Adds
    <3>2. Grows(ws[c], v, 1, {})
        BY <2>3, <2>4, <3>1, DeletePendingGrows
    <3> QED BY <2>3, <2>4, <3>2, DeletePendingAdds
  <2>6. PICK q : q = result[c]
      OBVIOUS
  <2>7. PICK r : r = [q EXCEPT !.replayed = @ + 1]
      OBVIOUS
  <2>8. ws' = [ws EXCEPT ![c] = v] /\ result' = [result EXCEPT ![c] = r]
      BY <2>1, <2>2, <2>3, <2>6, <2>7 DEF R!ReplayRow
  <2>9. result'[c] = r /\ \A d \in D!Consumers \ {c} : result'[d] = result[d]
      BY <1>0, <2>8 DEF Callers
  <2>10. IsResult(q)
      BY <1>2, <2>6
  <2>11. IsResult(r) /\ r.class = q.class /\ r.replayed = q.replayed + 1
      BY <2>7, <2>10, ResultFields
  <2>12. PICK i : i = row.id
      OBVIOUS
  <2>13. PICK n \in Nat, X \in SUBSET {i} : n = 1 /\ X = {}
      OBVIOUS
  <2>14. /\ Grows(ws[c], v, n, X) /\ Writes(v) = Writes(ws[c]) \cup {i}
         /\ r.class = result[c].class /\ r.replayed = result[c].replayed + n
      BY <2>5, <2>6, <2>11, <2>12, <2>13 DEF Adds
  <2> QED BY <1>4, <2>8, <2>9, <2>11, <2>14
\* The other two leave the result alone.
<1>6. ASSUME NEW row \in R!PendingView(c), NEW u, Adds(ws[c], u, row.id, {}),
             NEW i, i = row.id, NEW X \in SUBSET {i}, Grows(ws[c], u, 0, X),
             ws' = [ws EXCEPT ![c] = R!deletePending(u, row)], UNCHANGED result
      PROVE  TallyInv'
  <2>1. PICK v : v = R!deletePending(u, row)
      OBVIOUS
  <2>2. Adds(ws[c], v, row.id, {}) /\ Grows(ws[c], v, 0, X)
    <3>1. IsWriteSet(u)
        BY <1>6 DEF Adds
    <3>2. Grows(ws[c], v, 0, X)
        BY <1>6, <2>1, <3>1, DeletePendingGrows
    <3> QED BY <1>6, <2>1, <3>2, DeletePendingAdds
  <2>3. PICK r : r = result[c]
      OBVIOUS
  <2>4. /\ result'[c] = r /\ \A d \in D!Consumers \ {c} : result'[d] = result[d]
        /\ IsResult(r) /\ r.class = result[c].class /\ r.replayed = result[c].replayed
      BY <1>2, <1>6, <2>3
  <2>5. PICK n \in Nat : n = 0
      OBVIOUS
  <2>6. r.replayed = result[c].replayed + n
      BY <2>4, <2>5 DEF IsResult
  <2>7. Grows(ws[c], v, n, X) /\ Writes(v) = Writes(ws[c]) \cup {i}
      BY <1>6, <2>2, <2>5 DEF Adds
  <2> QED BY <1>4, <1>6, <2>1, <2>4, <2>6, <2>7
<1>7. CASE R!ReplaySkip(c)
  <2>1. PICK row \in R!PendingView(c) :
            R!ReplayRow(c, row, "DUPLICATE_STATUS",
                   R!deletePending(R!updateOutcome(ws[c], row, "DUPLICATE_STATUS"), row))
      BY <1>7 DEF R!ReplaySkip
  <2>2. PICK u, i : u = R!updateOutcome(ws[c], row, "DUPLICATE_STATUS") /\ i = row.id
      OBVIOUS
  <2>3. Adds(ws[c], u, row.id, {}) /\ Grows(ws[c], u, 0, {})
      BY <1>2, <1>3, <2>2, OutcomeAdds, StatementGrows
  <2>4. ws' = [ws EXCEPT ![c] = R!deletePending(u, row)] /\ UNCHANGED result
      BY <1>7, <2>1, <2>2 DEF R!ReplayRow, R!ReplaySkip
  <2>5. PICK X \in SUBSET {i} : X = {}
      OBVIOUS
  <2> QED BY <1>6, <2>2, <2>3, <2>4, <2>5
<1>8. CASE R!ReplayReject(c)
  <2>1. PICK row \in R!PendingView(c) :
            R!ReplayRow(c, row, "INVALID_TRANSITION",
                   R!deletePending(R!insertDeadLetterEvent(ws[c], row), row))
      BY <1>8 DEF R!ReplayReject
  <2>2. PICK u, i : u = R!insertDeadLetterEvent(ws[c], row) /\ i = row.id
      OBVIOUS
  <2>3. Adds(ws[c], u, row.id, {}) /\ Grows(ws[c], u, 0, {i})
      BY <1>2, <1>3, <2>2, StatementAdds, StatementGrows
  <2>4. ws' = [ws EXCEPT ![c] = R!deletePending(u, row)] /\ UNCHANGED result
      BY <1>8, <2>1, <2>2 DEF R!ReplayRow, R!ReplayReject
  <2> QED BY <1>6, <2>2, <2>3, <2>4
<1> QED BY <1>5, <1>7, <1>8

\* A refusal, a failed BEGIN, a rollback, the end of a message, and a crash
LEMMA EndTallies ==
    ASSUME PipelineInv, TallyInv, NEW c \in D!Consumers, Fail(c) \/ Record(c)
    PROVE  TallyInv'
<1>0. Callers /\ Writing(c) /\ Handling(c)
    BY DEF PipelineInv
<1>1. UNCHANGED tables
    BY DEF Fail, R!RefuseEvent, R!BeginFails, R!ReturnEarly, R!Rollback, R!tables, tables,
           Record
<1>2. /\ DOMAIN ev' = DOMAIN ev /\ \A d \in D!Consumers \ {c} : ev'[d] = ev[d]
      /\ \/ result' = [result EXCEPT ![c] = R!Failed]
         \/ result' = [result EXCEPT ![c] = R!NoResult]
    BY <1>0 DEF Fail, R!RefuseEvent, R!BeginFails, R!ReturnEarly, R!Rollback, R!EndTx,
           Record, Callers
<1>3. \/ pc[c] = "idle" /\ UNCHANGED <<pc, ws>>
      \/ pc' = [pc EXCEPT ![c] = "idle"] /\ ws' = [ws EXCEPT ![c] = R!NoWrites]
  <2>1. CASE Fail(c)
      BY <2>1 DEF Fail, R!RefuseEvent, R!BeginFails, R!ReturnEarly, R!Rollback, R!EndTx
  <2>2. CASE Record(c)
    <3>1. phase[c] = "ack" /\ UNCHANGED <<pc, ws>>
        BY <2>2 DEF Record
    <3> QED BY <1>0, <3>1 DEF Handling
  <2> QED BY <2>1, <2>2
<1>4. /\ pc'[c] = "idle" /\ ws'[c] = R!NoWrites
      /\ \A d \in D!Consumers \ {c} : pc'[d] = pc[d] /\ ws'[d] = ws[d]
    BY <1>0, <1>3 DEF Callers, Writing
<1>5. /\ IsResult(result'[c])
      /\ \A d \in D!Consumers \ {c} : result'[d] = result[d]
    BY <1>0, <1>2, NoResults DEF Callers
<1> QED BY <1>1, <1>2, <1>4, <1>5, CallerIdle

\* The process dies; its transactions are rolled back.
LEMMA CrashTallies ==
    ASSUME TallyInv, Crash
    PROVE  TallyInv'
<1>1. /\ pc' = [c \in D!Consumers |-> "idle"] /\ ws' = [c \in D!Consumers |-> R!NoWrites]
      /\ result' = [c \in D!Consumers |-> R!NoResult]
      /\ UNCHANGED <<processed, history, deadLetters>>
    BY DEF Crash, tables
<1>2. UNCHANGED Durable /\ UNCHANGED Dead /\ UNCHANGED AllRows
    BY <1>1 DEF Durable, Dead, AllRows
<1>3. Settled'
    BY <1>1, <1>2 DEF TallyInv, Settled
<1>4. ASSUME NEW c \in D!Consumers
      PROVE  pc'[c] = "idle" /\ ws'[c] = R!NoWrites /\ result'[c] = R!NoResult
    BY <1>1, <1>4
<1>5. \A c \in D!Consumers : Tallied(c)' /\ Inserted(c)' /\ ~Fresh(c)'
    BY <1>4, NoResults, NothingGrown DEF Tallied, Inserted, Fresh, Opening, Undecided
<1> QED BY <1>3, <1>5 DEF TallyInv, Distinct

-----------------------------------------------------------------------------
(* COMMIT                                                                  *)

\* n rows of an order after the first a
RowsAfter(o, a, n) == {o} \X (a + 1 .. a + n)

\* They are n.
LEMMA CountRows ==
    ASSUME NEW o, NEW a \in Nat, NEW n \in Nat
    PROVE  /\ IsFiniteSet(RowsAfter(o, a, n))
           /\ Cardinality(RowsAfter(o, a, n)) = n
<1> DEFINE S == {o} \X (a + 1 .. a + n)
<1>1. PICK f : f = [k \in 1..n |-> <<o, a + k>>]
    OBVIOUS
<1>2. f \in [1..n -> S] /\ \A k \in 1..n : f[k] = <<o, a + k>>
    BY <1>1
<1>3. \A j, k \in 1..n : f[j] = f[k] => j = k
    BY <1>2
<1>4. \A x \in S : \E k \in 1..n : f[k] = x
  <2> SUFFICES ASSUME NEW m \in a + 1 .. a + n PROVE \E k \in 1..n : f[k] = <<o, m>>
      OBVIOUS
  <2>1. m - a \in 1..n /\ a + (m - a) = m
      OBVIOUS
  <2> QED BY <1>2, <2>1
<1>5. f \in Bijection(1..n, S)
    BY <1>2, <1>3, <1>4 DEF Bijection, Injection, Surjection, IsInjective
<1>6. ExistsBijection(1..n, S)
    BY <1>5 DEF ExistsBijection
<1> HIDE DEF S
<1>7. IsFiniteSet(S)
    BY <1>6, FS_NatBijection
<1>8. Cardinality(S) = n
    BY <1>6, FS_CountingElements
<1> QED BY <1>7, <1>8 DEF S, RowsAfter

\* The rows c's COMMIT adds to order_status_history
NewRows(c) == RowsAfter(ev[c].order, Len(history[ev[c].order]), Len(ws[c].history))

\* The order of a transaction's event is one of the orders.
LEMMA OrderInTransaction ==
    ASSUME Served, NEW c \in D!Consumers, Handling(c), pc[c] # "idle"
    PROVE  ev[c].order \in Orders
<1>1. phase[c] = "work" /\ ev[c] = R!Row(Event(c)) /\ R!validateEvent(Event(c))
    BY DEF Handling
<1>2. PICK e \in Published : D!Message(c) = Entry(e)
    BY <1>1, InHand DEF Messages
<1>3. Event(c) = e
    BY <1>2 DEF Event, Entry
<1>4. PICK s \in Scripts : \E n \in DOMAIN s : e = s[n]
    BY <1>2 DEF Published
<1>5. e \in R!OrderEvent
    BY <1>4, ScriptAssumption, ElementOfSeq, LenProperties
<1>6. e.order \in Orders \cup {""} /\ e.order # ""
    BY <1>1, <1>3, <1>5 DEF R!OrderEvent, R!validateEvent
<1>7. e.order \in Orders
    BY <1>6
<1>8. ev[c].order = e.order
    BY <1>1, <1>3 DEF R!Row
<1> QED BY <1>7, <1>8

\* COMMIT adds as many rows as the transaction has tallied.
LEMMA CommitAddsRows ==
    ASSUME PipelineInv, TallyInv, NEW c \in D!Consumers, R!Commit(c)
    PROVE  /\ DOMAIN history' = Orders /\ \A o \in Orders : IsSequence(history'[o])
           /\ AllRows' = AllRows \cup NewRows(c)
           /\ NewRows(c) \cap AllRows = {}
           /\ IsFiniteSet(NewRows(c)) /\ Cardinality(NewRows(c)) = Weight(result[c])
<1>0. pc[c] = "commit" /\ Served /\ Handling(c) /\ Tallied(c) /\ Settled
    BY DEF R!Commit, PipelineInv, TallyInv
<1>1. PICK o \in Orders : o = ev[c].order
    BY <1>0, OrderInTransaction
<1>2. PICK h, w : h = history[o] /\ w = ws[c].history
    OBVIOUS
<1>3. IsSequence(h) /\ IsSequence(w) /\ DOMAIN history = Orders
    BY <1>0, <1>1, <1>2 DEF Settled, Tallied, IsLedger
<1>4. history' = [history EXCEPT ![o] = h \o w]
    BY <1>1, <1>2 DEF R!Commit, R!MakeVisible
<1>5. /\ DOMAIN history' = Orders /\ history'[o] = h \o w
      /\ \A p \in Orders \ {o} : history'[p] = history[p]
    BY <1>3, <1>4
<1>6. IsSequence(h \o w) /\ Len(h \o w) = Len(h) + Len(w)
    BY <1>3, SequenceConcat
<1>7. /\ Len(h) \in Nat /\ DOMAIN h = 1..Len(h) /\ Len(w) \in Nat
      /\ DOMAIN (h \o w) = 1..(Len(h) + Len(w))
    BY <1>3, <1>6, SequenceLen
<1>8. \A p \in Orders : IsSequence(history'[p])
    BY <1>0, <1>5, <1>6 DEF Settled
<1>9. NewRows(c) = {o} \X (Len(h) + 1 .. Len(h) + Len(w))
    BY <1>1, <1>2 DEF NewRows, RowsAfter
<1>10. DOMAIN (h \o w) = DOMAIN h \cup (Len(h) + 1 .. Len(h) + Len(w))
    BY <1>7
<1>11. AllRows' = AllRows \cup NewRows(c)
  <2>1. \A x : x \in AllRows' <=> \E p \in Orders : x \in {p} \X DOMAIN history'[p]
      BY DEF AllRows
  <2>2. \A x : x \in AllRows <=> \E p \in Orders : x \in {p} \X DOMAIN history[p]
      BY DEF AllRows
  <2>3. \A x : x \in {o} \X DOMAIN (h \o w) <=> x \in {o} \X DOMAIN h \/ x \in NewRows(c)
      BY <1>9, <1>10
  <2>4. \A x : x \in AllRows' <=> x \in AllRows \/ x \in NewRows(c)
      BY <1>1, <1>2, <1>5, <2>1, <2>2, <2>3
  <2> QED BY <2>4
<1>12. NewRows(c) \cap AllRows = {}
  <2> SUFFICES ASSUME NEW x \in NewRows(c), x \in AllRows PROVE FALSE
      OBVIOUS
  <2>1. PICK p \in Orders : x \in {p} \X DOMAIN history[p]
      BY DEF AllRows
  <2>2. x[1] = o /\ x[2] \in Len(h) + 1 .. Len(h) + Len(w)
      BY <1>9
  <2>3. x[1] = p /\ x[2] \in DOMAIN history[p]
      BY <2>1
  <2>4. x[2] \in 1..Len(h)
      BY <1>2, <1>7, <2>2, <2>3
  <2> QED BY <1>7, <2>2, <2>4
<1>13. IsFiniteSet(NewRows(c)) /\ Cardinality(NewRows(c)) = Len(w)
  <2>1. PICK a \in Nat, n \in Nat : a = Len(h) /\ n = Len(w)
      BY <1>7
  <2>2. IsFiniteSet(RowsAfter(o, a, n)) /\ Cardinality(RowsAfter(o, a, n)) = n
      BY CountRows
  <2>3. NewRows(c) = RowsAfter(o, a, n)
      BY <1>1, <1>2, <2>1 DEF NewRows
  <2> QED BY <2>1, <2>2, <2>3
<1>14. Len(w) = Weight(result[c])
    BY <1>0, <1>2 DEF Tallied
<1> QED BY <1>5, <1>8, <1>11, <1>12, <1>13, <1>14

\* COMMIT makes the dead letters of the transaction visible.
LEMMA CommitBuries ==
    ASSUME PipelineInv, TallyInv, NEW c \in D!Consumers, R!Commit(c)
    PROVE  /\ deadLetters' \in [Ids -> Nat]
           /\ Dead' = Dead \cup Buried(ws[c])
<1>1. deadLetters' = [i \in Ids |-> deadLetters[i] + ws[c].dead[i]]
    BY DEF R!Commit, R!MakeVisible
<1>2. deadLetters \in [Ids -> Nat] /\ ws[c].dead \in [Ids -> Nat]
    BY DEF TallyInv, Settled, Tallied, IsLedger
<1> QED BY <1>1, <1>2 DEF Dead, Buried

\* COMMIT empties the write set, and the event is durable from then on.
LEMMA CommitTallies ==
    ASSUME PipelineInv, TallyInv, NEW c \in D!Consumers, R!Commit(c)
    PROVE  TallyInv'
<1>0. /\ pc[c] = "commit" /\ Callers /\ Tallied(c) /\ Inserted(c) /\ Settled
      /\ Buried(ws[c]) \subseteq Writes(ws[c])
    BY DEF R!Commit, PipelineInv, TallyInv, Tallied
<1>1. /\ Durable' = Durable \cup {ev[c].id}
      /\ Durable' = Durable \cup Writes(ws[c])
    BY CommitRecordsOne
<1>2. Settled'
  <2>1. IsFiniteSet(Durable')
    <3>1. IsFiniteSet(Durable)
        BY <1>0 DEF Settled
    <3>2. IsFiniteSet(Durable \cup {ev[c].id})
        BY <3>1, FS_AddElement
    <3> QED BY <1>1, <3>2
  <2>2. Dead' \subseteq Durable' /\ deadLetters' \in [Ids -> Nat]
      BY <1>0, <1>1, CommitBuries DEF Settled
  <2>3. IsFiniteSet(AllRows')
    <3>1. IsFiniteSet(NewRows(c)) /\ AllRows' = AllRows \cup NewRows(c)
        BY CommitAddsRows
    <3> QED BY <1>0, <3>1, FS_Union DEF Settled
  <2> QED BY <2>1, <2>2, <2>3, CommitAddsRows DEF Settled
<1>3. /\ pc' = [pc EXCEPT ![c] = "idle"] /\ ws' = [ws EXCEPT ![c] = R!NoWrites]
      /\ UNCHANGED ev
    BY DEF R!Commit, R!EndTx
<1>4. /\ pc'[c] = "idle" /\ ws'[c] = R!NoWrites
      /\ \A d \in D!Consumers \ {c} : /\ pc'[d] = pc[d] /\ ws'[d] = ws[d]
                                      /\ result'[d] = result[d]
    BY <1>0, <1>3 DEF Callers, R!Commit
<1>5. IsResult(result'[c])
  <2>1. PICK q, r : q = result[c] /\ r = [q EXCEPT !.status = "ok"]
      OBVIOUS
  <2>2. result'[c] = r \/ result'[c] = R!Failed
      BY <1>0, <2>1 DEF Callers, R!Commit
  <2>3. IsResult(q)
      BY <1>0, <2>1 DEF Tallied
  <2>4. IsResult(r)
      BY <2>1, <2>3, ResultFields
  <2> QED BY <2>2, <2>4, NoResults
<1>6. Tallied(c)' /\ Inserted(c)' /\ ~Fresh(c)'
    BY <1>4, <1>5, NothingGrown DEF Tallied, Inserted, Fresh, Opening, Undecided
<1>7. ASSUME NEW d \in D!Consumers \ {c}
      PROVE  Tallied(d)' /\ Fresh(d)' = Fresh(d) /\ Inserted(d)'
  <2>1. Tallied(d)' /\ Fresh(d)' = Fresh(d)
      BY <1>3, <1>4, OthersKeepTally
  <2>2. Inserted(d)
      BY DEF TallyInv
  <2>3. Fresh(d) => ev[d].id # ev[c].id
    <3>1. CASE Fresh(c)
        BY <3>1 DEF TallyInv, Distinct
    <3>2. CASE ~Fresh(c)
        BY <1>0, <2>2, <3>2 DEF Inserted, Fresh, Opening
    <3> QED BY <3>1, <3>2
  <2>4. pc'[d] \notin Opening => (Fresh(d) <=> ev'[d].id \notin Durable')
      BY <1>1, <1>3, <1>4, <2>2, <2>3 DEF Inserted
  <2> QED BY <2>1, <2>4 DEF Inserted
<1>8. Distinct'
    BY <1>3, <1>6, <1>7 DEF TallyInv, Distinct
<1> QED BY <1>2, <1>6, <1>7, <1>8 DEF TallyInv

\* Every step of the service.
LEMMA NextTallies == ServiceInv /\ TallyInv /\ [Next]_vars => TallyInv'
<1> SUFFICES ASSUME ServiceInv, TallyInv, [Next]_vars PROVE TallyInv'
    OBVIOUS
<1>0. PipelineInv
    BY DEF ServiceInv
<1>1. CASE Publish \/ (\E i \in pel : Age(i)) \/ Start \/ StartFails \/ Cancel \/ Exit
  <2>1. UNCHANGED database
      BY <1>1 DEF Publish, Age, Start, StartFails, Cancel, Exit, Idle
  <2> QED BY <2>1, DatabaseIdleTally
<1>2. CASE Crash
    BY <1>2, CrashTallies
<1>3. ASSUME NEW c \in D!Consumers, ConsumerStep(c) PROVE TallyInv'
  <2>1. CASE Fetch(c)
      BY <2>1, DatabaseIdleTally DEF Fetch, Idle
  <2>2. CASE Begin(c)
      BY <1>0, <2>2, BeginTallies
  <2>3. CASE Statement(c)
      BY <1>0, <2>3, InsertTallies, RouteTallies, ReadTallies, ReplayTallies
         DEF Statement, R!TxBody
  <2>4. CASE Commit(c)
      BY <1>0, <2>4, CommitTallies DEF Commit
  <2>5. CASE Fail(c) \/ Record(c)
      BY <1>0, <2>5, EndTallies
  <2>6. CASE Acknowledge(c)
      BY <2>6, DatabaseIdleTally DEF Acknowledge, Idle
  <2> QED BY <1>3, <2>1, <2>2, <2>3, <2>4, <2>5, <2>6 DEF ConsumerStep
<1>4. CASE UNCHANGED vars
    BY <1>4, DatabaseIdleTally DEF vars
<1> QED BY <1>1, <1>2, <1>3, <1>4 DEF Next

-----------------------------------------------------------------------------
(* The counters against the tables                                         *)

\* c has a result to record.
Counting(c) == phase[c] = "ack" /\ ~Recorded(c)

\* C are the history rows already counted, P[c] those that c has committed and is
\* about to count; without a fault there are no others.
Counted(C, P) ==
    /\ C \subseteq AllRows
    /\ Cardinality(C) = metrics.applied + metrics.pendingReplayed
    /\ \A c \in D!Consumers :
          /\ P[c] \subseteq AllRows /\ P[c] \cap C = {}
          /\ IF Counting(c) THEN Cardinality(P[c]) = Weight(result[c]) ELSE P[c] = {}
          /\ \A d \in D!Consumers : c # d => P[c] \cap P[d] = {}
    /\ faults = 0 => \A x \in AllRows : x \in C \/ \E c \in D!Consumers : x \in P[c]

\* c has committed a dead letter and is about to count it.
Burying(c) == Counting(c) /\ result[c].class = "INVALID_TRANSITION"

\* X are the dead-lettered events already counted.
DeadCounted(X) ==
    /\ X \subseteq Dead
    /\ Cardinality(X) = metrics.deadLetters
    /\ \A c \in D!Consumers :
          Burying(c) => /\ ev[c].id \in Dead \ X
                        /\ \A d \in D!Consumers : c # d /\ Burying(d) => ev[c].id # ev[d].id

\* Only the first process starts without a fault before it, on empty tables.
FirstRun == /\ run = "down" /\ faults = 0 => AllRows = {}
            /\ run = "draining" => faults # 0

Naturals == metrics.applied \in Nat /\ metrics.pendingReplayed \in Nat
            /\ metrics.deadLetters \in Nat

CountInv == /\ Naturals /\ FirstRun
            /\ \E C, P : Counted(C, P)
            /\ \E X : DeadCounted(X)

\* Nobody's COMMIT and nobody's record.
Quiet == /\ UNCHANGED AllRows /\ UNCHANGED Dead
         /\ \A c \in D!Consumers :
               /\ Counting(c)' <=> Counting(c)
               /\ Counting(c) => result'[c] = result[c] /\ ev'[c] = ev[c]

\* Such a step leaves the count right.
LEMMA QuietCounts ==
    ASSUME CountInv, Quiet, FirstRun', UNCHANGED metrics, faults \in Nat,
           faults' \in {faults, faults + 1}
    PROVE  CountInv'
<1>1. PICK C, P : Counted(C, P)
    BY DEF CountInv
<1>2. PICK X : DeadCounted(X)
    BY DEF CountInv
<1>3. faults' = 0 => faults = 0
    OBVIOUS
<1>4. Counted(C, P)'
  <2>1. C \subseteq AllRows' /\ Cardinality(C) = (metrics.applied + metrics.pendingReplayed)'
      BY <1>1 DEF Counted, Quiet
  <2>2. ASSUME NEW c \in D!Consumers
        PROVE  /\ P[c] \subseteq AllRows' /\ P[c] \cap C = {}
               /\ IF Counting(c)' THEN Cardinality(P[c]) = Weight(result'[c])
                  ELSE P[c] = {}
               /\ \A d \in D!Consumers : c # d => P[c] \cap P[d] = {}
      BY <1>1, <2>2 DEF Counted, Quiet
  <2>3. faults' = 0 => \A x \in AllRows' : x \in C \/ \E c \in D!Consumers : x \in P[c]
      BY <1>1, <1>3 DEF Counted, Quiet
  <2> QED BY <2>1, <2>2, <2>3 DEF Counted
<1>5. DeadCounted(X)'
  <2>1. X \subseteq Dead' /\ Cardinality(X) = metrics'.deadLetters
      BY <1>2 DEF DeadCounted, Quiet
  <2>2. \A c \in D!Consumers : Burying(c)' => Burying(c) /\ ev'[c] = ev[c]
      BY DEF Quiet, Burying
  <2>3. ASSUME NEW c \in D!Consumers, Burying(c)'
        PROVE  /\ ev'[c].id \in Dead' \ X
               /\ \A d \in D!Consumers : c # d /\ Burying(d)' => ev'[c].id # ev'[d].id
      BY <1>2, <2>2, <2>3 DEF DeadCounted, Quiet
  <2> QED BY <2>1, <2>3 DEF DeadCounted
<1>6. Naturals'
    BY DEF CountInv, Naturals
<1> QED BY <1>4, <1>5, <1>6 DEF CountInv

\* How the process comes up and goes down.
LEMMA ProcessRuns ==
    ASSUME [D!Next]_(D!vars)
    PROVE  \/ UNCHANGED run \/ run' = "up" \/ faults' = faults + 1
           \/ run = "draining" /\ run' = "down" /\ UNCHANGED faults
<1>1. ASSUME NEW c, D!HandleStep(c) \/ D!Stop(c) \/ D!WorkerStep(c) PROVE UNCHANGED run
    BY <1>1 DEF D!HandleStep, D!Stop, D!WorkerStep, D!Process, D!ProcessSucceeds,
                D!ProcessFails, D!ProcessReturnsError, D!Ack, D!AckFails, D!CallReadGroup,
                D!ReadGroup, D!ReadGroupLost, D!ReadGroupFails, D!SkipAck
<1>2. CASE D!ReclaimerStep
    BY <1>2 DEF D!ReclaimerStep, D!Tick, D!ClaimPending, D!ClaimPendingLost,
                D!ClaimPendingFails
<1>3. ASSUME NEW m, D!Publish(m) \/ D!PublishForeign(m) \/ D!Age(m) PROVE UNCHANGED run
    BY <1>3 DEF D!Publish, D!PublishForeign, D!XAdd, D!Age
<1>4. CASE D!Start \/ D!StartFails \/ D!Cancel \/ D!Exit \/ D!Crash
    BY <1>4 DEF D!Start, D!StartFails, D!Cancel, D!Exit, D!Crash, D!Fault
<1>5. CASE UNCHANGED D!vars
    BY <1>5 DEF D!vars
<1> QED BY <1>1, <1>2, <1>3, <1>4, <1>5 DEF D!Next

\* Nothing happens before the first start, and every later one is after a fault.
LEMMA FirstRunStays ==
    ASSUME FirstRun, [D!Next]_(D!vars), faults \in Nat, faults' \in {faults, faults + 1},
           UNCHANGED AllRows \/ (UNCHANGED run /\ run # "down")
    PROVE  FirstRun'
<1>1. faults' = 0 => faults = 0
    OBVIOUS
<1>2. CASE UNCHANGED run
    BY <1>1, <1>2 DEF FirstRun
<1>3. CASE run' = "up"
    BY <1>3 DEF FirstRun
<1>4. CASE faults' = faults + 1
    BY <1>4 DEF FirstRun
<1>5. CASE run = "draining" /\ run' = "down" /\ UNCHANGED faults
    BY <1>5 DEF FirstRun
<1> QED BY <1>2, <1>3, <1>4, <1>5, ProcessRuns

\* Nobody handles a message, or nobody leaves one.
LEMMA FetchIsQuiet ==
    ASSUME Served, NEW c \in D!Consumers, Fetch(c)
    PROVE  Quiet
<1>1. UNCHANGED <<history, deadLetters, result, ev>>
    BY DEF Fetch, Idle, database, tables
<1>2. UNCHANGED AllRows /\ UNCHANGED Dead
    BY <1>1 DEF AllRows, Dead
<1>3. phase \in [D!Consumers -> Phases] /\ Reclaimer \in D!Consumers
    BY DEF Served, D!Consumers
<1>4. \E d \in D!Consumers, next \in Phases \ {"ack"} :
         phase[d] # "ack" /\ phase' = [phase EXCEPT ![d] = next]
  <2>1. CASE D!CallReadGroup(c) \/ D!ReadGroup(c) \/ D!ReadGroupLost(c) \/ D!ReadGroupFails(c)
             \/ D!Stop(c)
      BY <2>1 DEF D!CallReadGroup, D!ReadGroup, D!ReadGroupLost, D!ReadGroupFails, D!Stop,
                  D!Goto, Phases
  <2>2. CASE D!ReclaimerStep
      BY <1>3, <2>2 DEF D!ReclaimerStep, D!Tick, D!ClaimPending, D!ClaimPendingLost,
                  D!ClaimPendingFails, D!DropClaimed, D!Goto, Phases
  <2> QED BY <2>1, <2>2 DEF Fetch
<1>5. \A d \in D!Consumers : phase'[d] = "ack" <=> phase[d] = "ack"
    BY <1>3, <1>4
<1> QED BY <1>1, <1>2, <1>5 DEF Quiet, Counting, Recorded

\* The steps of the process and of Redis that leave every goroutine where it is.
LEMMA BackgroundIsQuiet ==
    ASSUME Publish \/ (\E i \in pel : Age(i)) \/ StartFails \/ Cancel \/ Exit \/ UNCHANGED vars
    PROVE  Quiet
<1>1. UNCHANGED <<history, deadLetters, result, ev>>
    BY DEF Publish, Age, StartFails, Cancel, Exit, Idle, vars, database, tables
<1>2. UNCHANGED AllRows /\ UNCHANGED Dead
    BY <1>1 DEF AllRows, Dead
<1>3. UNCHANGED phase
    BY DEF Publish, Age, StartFails, Cancel, Exit, vars, delivery, D!Publish, D!XAdd, D!Age,
           D!StartFails, D!Cancel, D!Exit, D!consumers
<1> QED BY <1>1, <1>2, <1>3 DEF Quiet, Counting, Recorded

\* A statement of c's transaction changes no table and nobody else's result.
LEMMA StatementConfined ==
    ASSUME Callers, NEW c \in D!Consumers, Statement(c)
    PROVE  /\ pc[c] # "idle" /\ UNCHANGED <<history, deadLetters, ev>>
           /\ \A d \in D!Consumers \ {c} : result'[d] = result[d]
<1>1. CASE R!AcquireLock(c)
    BY <1>1 DEF R!AcquireLock, R!tables
<1>2. CASE R!insertProcessedEvent(c)
    BY <1>2 DEF R!insertProcessedEvent, R!tables, Callers
<1>3. CASE R!loadCurrentStatus(c) \/ R!ReplayDone(c)
    BY <1>3 DEF R!loadCurrentStatus, R!ReplayDone, R!tables
<1>4. ASSUME NEW class, NEW w, NEW next, R!Route(c, class, w, next)
      PROVE  /\ pc[c] # "idle" /\ UNCHANGED <<history, deadLetters, ev>>
             /\ \A d \in D!Consumers \ {c} : result'[d] = result[d]
    BY <1>4 DEF R!Route, R!tables, Callers
<1>5. CASE R!Apply(c) \/ R!SkipDuplicateStatus(c) \/ R!Defer(c) \/ R!Reject(c)
    BY <1>4, <1>5 DEF R!Apply, R!SkipDuplicateStatus, R!Defer, R!Reject
<1>6. CASE R!ReplayApply(c)
    BY <1>6 DEF R!ReplayApply, R!ReplayRow, R!tables, Callers
<1>7. CASE R!ReplaySkip(c) \/ R!ReplayReject(c)
    BY <1>7 DEF R!ReplaySkip, R!ReplayReject, R!ReplayRow, R!tables
<1> QED BY <1>1, <1>2, <1>3, <1>5, <1>6, <1>7 DEF Statement, R!TxBody

\* Begin, the statements but COMMIT, and a failure concern only whoever is in "work".
LEMMA TransactionIsQuiet ==
    ASSUME PipelineInv, NEW c \in D!Consumers, Begin(c) \/ Statement(c) \/ Fail(c)
    PROVE  Quiet
<1>1. Callers /\ Served /\ Handling(c)
    BY DEF PipelineInv
<1>2. /\ UNCHANGED <<history, deadLetters>> /\ phase[c] = "work"
      /\ \A d \in D!Consumers \ {c} : result'[d] = result[d] /\ ev'[d] = ev[d]
  <2>1. CASE Begin(c)
      BY <1>1, <2>1 DEF Begin, R!BeginTx, R!tables, Callers
  <2>2. CASE Statement(c)
      BY <1>1, <2>2, StatementConfined DEF Handling
  <2>3. CASE Fail(c)
    <3>1. /\ UNCHANGED <<history, deadLetters>> /\ phase[c] = "work"
          /\ result' = [result EXCEPT ![c] = R!Failed]
          /\ UNCHANGED ev \/ ev' = [ev EXCEPT ![c] = R!NoRow]
        BY <2>3 DEF Fail, R!RefuseEvent, R!BeginFails, R!ReturnEarly, R!Rollback, R!EndTx, R!tables
    <3> QED BY <1>1, <3>1 DEF Callers
  <2> QED BY <2>1, <2>2, <2>3
<1>3. UNCHANGED AllRows /\ UNCHANGED Dead
    BY <1>2 DEF AllRows, Dead
<1>4. \A d \in D!Consumers : phase'[d] = "ack" <=> phase[d] = "ack"
  <2>1. CASE Begin(c) \/ Statement(c)
      BY <2>1 DEF Begin, Statement, delivery
  <2>2. CASE Fail(c)
    <3>1. result' = [result EXCEPT ![c] = R!Failed]
        BY <2>2 DEF Fail, R!RefuseEvent, R!BeginFails, R!ReturnEarly, R!Rollback
    <3>2. result'[c].status = "error"
        BY <1>1, <3>1 DEF Callers, R!Failed
    <3>3. D!NextMessage(c)
        BY <2>2, <3>2 DEF Fail, ProcessReturns, D!ProcessReturnsError
    <3> QED BY <1>2, <1>1, <3>3 DEF Served, D!NextMessage, D!Goto
  <2> QED BY <2>1, <2>2
<1>5. \A d \in D!Consumers : Counting(d)' <=> Counting(d)
    BY <1>2, <1>4 DEF Counting, Recorded
<1>6. ~Counting(c)
    BY <1>2 DEF Counting
<1> QED BY <1>2, <1>3, <1>5, <1>6 DEF Quiet

\* By the time of the XACK c's result is recorded.
LEMMA AcknowledgeIsQuiet ==
    ASSUME PipelineInv, NEW c \in D!Consumers, Acknowledge(c)
    PROVE  Quiet
<1>1. /\ Recorded(c) /\ D!NextMessage(c) /\ phase[c] = "ack" /\ Served
      /\ UNCHANGED <<history, deadLetters, result, ev>>
    BY DEF Acknowledge, Idle, database, tables, D!Ack, D!AckFails, D!SkipAck, PipelineInv
<1>2. UNCHANGED AllRows /\ UNCHANGED Dead
    BY <1>1 DEF AllRows, Dead
<1>3. phase'[c] # "ack" /\ \A d \in D!Consumers \ {c} : phase'[d] = phase[d]
    BY <1>1 DEF Served, D!NextMessage, D!Goto
<1>4. \A d \in D!Consumers : Counting(d)' <=> Counting(d)
    BY <1>1, <1>3 DEF Counting, Recorded
<1> QED BY <1>1, <1>2, <1>4 DEF Quiet

\* A new process counts from zero; on a first run there is nothing to count yet.
LEMMA StartCounts ==
    ASSUME Served, CountInv, Start, FirstRun'
    PROVE  CountInv'
<1>1. /\ run = "down" /\ UNCHANGED faults /\ metrics' = NoMetrics
      /\ UNCHANGED <<history, deadLetters>>
      /\ phase' = [c \in D!Consumers |-> "poll"]
    BY DEF Start, D!Start, Idle, database, tables
<1>2. UNCHANGED AllRows
    BY <1>1 DEF AllRows
<1>3. metrics'.applied = 0 /\ metrics'.pendingReplayed = 0 /\ metrics'.deadLetters = 0
    BY <1>1 DEF NoMetrics
<1>4. Cardinality({}) = 0
    BY FS_EmptySet
<1>5. PICK P : P = [c \in D!Consumers |-> {}]
    OBVIOUS
<1>6. \A c \in D!Consumers : phase'[c] = "poll" /\ P[c] = {}
    BY <1>1, <1>5
<1>7. faults' = 0 => AllRows' = {}
    BY <1>1, <1>2 DEF CountInv, FirstRun
<1>8. Counted({}, P)'
  <2>1. Cardinality({}) = metrics'.applied + metrics'.pendingReplayed
      BY <1>3, <1>4
  <2> QED BY <1>6, <1>7, <2>1 DEF Counted, Counting
<1>9. DeadCounted({})'
  <2>1. Cardinality({}) = metrics'.deadLetters
      BY <1>3, <1>4
  <2> QED BY <1>6, <2>1 DEF DeadCounted, Burying, Counting
<1>10. Naturals'
    BY <1>3 DEF Naturals
<1> QED BY <1>8, <1>9, <1>10 DEF CountInv

\* What was committed and not counted when the process dies is never counted.
LEMMA CrashCounts ==
    ASSUME CountInv, Crash, faults \in Nat, FirstRun'
    PROVE  CountInv'
<1>1. PICK C, P : Counted(C, P)
    BY DEF CountInv
<1>2. PICK X : DeadCounted(X)
    BY DEF CountInv
<1>3. /\ faults' # 0 /\ UNCHANGED <<metrics, history, deadLetters>>
      /\ phase' = [c \in D!Consumers |-> "stopped"]
    BY DEF Crash, D!Crash, D!Fault, tables
<1>4. UNCHANGED AllRows /\ UNCHANGED Dead
    BY <1>3 DEF AllRows, Dead
<1>5. PICK Q : Q = [c \in D!Consumers |-> {}]
    OBVIOUS
<1>6. \A c \in D!Consumers : phase'[c] = "stopped" /\ Q[c] = {}
    BY <1>3, <1>5
<1>7. Counted(C, Q)'
  <2>1. C \subseteq AllRows' /\ Cardinality(C) = metrics'.applied + metrics'.pendingReplayed
      BY <1>1, <1>3, <1>4 DEF Counted
  <2> QED BY <1>3, <1>6, <2>1 DEF Counted, Counting
<1>8. DeadCounted(X)'
    BY <1>2, <1>3, <1>4, <1>6 DEF DeadCounted, Burying, Counting
<1>9. Naturals'
    BY <1>3 DEF Naturals, CountInv
<1> QED BY <1>7, <1>8, <1>9 DEF CountInv

\* COMMIT whose answer arrives: c is about to count the rows it has added.
LEMMA CommitCountsRows ==
    ASSUME PipelineInv, TallyInv, NEW c \in D!Consumers, R!Commit(c), NEW C, NEW P,
           Counted(C, P), UNCHANGED <<metrics, faults>>, ~Counting(c), Counting(c)',
           Weight(result'[c]) = Weight(result[c]),
           \A d \in D!Consumers \ {c} : (Counting(d)' <=> Counting(d)) /\ result'[d] = result[d]
    PROVE  \E Q : Counted(C, Q)'
<1>1. /\ AllRows' = AllRows \cup NewRows(c) /\ NewRows(c) \cap AllRows = {}
      /\ Cardinality(NewRows(c)) = Weight(result[c])
    BY CommitAddsRows
<1>2. PICK N : N = NewRows(c)
    OBVIOUS
<1>3. PICK Q : Q = [d \in D!Consumers |-> IF d = c THEN N ELSE P[d]]
    OBVIOUS
<1>4. Q[c] = N /\ \A d \in D!Consumers \ {c} : Q[d] = P[d]
    BY <1>3
<1>5. /\ AllRows' = AllRows \cup N /\ N \cap AllRows = {}
      /\ Cardinality(N) = Weight(result'[c])
    BY <1>1, <1>2
<1>6. P[c] = {}
    BY DEF Counted
<1>7. C \subseteq AllRows' /\ Cardinality(C) = metrics'.applied + metrics'.pendingReplayed
    BY <1>5 DEF Counted
<1>8. ASSUME NEW d \in D!Consumers \ {c}
      PROVE  /\ Q[d] \subseteq AllRows' /\ Q[d] \cap C = {} /\ Q[d] \cap N = {}
             /\ IF Counting(d)' THEN Cardinality(Q[d]) = Weight(result'[d])
                ELSE Q[d] = {}
             /\ \A e \in D!Consumers \ {c} : d # e => Q[d] \cap Q[e] = {}
    BY <1>4, <1>5, <1>8 DEF Counted
<1>9. Q[c] \subseteq AllRows' /\ Q[c] \cap C = {} /\ Cardinality(Q[c]) = Weight(result'[c])
    BY <1>4, <1>5 DEF Counted
<1>10. \A d \in D!Consumers :
          /\ Q[d] \subseteq AllRows' /\ Q[d] \cap C = {}
          /\ IF Counting(d)' THEN Cardinality(Q[d]) = Weight(result'[d]) ELSE Q[d] = {}
          /\ \A e \in D!Consumers : d # e => Q[d] \cap Q[e] = {}
    BY <1>4, <1>8, <1>9
<1>11. faults' = 0 => \A x \in AllRows' : x \in C \/ \E d \in D!Consumers : x \in Q[d]
    BY <1>4, <1>5, <1>6 DEF Counted
<1>12. Counted(C, Q)'
    BY <1>7, <1>10, <1>11 DEF Counted
<1> QED BY <1>12

\* A dead letter it has added is nobody else's.
LEMMA CommitCountsDead ==
    ASSUME PipelineInv, TallyInv, NEW c \in D!Consumers, R!Commit(c), NEW X, DeadCounted(X),
           UNCHANGED metrics, result'[c].class = result[c].class,
           \A d \in D!Consumers \ {c} : (Counting(d)' <=> Counting(d)) /\ result'[d] = result[d]
    PROVE  DeadCounted(X)'
<1>0. /\ pc[c] = "commit" /\ Tallied(c) /\ Inserted(c) /\ Dead \subseteq Durable
      /\ UNCHANGED ev
    BY DEF R!Commit, R!EndTx, TallyInv, Settled
<1>1. Dead' = Dead \cup Buried(ws[c])
    BY CommitBuries
<1>2. ASSUME Burying(c)' PROVE ev[c].id \in Dead' /\ ev[c].id \notin Dead
  <2>1. result[c].class = "INVALID_TRANSITION"
      BY <1>2 DEF Burying
  <2>2. ev[c].id \in Buried(ws[c])
      BY <1>0, <2>1 DEF Tallied
  <2>3. Fresh(c)
      BY <1>0, <2>1 DEF Fresh, Opening
  <2>4. ev[c].id \notin Durable
      BY <1>0, <2>3 DEF Inserted, Opening
  <2> QED BY <1>0, <1>1, <2>2, <2>4
<1>3. \A d \in D!Consumers \ {c} : Burying(d)' <=> Burying(d)
    BY DEF Burying
<1>4. X \subseteq Dead /\ X \subseteq Dead' /\ Cardinality(X) = metrics'.deadLetters
    BY <1>1 DEF DeadCounted
<1>5. \A d \in D!Consumers : Burying(d)' => /\ ev[d].id \in Dead' \ X
                                            /\ d # c => ev[d].id \in Dead
    BY <1>1, <1>2, <1>3, <1>4 DEF DeadCounted
<1>6. ASSUME NEW a \in D!Consumers, NEW b \in D!Consumers, a # b, Burying(a)', Burying(b)'
      PROVE  ev[a].id # ev[b].id
  <2>1. CASE a = c
      BY <1>2, <1>5, <1>6, <2>1
  <2>2. CASE b = c
      BY <1>2, <1>5, <1>6, <2>2
  <2>3. CASE a # c /\ b # c
      BY <1>3, <1>6, <2>3 DEF DeadCounted
  <2> QED BY <2>1, <2>2, <2>3
<1> QED BY <1>0, <1>4, <1>5, <1>6 DEF DeadCounted

\* COMMIT, answered or not
LEMMA CommitCounts ==
    ASSUME PipelineInv, TallyInv, CountInv, NEW c \in D!Consumers, Commit(c),
           faults \in Nat, FirstRun'
    PROVE  CountInv'
<1>0. /\ R!Commit(c) /\ pc[c] = "commit" /\ Callers /\ Served /\ Handling(c) /\ Tallied(c)
      /\ ProcessReturns(c) /\ UNCHANGED metrics
    BY DEF Commit, R!Commit, ProcessReturns, PipelineInv, TallyInv
<1>1. phase[c] = "work" /\ D!Message(c).form = "valid"
    BY <1>0, InTransaction
<1>2. PICK C, P : Counted(C, P)
    BY DEF CountInv
<1>3. PICK X : DeadCounted(X)
    BY DEF CountInv
<1>4. Naturals'
    BY <1>0 DEF CountInv, Naturals
<1>5. UNCHANGED ev /\ \A d \in D!Consumers \ {c} : result'[d] = result[d]
    BY <1>0 DEF Callers, R!Commit, R!EndTx
<1>6. \A d \in D!Consumers \ {c} : phase'[d] = phase[d]
    BY <1>0 DEF Served, ProcessReturns, D!ProcessSucceeds, D!ProcessReturnsError, D!NextMessage,
                D!Goto
<1>9. ~Counting(c) /\ \A d \in D!Consumers \ {c} : Counting(d)' <=> Counting(d)
    BY <1>1, <1>5, <1>6 DEF Counting, Recorded
<1>7. CASE result'[c].status = "error"
  <2>1. /\ faults' = faults + 1 /\ phase'[c] \in {"poll", "work"}
      BY <1>0, <1>1, <1>7 DEF ProcessReturns, D!ProcessReturnsError, D!Fault, D!NextMessage,
                              D!Goto, Served
  <2>2. AllRows \subseteq AllRows' /\ Dead \subseteq Dead'
    <3>1. AllRows' = AllRows \cup NewRows(c)
        BY <1>0, CommitAddsRows
    <3>2. Dead' = Dead \cup Buried(ws[c])
        BY <1>0, CommitBuries
    <3> QED BY <3>1, <3>2
  <2>3. Counted(C, P)'
    <3>1. C \subseteq AllRows' /\ Cardinality(C) = metrics'.applied + metrics'.pendingReplayed
        BY <1>0, <1>2, <2>2 DEF Counted
    <3>2. ASSUME NEW d \in D!Consumers
          PROVE  /\ P[d] \subseteq AllRows' /\ P[d] \cap C = {}
                 /\ IF Counting(d)' THEN Cardinality(P[d]) = Weight(result'[d])
                    ELSE P[d] = {}
                 /\ \A e \in D!Consumers : d # e => P[d] \cap P[e] = {}
      <4>1. ~Counting(c)'
          BY <2>1 DEF Counting
      <4> QED BY <1>2, <1>5, <1>9, <2>2, <4>1 DEF Counted
    <3>3. faults' # 0
        BY <2>1
    <3> QED BY <3>1, <3>2, <3>3 DEF Counted
  <2>4. DeadCounted(X)'
    <3>1. \A d \in D!Consumers : Burying(d)' => Burying(d)
        BY <1>5, <1>9, <2>1 DEF Burying, Counting
    <3> QED BY <1>0, <1>3, <1>5, <2>2, <3>1 DEF DeadCounted
  <2> QED BY <1>4, <2>3, <2>4 DEF CountInv
<1>8. CASE result'[c].status = "ok"
  <2>1. UNCHANGED faults /\ phase'[c] = "ack"
      BY <1>0, <1>1, <1>8 DEF ProcessReturns, D!ProcessSucceeds, D!Goto, Served
  <2>2. Weight(result'[c]) = Weight(result[c]) /\ result'[c].class = result[c].class
    <3>1. PICK q, r : q = result[c] /\ r = [q EXCEPT !.status = "ok"]
        OBVIOUS
    <3>2. result'[c] = r \/ result'[c] = R!Failed
        BY <1>0, <3>1 DEF Callers, R!Commit
    <3>3. result'[c] = r
        BY <1>8, <3>2, NoResults
    <3>4. IsResult(q)
        BY <1>0, <3>1 DEF Tallied
    <3>5. r.class = q.class /\ r.replayed = q.replayed
        BY <3>1, <3>4, ResultFields
    <3> QED BY <3>1, <3>3, <3>5 DEF Weight, One
  <2>5. Counting(c)'
      BY <1>8, <2>1, NoResults DEF Counting, Recorded
  <2>3. \E Q : Counted(C, Q)'
      BY <1>0, <1>2, <1>5, <1>9, <2>1, <2>2, <2>5, CommitCountsRows
  <2>4. DeadCounted(X)'
      BY <1>0, <1>3, <1>5, <1>9, <2>2, CommitCountsDead
  <2> QED BY <1>4, <2>3, <2>4 DEF CountInv
<1> QED BY <1>0, <1>7, <1>8 DEF ProcessReturns

\* c counts the rows it has committed.
LEMMA RecordCountsRows ==
    ASSUME TallyInv, Naturals, NEW c \in D!Consumers, NEW C, NEW P, Counted(C, P),
           Counting(c), ~Counting(c)', UNCHANGED AllRows,
           metrics'.pendingReplayed = metrics.pendingReplayed + result[c].replayed,
           metrics'.applied = metrics.applied + One(result[c], "APPLIED"),
           faults' = 0 => faults = 0,
           \A d \in D!Consumers \ {c} : (Counting(d)' <=> Counting(d)) /\ result'[d] = result[d]
    PROVE  \E B, Q : Counted(B, Q)'
<1>1. PICK N : N = P[c]
    OBVIOUS
<1>2. /\ C \subseteq AllRows /\ N \subseteq AllRows /\ N \cap C = {}
      /\ Cardinality(C) = metrics.applied + metrics.pendingReplayed
      /\ Cardinality(N) = Weight(result[c])
    BY <1>1 DEF Counted
<1>3. IsFiniteSet(AllRows)
    BY DEF TallyInv, Settled
<1>4. IsFiniteSet(C) /\ IsFiniteSet(N)
    BY <1>2, <1>3, FS_Subset
<1>5. Cardinality(C \cup N) = Cardinality(C) + Cardinality(N)
  <2>1. Cardinality(C \cup N) = Cardinality(C) + Cardinality(N) - Cardinality(C \cap N)
      BY <1>4, FS_Union
  <2>2. C \cap N = {}
      BY <1>2
  <2>3. Cardinality(C \cap N) = 0
      BY <2>2, FS_EmptySet
  <2>4. Cardinality(C) \in Nat /\ Cardinality(N) \in Nat
      BY <1>4, FS_CardinalityType
  <2> QED BY <2>1, <2>3, <2>4
<1>6. Cardinality(C \cup N) = metrics'.applied + metrics'.pendingReplayed
  <2>1. PICK a, b, x, y : /\ a = metrics.applied /\ b = metrics.pendingReplayed
                          /\ x = One(result[c], "APPLIED") /\ y = result[c].replayed
      OBVIOUS
  <2>2. a \in Nat /\ b \in Nat /\ x \in Nat
      BY <2>1 DEF Naturals, One
  <2>3. y \in Nat
      BY <2>1 DEF TallyInv, Tallied, IsResult
  <2>4. Cardinality(C \cup N) = (a + b) + (y + x)
      BY <1>2, <1>5, <2>1 DEF Weight
  <2> QED BY <2>1, <2>2, <2>3, <2>4
<1>7. PICK B, Q : B = C \cup N /\ Q = [d \in D!Consumers |-> IF d = c THEN {} ELSE P[d]]
    OBVIOUS
<1>8. Q[c] = {} /\ \A d \in D!Consumers \ {c} : Q[d] = P[d]
    BY <1>7
<1>9. ASSUME NEW d \in D!Consumers
      PROVE  /\ Q[d] \subseteq AllRows' /\ Q[d] \cap B = {}
             /\ IF Counting(d)' THEN Cardinality(Q[d]) = Weight(result'[d])
                ELSE Q[d] = {}
             /\ \A e \in D!Consumers : d # e => Q[d] \cap Q[e] = {}
  <2>1. CASE d = c
      BY <1>8, <2>1
  <2>2. CASE d # c
    <3>1. /\ P[d] \subseteq AllRows /\ P[d] \cap C = {} /\ P[d] \cap P[c] = {}
          /\ IF Counting(d) THEN Cardinality(P[d]) = Weight(result[d]) ELSE P[d] = {}
          /\ \A e \in D!Consumers : d # e => P[d] \cap P[e] = {}
        BY <1>9, <2>2 DEF Counted
    <3> QED BY <1>1, <1>7, <1>8, <1>9, <2>2, <3>1
  <2> QED BY <2>1, <2>2
<1>10. faults' = 0 => \A x \in AllRows' : x \in B \/ \E d \in D!Consumers : x \in Q[d]
    BY <1>1, <1>7, <1>8 DEF Counted
<1>11. B \subseteq AllRows' /\ Cardinality(B) = metrics'.applied + metrics'.pendingReplayed
    BY <1>2, <1>6, <1>7
<1>12. Counted(B, Q)'
    BY <1>9, <1>10, <1>11 DEF Counted
<1> QED BY <1>12

\* c counts the dead letter it has committed.
LEMMA RecordCountsDead ==
    ASSUME TallyInv, Naturals, NEW c \in D!Consumers, NEW X, DeadCounted(X),
           Counting(c), ~Counting(c)', UNCHANGED Dead,
           metrics'.deadLetters = metrics.deadLetters + One(result[c], "INVALID_TRANSITION"),
           \A d \in D!Consumers \ {c} :
              (Counting(d)' <=> Counting(d)) /\ result'[d] = result[d] /\ ev'[d] = ev[d]
    PROVE  \E Y : DeadCounted(Y)'
<1>1. \A d \in D!Consumers : Burying(d)' => d # c /\ Burying(d) /\ ev'[d] = ev[d]
    BY DEF Burying
<1>2. X \subseteq Dead' /\ Cardinality(X) = metrics.deadLetters
    BY DEF DeadCounted
<1>3. CASE ~Burying(c)
  <2>1. One(result[c], "INVALID_TRANSITION") = 0
      BY <1>3 DEF Burying, One
  <2>2. Cardinality(X) = metrics'.deadLetters
      BY <1>2, <2>1 DEF Naturals
  <2>3. DeadCounted(X)'
      BY <1>1, <1>2, <2>2 DEF DeadCounted
  <2> QED BY <2>3
<1>4. CASE Burying(c)
  <2>1. PICK i : i = ev[c].id
      OBVIOUS
  <2>2. /\ i \in Dead' /\ i \notin X
        /\ \A d \in D!Consumers \ {c} : Burying(d) => ev[d].id # i
      BY <1>4, <2>1 DEF DeadCounted
  <2>3. IsFiniteSet(Dead)
    <3>1. Dead \subseteq Durable /\ IsFiniteSet(Durable)
        BY DEF TallyInv, Settled
    <3> QED BY <3>1, FS_Subset
  <2>4. IsFiniteSet(X)
    <3>1. X \subseteq Dead
        BY <1>2
    <3> QED BY <2>3, <3>1, FS_Subset
  <2>5. Cardinality(X \cup {i}) = Cardinality(X) + 1
      BY <2>2, <2>4, FS_AddElement
  <2>6. One(result[c], "INVALID_TRANSITION") = 1
      BY <1>4 DEF Burying, One
  <2>7. PICK Y : Y = X \cup {i}
      OBVIOUS
  <2>8. Y \subseteq Dead' /\ Cardinality(Y) = metrics'.deadLetters
      BY <1>2, <2>2, <2>5, <2>6, <2>7
  <2>9. \A d \in D!Consumers :
           Burying(d)' => /\ ev'[d].id \in Dead' \ Y
                          /\ \A e \in D!Consumers : d # e /\ Burying(e)' => ev'[d].id # ev'[e].id
      BY <1>1, <2>2, <2>7 DEF DeadCounted
  <2>10. DeadCounted(Y)'
      BY <2>8, <2>9 DEF DeadCounted
  <2> QED BY <2>10
<1> QED BY <1>3, <1>4

\* The metrics
LEMMA RecordKeepsCount ==
    ASSUME PipelineInv, TallyInv, CountInv, IsMetrics(metrics), NEW c \in D!Consumers,
           Record(c), FirstRun'
    PROVE  CountInv'
<1>0. Callers /\ Naturals /\ Tallied(c)
    BY DEF PipelineInv, CountInv, TallyInv
<1>1. Counting(c) /\ UNCHANGED <<history, deadLetters, phase, faults>>
    BY DEF Record, tables, delivery, Counting, Recorded
<1>2. UNCHANGED AllRows /\ UNCHANGED Dead
    BY <1>1 DEF AllRows, Dead
<1>3. /\ result'[c] = R!NoResult
      /\ \A d \in D!Consumers \ {c} : result'[d] = result[d] /\ ev'[d] = ev[d]
    BY <1>0 DEF Callers, Record
<1>4. ~Counting(c)' /\ \A d \in D!Consumers \ {c} : Counting(d)' <=> Counting(d)
    BY <1>1, <1>3 DEF Counting, Recorded
<1>5. /\ metrics'.pendingReplayed = metrics.pendingReplayed + result[c].replayed
      /\ metrics'.applied = metrics.applied + One(result[c], "APPLIED")
      /\ metrics'.deadLetters = metrics.deadLetters + One(result[c], "INVALID_TRANSITION")
    BY RecordCounts
<1>6. PICK C, P : Counted(C, P)
    BY DEF CountInv
<1>7. PICK X : DeadCounted(X)
    BY DEF CountInv
<1>8. faults' = 0 => faults = 0
    BY <1>1
<1>9. \E B, Q : Counted(B, Q)'
    BY <1>0, <1>1, <1>2, <1>3, <1>4, <1>5, <1>6, <1>8, RecordCountsRows
<1>10. \E Y : DeadCounted(Y)'
    BY <1>0, <1>1, <1>2, <1>3, <1>4, <1>5, <1>7, RecordCountsDead
<1>11. Naturals'
  <2>1. /\ One(result[c], "APPLIED") \in Nat /\ One(result[c], "INVALID_TRANSITION") \in Nat
        /\ result[c].replayed \in Nat
      BY <1>0 DEF One, Tallied, IsResult
  <2> QED BY <1>0, <1>5, <2>1 DEF Naturals
<1> QED BY <1>9, <1>10, <1>11 DEF CountInv

\* Every step of the service.
LEMMA NextCounts ==
    ServiceInv /\ RecoveryInv /\ TallyInv /\ CountInv /\ [Next]_vars => CountInv'
<1> SUFFICES ASSUME ServiceInv, RecoveryInv, TallyInv, CountInv, [Next]_vars PROVE CountInv'
    OBVIOUS
<1>0. /\ PipelineInv /\ Served /\ IsMetrics(metrics) /\ Reclaiming /\ FirstRun
      /\ [D!Next]_(D!vars)
    BY StepDelivers DEF ServiceInv, PipelineInv, RecoveryInv, CountInv
<1>1. faults \in Nat /\ faults' \in {faults, faults + 1}
    BY <1>0, DeliveryServes DEF Serves, Reclaiming
<1>2. ASSUME UNCHANGED AllRows PROVE FirstRun'
    BY <1>0, <1>1, <1>2, FirstRunStays
<1>3. ASSUME Quiet, UNCHANGED metrics PROVE CountInv'
    BY <1>1, <1>2, <1>3, QuietCounts DEF Quiet
<1>4. CASE Publish \/ (\E i \in pel : Age(i)) \/ StartFails \/ Cancel \/ Exit \/ UNCHANGED vars
  <2>1. UNCHANGED metrics
      BY <1>4 DEF Publish, Age, StartFails, Cancel, Exit, vars
  <2> QED BY <1>3, <1>4, <2>1, BackgroundIsQuiet
<1>5. CASE Start
  <2>1. UNCHANGED AllRows
      BY <1>5 DEF Start, Idle, database, tables, AllRows
  <2> QED BY <1>0, <1>2, <1>5, <2>1, StartCounts
<1>6. CASE Crash
  <2>1. UNCHANGED AllRows
      BY <1>6 DEF Crash, tables, AllRows
  <2> QED BY <1>1, <1>2, <1>6, <2>1, CrashCounts
<1>7. ASSUME NEW c \in D!Consumers, ConsumerStep(c) PROVE CountInv'
  <2>1. CASE Fetch(c)
    <3>1. UNCHANGED metrics
        BY <2>1 DEF Fetch
    <3> QED BY <1>0, <1>3, <2>1, <3>1, FetchIsQuiet
  <2>2. CASE Begin(c) \/ Statement(c) \/ Fail(c)
    <3>1. UNCHANGED metrics
        BY <2>2 DEF Begin, Statement, Fail, ProcessReturns
    <3> QED BY <1>0, <1>3, <2>2, <3>1, TransactionIsQuiet
  <2>3. CASE Commit(c)
    <3>1. UNCHANGED run /\ phase[c] = "work"
        BY <2>3 DEF Commit, ProcessReturns, D!ProcessSucceeds, D!ProcessReturnsError
    <3>2. run # "down"
        BY <1>0, <3>1 DEF Served
    <3>3. FirstRun'
        BY <1>0, <1>1, <3>1, <3>2, FirstRunStays
    <3> QED BY <1>0, <1>1, <2>3, <3>3, CommitCounts
  <2>4. CASE Record(c)
    <3>1. UNCHANGED AllRows
        BY <2>4 DEF Record, tables, AllRows
    <3> QED BY <1>0, <1>2, <2>4, <3>1, RecordKeepsCount
  <2>5. CASE Acknowledge(c)
    <3>1. UNCHANGED metrics
        BY <2>5 DEF Acknowledge
    <3> QED BY <1>0, <1>3, <2>5, <3>1, AcknowledgeIsQuiet
  <2> QED BY <1>7, <2>1, <2>2, <2>3, <2>4, <2>5 DEF ConsumerStep
<1> QED BY <1>4, <1>5, <1>6, <1>7 DEF Next

\* There is nothing to count at the beginning.
LEMMA InitCounts == Init => CountInv
<1> SUFFICES ASSUME Init PROVE CountInv
    OBVIOUS
<1>1. /\ history = [o \in Orders |-> <<>>] /\ metrics = NoMetrics /\ run = "down"
      /\ phase = [c \in D!Consumers |-> "stopped"]
    BY DEF Init, R!Init, D!Init
<1>2. metrics.applied = 0 /\ metrics.pendingReplayed = 0 /\ metrics.deadLetters = 0
    BY <1>1 DEF NoMetrics
<1>3. \A o \in Orders : DOMAIN history[o] = {}
    BY <1>1
<1>4. AllRows = {}
    BY <1>3 DEF AllRows
<1>5. Cardinality({}) = 0
    BY FS_EmptySet
<1>6. PICK P : P = [c \in D!Consumers |-> {}]
    OBVIOUS
<1>7. \A c \in D!Consumers : phase[c] = "stopped" /\ P[c] = {}
    BY <1>1, <1>6
<1>8. Counted({}, P)
  <2>1. Cardinality({}) = metrics.applied + metrics.pendingReplayed
      BY <1>2, <1>5
  <2> QED BY <1>4, <1>7, <2>1 DEF Counted, Counting
<1>9. DeadCounted({})
  <2>1. Cardinality({}) = metrics.deadLetters
      BY <1>2, <1>5
  <2> QED BY <1>7, <2>1 DEF DeadCounted, Burying, Counting
<1>10. Naturals /\ FirstRun
    BY <1>1, <1>2, <1>4 DEF Naturals, FirstRun
<1> QED BY <1>8, <1>9, <1>10 DEF CountInv

\* What the sets of rows and of dead letters say of the counters.
LEMMA CountIsExact == TallyInv /\ CountInv => ChangesCountedOnce
<1> SUFFICES ASSUME TallyInv, CountInv PROVE ChangesCountedOnce
    OBVIOUS
<1>1. PICK C, P : Counted(C, P)
    BY DEF CountInv
<1>2. PICK X : DeadCounted(X)
    BY DEF CountInv
<1>3. HistoryRows = Cardinality(AllRows)
    BY DEF HistoryRows, AllRows
<1>4. IsFiniteSet(AllRows) /\ IsFiniteSet(Durable) /\ Dead \subseteq Durable
    BY DEF TallyInv, Settled
<1>5. Cardinality(C) <= Cardinality(AllRows)
  <2>1. C \subseteq AllRows
      BY <1>1 DEF Counted
  <2> QED BY <1>4, <2>1, FS_Subset
<1>6. Cardinality(C) = metrics.applied + metrics.pendingReplayed
    BY <1>1 DEF Counted
<1>7. ASSUME faults = 0, \A c \in D!Consumers : phase[c] = "ack" => Recorded(c)
      PROVE  AllRows = C
  <2>1. \A c \in D!Consumers : P[c] = {}
      BY <1>1, <1>7 DEF Counted, Counting
  <2> QED BY <1>1, <1>7, <2>1 DEF Counted
<1>8. Cardinality(X) <= Cardinality(Dead)
  <2>1. IsFiniteSet(Dead)
      BY <1>4, FS_Subset
  <2>2. X \subseteq Dead
      BY <1>2 DEF DeadCounted
  <2> QED BY <2>1, <2>2, FS_Subset
<1>9. metrics.deadLetters <= Cardinality({i \in Ids : deadLetters[i] > 0})
    BY <1>2, <1>8 DEF DeadCounted, Dead
<1>10. metrics.applied + metrics.pendingReplayed <= HistoryRows
    BY <1>3, <1>5, <1>6
<1>11. faults = 0 /\ (\A c \in D!Consumers : phase[c] = "ack" => Recorded(c)) =>
           metrics.applied + metrics.pendingReplayed = HistoryRows
    BY <1>3, <1>6, <1>7
<1> QED BY <1>9, <1>10, <1>11 DEF ChangesCountedOnce

\* applied and pending_replayed together never exceed the rows of
\* order_status_history, and add up to them whenever every result is recorded, as
\* long as no call has failed; dead_letters never exceeds dead_letter_events.  This holds for any
\* number of consumers that handle the same entry or the same event at once:
\* only the transaction whose INSERT into processed_events took effect has rows
\* to report, and it reports them once, before the XACK
\* (metrics.go:77-102, pool.go:200-209, reclaimer.go:156-159,
\* order_repository.go:67-213).
THEOREM ChangesCountedOnceHolds == Spec => []ChangesCountedOnce
<1>1. Init => ServiceInv /\ RecoveryInv /\ TallyInv /\ CountInv
    BY InitPipeline, InitRecovers, InitTally, InitCounts DEF Init, ServiceInv
<1> QED BY <1>1, NextPipeline, NextRecovers, NextTallies, NextCounts, CountIsExact, PTL DEF Spec
=============================================================================
