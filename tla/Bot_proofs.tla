----------------------------- MODULE Bot_proofs -----------------------------
(***************************************************************************)
(* Theorems of module Bot, for any number of updates, stops and updates    *)
(* per response.                                                           *)
(***************************************************************************)
EXTENDS Bot, TLAPS

(* The loop stays inside the batch, which starts after what is confirmed,  *)
(* and the offset is past every update of it that was begun.               *)
InBatch == /\ pc = "handle" => next <= last /\ next < offset
           /\ pc = "batch" => next <= offset \/ next <= confirmed + 1
           /\ offset <= arrived + 1

(* A poll confirms no update that was not sent.                            *)
LEMMA ConfirmedInRange ==
    ASSUME arrived \in Nat, confirmed \in 0 .. arrived, offset \in Nat,
           offset <= arrived + 1
    PROVE  Confirmed \in 0 .. arrived
<1>1. CASE offset - 1 > confirmed
  BY <1>1 DEF Confirmed
<1>2. CASE ~(offset - 1 > confirmed)
  BY <1>2 DEF Confirmed
<1> QED
  BY <1>1, <1>2

(* A response holds no update that has not been sent.                      *)
LEMMA EndOfBatchInRange ==
    ASSUME arrived \in Nat, Confirmed \in 0 .. arrived, BatchLimit \in Nat
    PROVE  EndOfBatch \in 0 .. arrived
<1>1. CASE Confirmed + BatchLimit <= arrived
  BY <1>1 DEF EndOfBatch
<1>2. CASE ~(Confirmed + BatchLimit <= arrived)
  BY <1>2 DEF EndOfBatch
<1> QED
  BY <1>1, <1>2

(* Every variable of Bot keeps its type, and the loop stays inside its     *)
(* batch.                                                                  *)
THEOREM TypeCorrect == Spec => [](TypeOK /\ InBatch)
<1> USE BotAssumption DEF Updates
<1>1. Init => TypeOK /\ InBatch
  BY DEF Init, TypeOK, InBatch
<1>2. TypeOK /\ InBatch /\ [Next]_vars => (TypeOK /\ InBatch)'
  <2> SUFFICES ASSUME TypeOK, InBatch, [Next]_vars PROVE (TypeOK /\ InBatch)'
    OBVIOUS
  <2> USE DEF TypeOK, InBatch, telegram, history
  <2>1. CASE Arrive
    BY <2>1 DEF Arrive
  <2>2. CASE Cancel
    BY <2>2 DEF Cancel
  <2>3. CASE Die
    BY <2>3 DEF Die, Stop
  <2>4. CASE Restart
    <3>1. begun' \subseteq Updates /\ served' \subseteq Updates
      BY <2>4 DEF Restart
    <3>2. next' \in 1 .. MaxUpdate + 1 /\ last' \in 0 .. arrived'
      BY <2>4 DEF Restart
    <3> QED
      BY <2>4, <3>1, <3>2 DEF Restart
  <2>5. CASE Top
    <3>1. CASE Stop
      BY <2>5, <3>1 DEF Stop
    <3>2. CASE ~Stop
      BY <2>5, <3>2 DEF Top
    <3> QED
      BY <3>1, <3>2
  <2>6. CASE PollOK
    <3>1. Confirmed \in 0 .. arrived
      BY ConfirmedInRange
    <3>2. EndOfBatch \in 0 .. arrived
      BY <3>1, EndOfBatchInRange
    <3>3. TypeOK'
      BY <2>6, <3>1, <3>2 DEF PollOK
    <3>4. /\ pc' = "batch" /\ offset' <= arrived' + 1
          /\ next' = Confirmed + 1 /\ confirmed' = Confirmed
      BY <2>6 DEF PollOK
    <3>5. InBatch'
      BY <3>1, <3>4
    <3> QED
      BY <3>3, <3>5
  <2>7. CASE PollError
    <3>1. Confirmed \in 0 .. arrived
      BY ConfirmedInRange
    <3>2. /\ confirmed' \in 0 .. arrived
          /\ pc' \in {"down", "backoff"} /\ stops' \in Nat
          /\ UNCHANGED <<arrived, offset, next, last, ctx, served, begun>>
      BY <2>7, <3>1 DEF PollError
    <3> QED
      BY <3>2
  <2>8. CASE Backoff
    BY <2>8 DEF Backoff
  <2>9. CASE Begin
    BY <2>9 DEF Begin
  <2>10. CASE BatchDone
    BY <2>10 DEF BatchDone
  <2>11. CASE Handled
    <3>1. next \in Updates
      BY <2>11 DEF Handled
    <3>2. next' \in 1 .. MaxUpdate + 1
      BY <2>11 DEF Handled
    <3>3. served' \subseteq Updates
      BY <2>11, <3>1 DEF Handled
    <3>4. InBatch'
      BY <2>11, <3>2 DEF Handled
    <3> QED
      BY <2>11, <3>2, <3>3, <3>4 DEF Handled
  <2>12. CASE UNCHANGED vars
    BY <2>12 DEF vars
  <2> QED
    BY <2>1, <2>2, <2>3, <2>4, <2>5, <2>6, <2>7, <2>8, <2>9, <2>10, <2>11,
       <2>12
       DEF Next, Advance
<1> QED
  BY <1>1, <1>2, PTL DEF Spec

-----------------------------------------------------------------------------
(* What the next poll would confirm has been served, so Telegram drops     *)
(* nothing that was not.                                                   *)
LEMMA DeliveryStep ==
    ASSUME TypeOK, InBatch, TypeOK', NothingLost, Confirmable, [Next]_vars
    PROVE  NothingLost' /\ Confirmable'
<1> USE DEF NothingLost, Confirmable, telegram, history
<1>1. CASE Arrive \/ Cancel \/ UNCHANGED vars
  BY <1>1 DEF Arrive, Cancel, vars, TypeOK
<1>2. CASE Die
  BY <1>2 DEF Die, Stop
<1>3. CASE Restart
  BY <1>3 DEF Restart
<1>4. CASE Top
  BY <1>4 DEF Top, Stop
<1>5. ASSUME pc = "poll", confirmed' \in {Confirmed, confirmed},
             UNCHANGED <<served, offset>>
      PROVE  NothingLost' /\ \A u \in 1 .. offset' - 1 : u \in served'
  <2>1. CASE offset - 1 > confirmed
    BY <1>5, <2>1 DEF Confirmed, TypeOK
  <2>2. CASE ~(offset - 1 > confirmed)
    BY <1>5, <2>2 DEF Confirmed, TypeOK
  <2> QED
    BY <2>1, <2>2
<1>6. CASE PollOK
  BY <1>5, <1>6 DEF PollOK
<1>7. CASE PollError
  BY <1>5, <1>7 DEF PollError
<1>8. CASE Backoff
  BY <1>8 DEF Backoff
<1>9. CASE Begin
  <2> SUFFICES ASSUME NEW u \in 1 .. offset' - 1
               PROVE  \/ u \in served'
                      \/ pc' = "handle" /\ u = next'
                      \/ ctx' = "cancelled" /\ pc' \notin {"poll", "backoff"}
                      \/ pc' = "down"
    BY <1>9 DEF Begin
  <2> QED
    BY <1>9 DEF Begin, TypeOK, InBatch
<1>10. CASE BatchDone
  BY <1>10 DEF BatchDone
<1>11. CASE Handled
  BY <1>11 DEF Handled, TypeOK
<1> QED
  BY <1>1, <1>2, <1>3, <1>4, <1>6, <1>7, <1>8, <1>9, <1>10, <1>11
     DEF Next, Advance

(* NothingLost, for any number of updates and of restarts: an update that  *)
(* Telegram has dropped was handled to the end.                            *)
THEOREM NothingEverLost == Spec => []NothingLost
<1>1. Init => NothingLost /\ Confirmable
  BY DEF Init, NothingLost, Confirmable
<1>2. /\ TypeOK /\ InBatch /\ (TypeOK /\ InBatch)'
      /\ NothingLost /\ Confirmable /\ [Next]_vars
      => (NothingLost /\ Confirmable)'
  BY DeliveryStep
<1> QED
  BY <1>1, <1>2, TypeCorrect, PTL DEF Spec

-----------------------------------------------------------------------------
(* How the loop walks through the updates: everything this process has     *)
(* begun lies below its offset, a batch continues where the offset or the  *)
(* confirmed updates end, and everything before the next update was served *)
(* or begun.                                                               *)
Sequence == /\ \A u \in begun : u < offset
            /\ pc = "batch" => offset <= next
            /\ pc = "handle" => offset = next + 1 /\ next \in begun
            /\ pc \in {"batch", "handle"} =>
                   \A v \in 1 .. next - 1 : v \in served \union begun

(* A response starts after the confirmed updates, all of which have been   *)
(* served, and none of which this process could begin again.               *)
LEMMA SequenceStep ==
    ASSUME TypeOK, InBatch, TypeOK', NothingLost', Sequence, [Next]_vars
    PROVE  Sequence'
<1> USE DEF Sequence, telegram, history
<1>1. CASE Arrive \/ Cancel \/ UNCHANGED vars
  BY <1>1 DEF Arrive, Cancel, vars
<1>2. CASE Die \/ Top
  BY <1>2 DEF Die, Top, Stop
<1>3. CASE Restart
  BY <1>3 DEF Restart
<1>4. CASE PollOK
  <2>1. offset <= Confirmed + 1
    <3>1. CASE offset - 1 > confirmed
      BY <3>1 DEF Confirmed, TypeOK
    <3>2. CASE ~(offset - 1 > confirmed)
      BY <3>2 DEF Confirmed, TypeOK
    <3> QED
      BY <3>1, <3>2
  <2>2. Confirmed \in Nat
    BY ConfirmedInRange DEF TypeOK, InBatch
  <2>3. \A v \in 1 .. next' - 1 : v \in served'
    BY <1>4, <2>2 DEF PollOK, NothingLost
  <2> QED
    BY <1>4, <2>1, <2>3 DEF PollOK
<1>5. CASE PollError \/ Backoff \/ BatchDone
  BY <1>5 DEF PollError, Backoff, BatchDone
<1>6. CASE Begin
  <2>1. next \in Nat /\ begun \subseteq Nat
    BY BotAssumption DEF TypeOK, Updates
  <2>2. /\ offset' = next + 1 /\ begun' = begun \union {next}
        /\ pc' = "handle" /\ next' = next /\ served' = served
        /\ pc = "batch"
    BY <1>6 DEF Begin
  <2>3. \A u \in begun' : u < offset'
    BY <2>1, <2>2, BotAssumption DEF TypeOK
  <2> QED
    BY <2>2, <2>3
<1>7. CASE Handled
  <2>1. next \in Nat
    BY BotAssumption DEF TypeOK
  <2>2. /\ next' = next + 1 /\ pc' = "batch" /\ served \subseteq served'
        /\ pc = "handle" /\ UNCHANGED <<offset, begun>>
    BY <1>7 DEF Handled
  <2>3. \A v \in 1 .. next' - 1 : v \in 1 .. next - 1 \/ v = next
    BY <2>1, <2>2
  <2> QED
    BY <2>1, <2>2, <2>3
<1> QED
  BY <1>1, <1>2, <1>3, <1>4, <1>5, <1>6, <1>7 DEF Next, Advance

(* Sequence holds in every state, for any number of updates and restarts.  *)
THEOREM LoopInSequence == Spec => []Sequence
<1>1. Init => Sequence
  BY DEF Init, Sequence
<1>2. /\ TypeOK /\ InBatch /\ (TypeOK /\ InBatch)' /\ NothingLost'
      /\ Sequence /\ [Next]_vars
      => Sequence'
  BY SequenceStep
<1> QED
  BY <1>1, <1>2, TypeCorrect, NothingEverLost, PTL DEF Spec

(* OncePerProcess, for any number of updates, lost responses and failed    *)
(* polls: what is begun lies at the offset or above it.                    *)
THEOREM HandledOncePerProcess == Spec => OncePerProcess
<1>1. TypeOK /\ Sequence /\ [Next]_vars
      => [pc = "batch" /\ pc' = "handle" => next \notin begun]_vars
  <2> SUFFICES ASSUME TypeOK, Sequence, Next, pc = "batch", pc' = "handle"
               PROVE  next \notin begun
    OBVIOUS
  <2> QED
    BY DEF Sequence, TypeOK, Updates
<1> QED
  BY <1>1, TypeCorrect, LoopInSequence, PTL DEF Spec, OncePerProcess

(* InOrder, likewise: an update is begun after every earlier one was.      *)
THEOREM HandledInOrder == Spec => InOrder
<1>1. TypeOK /\ Sequence /\ [Next]_vars
      => [\A u \in begun' \ begun : \A v \in 1 .. u - 1 :
             v \in served \union begun]_vars
  <2> SUFFICES ASSUME TypeOK, Sequence, Next,
                      NEW u \in begun' \ begun, NEW v \in 1 .. u - 1
               PROVE  v \in served \union begun
    OBVIOUS
  <2>1. pc = "batch" /\ u = next
    BY DEF Next, Advance, Arrive, Cancel, Die, Stop, Restart, Top, PollOK,
           PollError, Backoff, Begin, BatchDone, Handled, history
  <2> QED
    BY <2>1 DEF Sequence, TypeOK, Updates
<1> QED
  BY <1>1, TypeCorrect, LoopInSequence, PTL DEF Spec, InOrder
=============================================================================
