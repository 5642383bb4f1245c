---------------------------- MODULE Send_proofs -----------------------------
(***************************************************************************)
(* Theorems of module Send, for every retry policy and deadline.           *)
(***************************************************************************)
EXTENDS Send, TLAPS

(* The strengthening: as long as another attempt may follow, every message *)
(* that was delivered is accounted for by a 5xx.                           *)
Accounted == /\ delivered \in Nat /\ crashes \in Nat
             /\ pc \in {"call", "wait"} => delivered <= crashes
             /\ delivered <= 1 + crashes
             /\ pc = "wait" => outcome # "ok"
             /\ result = "nil" => delivered >= 1 /\ pc = "done"

(* What one call may add.                                                  *)
LEMMA DeliverAdds ==
    ASSUME NEW o \in Outcomes, Deliver(o), delivered \in Nat
    PROVE  /\ delivered' \in {delivered, delivered + 1}
           /\ o \in {"rejected", "flood", "dial"} => delivered' = delivered
           /\ o = "ok" => delivered' = delivered + 1
<1>1. CASE o = "ok"
  BY <1>1 DEF Deliver
<1>2. CASE o \in {"crash", "garbled", "dropped"}
  BY <1>2 DEF Deliver
<1>3. CASE o \notin {"ok", "crash", "garbled", "dropped"}
  BY <1>3 DEF Deliver
<1> QED
  BY <1>1, <1>2, <1>3

(* Every call and every wait keeps the account of deliveries and crashes.  *)
LEMMA AccountedStep ==
    ASSUME Accounted, [Next]_vars
    PROVE  Accounted'
<1> USE DEF Accounted, telegram
<1>1. ASSUME NEW o \in Outcomes \ {"none"}, NEW retryAfter, Call(o, retryAfter)
      PROVE  Accounted'
  <2>1. /\ delivered' \in {delivered, delivered + 1}
        /\ o \in {"rejected", "flood", "dial"} => delivered' = delivered
        /\ o = "ok" => delivered' = delivered + 1
    BY <1>1, DeliverAdds DEF Call
  <2>2. /\ pc = "call" /\ outcome' = o
        /\ crashes' = crashes + (IF o = "crash" THEN 1 ELSE 0)
    BY <1>1 DEF Call
  <2>3. /\ delivered' \in Nat /\ crashes' \in Nat
        /\ delivered' <= 1 + crashes'
    BY <2>1, <2>2
  <2>4. CASE Return
    BY <2>1, <2>2, <2>3, <2>4 DEF Return
  <2>5. CASE ~Return
    <3>1. retryable(o) /\ Retry(retryAfter)
      BY <1>1, <2>5 DEF Call, GiveUp
    <3>2. pc' = "wait" /\ result' = result
      BY <3>1 DEF Retry
    <3>3. delivered' <= crashes'
      BY <2>1, <2>2, <3>1 DEF retryable
    <3>4. outcome' # "ok"
      BY <2>2, <3>1 DEF retryable
    <3> QED
      BY <2>2, <2>3, <3>2, <3>3, <3>4
  <2> QED
    BY <2>4, <2>5
<1>2. CASE CallCut
  <2>1. delivered' \in {delivered, delivered + 1}
    BY <1>2, DeliverAdds DEF CallCut, Outcomes
  <2> QED
    BY <1>2, <2>1 DEF CallCut, Return
<1>3. CASE Wake
  BY <1>3 DEF Wake
<1>4. CASE WaitCut
  <2>1. pc = "wait" /\ pc' = "done" /\ UNCHANGED <<delivered, crashes>>
    BY <1>4 DEF WaitCut, Return
  <2>2. result' = "nil" => outcome = "ok"
    BY <1>4 DEF WaitCut, Return
  <2> QED
    BY <2>1, <2>2
<1>5. CASE Cancel
  BY <1>5 DEF Cancel
<1>6. CASE Done \/ UNCHANGED vars
  BY <1>6 DEF Done, vars
<1> QED
  BY <1>1, <1>2, <1>3, <1>4, <1>5, <1>6 DEF Next, Step, Outcomes

(* DuplicateOnlyAfterCrash and NilMeansDelivered, for every policy.        *)
THEOREM SendsCorrect == Spec => [](DuplicateOnlyAfterCrash /\ NilMeansDelivered)
<1>1. Init => Accounted
  BY DEF Init, Accounted
<1>2. Accounted /\ [Next]_vars => Accounted'
  BY AccountedStep
<1>3. Accounted => DuplicateOnlyAfterCrash /\ NilMeansDelivered
  BY DEF Accounted, DuplicateOnlyAfterCrash, NilMeansDelivered
<1> QED
  BY <1>1, <1>2, <1>3, PTL DEF Spec

(* A message arrives twice only after a 5xx: for any policy and deadline.  *)
THEOREM DuplicatesOnlyAfterCrash == Spec => []DuplicateOnlyAfterCrash
BY SendsCorrect, PTL

(* Success is only reported for a message that was sent.                   *)
THEOREM NilAlwaysMeansDelivered == Spec => []NilMeansDelivered
BY SendsCorrect, PTL

-----------------------------------------------------------------------------
(* A wait is followed by an attempt that the policy allows.                *)
Waiting == pc = "wait" => attempt < Attempts

(* The end of a pause that fits into the deadline is a time before it.     *)
LEMMA PauseFits ==
    \A w : \A now \in 0 .. Deadline, d \in Delays(attempt), retryAfter \in Nat :
        /\ w = now + (IF retryAfter > d THEN retryAfter ELSE d)
        /\ w <= Deadline
        => w \in 0 .. Deadline
<1> SUFFICES ASSUME NEW w, NEW now \in 0 .. Deadline, NEW d \in Delays(attempt),
                    NEW retryAfter \in Nat,
                    w = now + (IF retryAfter > d THEN retryAfter ELSE d),
                    w <= Deadline
             PROVE  w \in 0 .. Deadline
  OBVIOUS
<1>1. d \in Nat /\ now \in Nat /\ Deadline \in Nat
  BY SendAssumption DEF Delays
<1>2. CASE retryAfter > d
  BY <1>1, <1>2
<1>3. CASE ~(retryAfter > d)
  BY <1>1, <1>3
<1> QED
  BY <1>2, <1>3

(* Every variable of Send keeps its type, and no time is past the deadline.*)
THEOREM TypeCorrect == Spec => []TypeOK
<1>1. Init => TypeOK /\ Waiting
  BY SendAssumption DEF Init, TypeOK, Waiting, Outcomes
<1>2. TypeOK /\ Waiting /\ [Next]_vars => (TypeOK /\ Waiting)'
  <2> SUFFICES ASSUME TypeOK, Waiting, [Next]_vars PROVE TypeOK' /\ Waiting'
    OBVIOUS
  <2> USE SendAssumption DEF TypeOK, Waiting, telegram
  <2>1. ASSUME Return PROVE /\ pc' = "done" /\ attempt' = attempt /\ wake' = wake
                            /\ result' \in {"nil", "error"}
    BY <2>1 DEF Return
  <2>2. ASSUME NEW o \in Outcomes \ {"none"}, NEW retryAfter \in Nat,
               Call(o, retryAfter)
        PROVE  TypeOK' /\ Waiting'
    <3>1. /\ clock' \in 0 .. Deadline /\ outcome' = o /\ UNCHANGED cancelled
          /\ crashes' = crashes + (IF o = "crash" THEN 1 ELSE 0)
      BY <2>2 DEF Call
    <3>2. delivered' \in Nat /\ crashes' \in Nat
      BY <2>2, <3>1, DeliverAdds DEF Call
    <3>3. floodEnd' \in Nat
      BY <2>2, <3>1 DEF Call
    <3>4. CASE Return
      BY <2>1, <3>1, <3>2, <3>3, <3>4
    <3>5. CASE ~Return
      <4>1. Retry(retryAfter)
        BY <2>2, <3>5 DEF Call, GiveUp
      <4>2. /\ wake' \in 0 .. Deadline /\ pc' = "wait" /\ attempt < Attempts
            /\ UNCHANGED <<attempt, result>>
        <5>1. PICK d \in Delays(attempt) :
                 /\ wake' = clock' + (IF retryAfter > d THEN retryAfter ELSE d)
                 /\ wake' <= Deadline
          BY <4>1 DEF Retry
        <5>2. wake' \in 0 .. Deadline
          BY <3>1, <5>1, PauseFits, Zenon
        <5> QED
          BY <4>1, <5>2 DEF Retry
      <4> QED
        BY <3>1, <3>2, <3>3, <4>2
    <3> QED
      BY <3>4, <3>5
  <2>3. CASE CallCut
    <3>1. clock' \in 0 .. Deadline /\ Return
      BY <2>3 DEF CallCut
    <3>2. delivered' \in Nat
      BY <2>3, DeliverAdds DEF CallCut, Outcomes
    <3>3. outcome' \in Outcomes /\ UNCHANGED <<cancelled, floodEnd, crashes>>
      BY <2>3 DEF CallCut, Outcomes
    <3> QED
      BY <2>1, <3>1, <3>2, <3>3
  <2>4. CASE Wake
    BY <2>4 DEF Wake
  <2>5. CASE WaitCut
    BY <2>1, <2>5 DEF WaitCut
  <2>6. CASE Cancel
    BY <2>6 DEF Cancel
  <2>7. CASE Done \/ UNCHANGED vars
    BY <2>7 DEF Done, vars
  <2> QED
    BY <2>2, <2>3, <2>4, <2>5, <2>6, <2>7 DEF Next, Step, Outcomes
<1> QED
  BY <1>1, <1>2, PTL DEF Spec

-----------------------------------------------------------------------------
(* A pause that ends after retry_after ends after the flood wait, the one  *)
(* of this call or an earlier one.                                         *)
LEMMA PauseOutlastsFlood ==
    \A w : \A start, t, d, retryAfter, old \in Nat :
        /\ old <= start
        /\ w = start + t + (IF retryAfter > d THEN retryAfter ELSE d)
        => old <= w /\ start + t + retryAfter <= w
<1> SUFFICES ASSUME NEW w, NEW start \in Nat, NEW t \in Nat, NEW d \in Nat,
                    NEW retryAfter \in Nat, NEW old \in Nat, old <= start,
                    w = start + t + (IF retryAfter > d THEN retryAfter ELSE d)
             PROVE  old <= w /\ start + t + retryAfter <= w
  OBVIOUS
<1>1. CASE retryAfter > d
  BY <1>1
<1>2. CASE ~(retryAfter > d)
  BY <1>2
<1> QED
  BY <1>1, <1>2

(* A call is made after the flood wait, and no pause ends within it.       *)
FloodEnded == /\ pc = "call" => floodEnd <= clock
              /\ pc = "wait" => floodEnd <= wake

(* A retry begins a pause that outlasts the flood wait.                    *)
LEMMA RetryOutlastsFlood ==
    ASSUME TypeOK, FloodEnded, NEW o, NEW retryAfter \in Nat,
           Call(o, retryAfter), Retry(retryAfter)
    PROVE  floodEnd' <= wake'
<1>1. floodEnd \in Nat /\ clock \in Nat /\ floodEnd <= clock
  BY SendAssumption DEF TypeOK, FloodEnded, Call
<1>2. PICK t \in CallTimes : clock' = clock + t
  BY DEF Call
<1>3. PICK d \in Delays(attempt) :
         wake' = clock' + (IF retryAfter > d THEN retryAfter ELSE d)
  BY DEF Retry
<1>4. t \in Nat /\ d \in Nat
  BY SendAssumption DEF Delays
<1>5. wake' = clock + t + (IF retryAfter > d THEN retryAfter ELSE d)
  BY <1>2, <1>3
<1>6. floodEnd <= wake' /\ clock + t + retryAfter <= wake'
  BY <1>1, <1>4, <1>5, PauseOutlastsFlood, Zenon
<1>7. floodEnd' = clock + t + retryAfter \/ floodEnd' = floodEnd
  BY <1>2 DEF Call
<1> QED
  BY <1>6, <1>7, Zenon

(* FloodWaitKept: for any policy, deadline and retry_after, no call while  *)
(* Telegram's flood wait lasts.                                            *)
THEOREM FloodWaitAlwaysKept == Spec => FloodWaitKept
<1>1. Init => FloodEnded
  BY DEF Init, FloodEnded
<1>2. TypeOK /\ FloodEnded /\ [Next]_vars => FloodEnded'
  <2> SUFFICES ASSUME TypeOK, FloodEnded, [Next]_vars PROVE FloodEnded'
    OBVIOUS
  <2>1. ASSUME Return PROVE FloodEnded'
    BY <2>1 DEF Return, FloodEnded
  <2>2. ASSUME NEW o \in Outcomes, NEW retryAfter \in Nat, Call(o, retryAfter)
        PROVE  FloodEnded'
    <3>1. CASE Return
      BY <2>1, <3>1
    <3>2. CASE ~Return
      <4>1. Retry(retryAfter)
        BY <2>2, <3>2 DEF Call, GiveUp
      <4>2. floodEnd' <= wake' /\ pc' = "wait"
        BY <2>2, <4>1, RetryOutlastsFlood DEF Retry
      <4> QED
        BY <4>2 DEF FloodEnded
    <3> QED
      BY <3>1, <3>2
  <2>3. CASE CallCut \/ WaitCut
    BY <2>1, <2>3 DEF CallCut, WaitCut
  <2>4. CASE Wake
    BY <2>4 DEF Wake, FloodEnded, telegram
  <2>5. CASE Cancel \/ Done \/ UNCHANGED vars
    BY <2>5 DEF Cancel, Done, vars, telegram, FloodEnded
  <2> QED
    BY <2>2, <2>3, <2>4, <2>5, SendAssumption DEF Next, Step, Outcomes
<1>3. TypeOK /\ FloodEnded /\ [Next]_vars
      => [pc = "wait" /\ pc' = "call" => clock' >= floodEnd]_vars
  <2> SUFFICES ASSUME TypeOK, FloodEnded, Next, pc = "wait", pc' = "call"
               PROVE  clock' >= floodEnd
    OBVIOUS
  <2>1. Wake
    BY DEF Next, Step, Call, CallCut, WaitCut, Return, Cancel, Done, vars
  <2>2. clock' = wake /\ floodEnd <= wake
    BY <2>1 DEF Wake, FloodEnded
  <2>3. floodEnd \in Int /\ wake \in Int
    BY SendAssumption DEF TypeOK
  <2>4. wake >= floodEnd
    BY <2>2, <2>3
  <2> QED
    BY <2>2, <2>4
<1> QED
  BY <1>1, <1>2, <1>3, TypeCorrect, PTL DEF Spec, FloodWaitKept
=============================================================================
