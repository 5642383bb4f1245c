-------------------------- MODULE Selection_proofs --------------------------
(***************************************************************************)
(* Theorems of module Selection, for any categories, messages and bounds.  *)
(***************************************************************************)
EXTENDS Selection, FiniteSetTheorems, SequenceTheorems, TLAPS

(* How often a callback has been answered is known from where its handler  *)
(* is.                                                                     *)
Answering == /\ pc \in {"idle", "load", "rank", "answer", "edit"} /\ restarts \in Nat
             /\ pc \in {"load", "rank", "answer"} => answers = 0
             /\ pc = "edit" => answers = 1

(* A callback in hand has been answered once exactly when it is past       *)
(* Answer.                                                                 *)
LEMMA AnsweringStep ==
    ASSUME Answering, [Next]_vars
    PROVE  /\ Answering'
           /\ pc # "idle" /\ pc' = "idle" /\ restarts' = restarts => answers' = 1
<1> USE DEF Answering
<1>1. CASE Take
  <2>1. answers' = 0 /\ pc' \in {"answer", "load", "rank"}
    BY <1>1 DEF Take
  <2>2. restarts' = restarts
    BY <1>1 DEF Take
  <2> QED
    BY <2>1, <2>2
<1>2. CASE Load
  BY <1>2 DEF Load
<1>3. CASE Rank \/ LoadFails
  BY <1>3 DEF Rank, LoadFails
<1>4. CASE Answer
  <2>1. answers' = 1 /\ pc' \in {"idle", "edit"} /\ restarts' = restarts
    <3>1. CASE draft = NoKeyboard
      BY <1>4, <3>1 DEF Answer, Idle
    <3>2. CASE draft # NoKeyboard
      BY <1>4, <3>2 DEF Answer
    <3> QED
      BY <3>1, <3>2
  <2> QED
    BY <2>1
<1>5. CASE Edit
  BY <1>5 DEF Edit, Idle
<1>6. CASE Restart
  <2>1. pc' = "idle" /\ restarts' \in Nat /\ restarts' # restarts
    BY <1>6 DEF Restart, Idle
  <2> QED
    BY <2>1
<1>7. CASE ServiceChanges \/ UNCHANGED vars \/ \E m \in Messages : Command(m) \/ Press(m)
  BY <1>7 DEF ServiceChanges, vars, Command, Press
<1> QED
  BY <1>1, <1>2, <1>3, <1>4, <1>5, <1>6, <1>7 DEF Next, Handle

(* AnsweredOnce: for any categories, any presses and any failures.         *)
THEOREM EveryCallbackAnsweredOnce == Spec => AnsweredOnce
<1>1. Init => Answering
  BY DEF Init, Answering
<1>2. Answering /\ [Next]_vars => Answering'
  BY AnsweringStep
<1>3. Answering /\ [Next]_vars =>
          [pc # "idle" /\ pc' = "idle" /\ restarts' = restarts => answers' = 1]_vars
  BY AnsweringStep
<1> QED
  BY <1>1, <1>2, <1>3, PTL DEF Spec, AnsweredOnce

-----------------------------------------------------------------------------
(* The lists that the bot may have drawn a keyboard from.  No category is  *)
(* in one twice, so a position and a label mean the same.                  *)
Lists == {list \in Seq(Names) :
             /\ Len(list) <= MaxCategories
             /\ \A i, j \in DOMAIN list : list[i] = list[j] => i = j}

Keyboards == [kind : {"none", "rates", "cats"}, sel : Selections, list : Lists]

Datas == [prefix : {"rates", "cats", "none"}, sel : Selections,
          label : Names \union {NoLabel}]

(* A callback is accepted for a button of the keyboard it was pressed on.  *)
Pressed == {NoPress} \union
           {p \in [msg : Messages, from : Keyboards, data : Datas,
                   trust : {"accepted"}] : p.data \in Buttons(p.from)}

Shapes == /\ service \in SUBSET Names
          /\ cats \in Lists \union {NoList}
          /\ shown \in [Messages -> Keyboards]
          /\ queue \in Seq(Pressed)
          /\ pc \in {"idle", "load", "rank", "answer", "edit"}
          /\ press \in Pressed
          /\ draft \in Keyboards

(* What the handler does fits the callback in hand: it ranks only for data *)
(* of a rates view, with a list that selects something unless all are      *)
(* selected, and a list of categories that it shows carries the selection  *)
(* that was pressed.                                                       *)
InHand == /\ pc \in {"load", "rank"} => press.trust = "accepted"
          /\ pc = "rank" =>
                /\ press.data.prefix # "cats"
                /\ press.data.sel.kind = "some" =>
                       cats # NoList /\ count(press.data.sel, Len(cats)) # 0
          /\ pc \in {"idle", "load", "rank"} => draft = NoKeyboard
          /\ draft # NoKeyboard => press.trust = "accepted"
          /\ draft.kind = "cats" => draft.sel = press.data.sel

(* What the service answers, cut to the bits of a mask, names no category  *)
(* twice.                                                                  *)
LEMMA TruncatedIsList ==
    ASSUME service \in SUBSET Names, NEW list \in ListCategories
    PROVE  Truncated(list) \in Lists
<1> DEFINE n == Cardinality(service)
<1>1. n \in Nat
  BY FS_Subset, FS_CardinalityType, SelectionAssumption
<1>2. /\ list \in [1 .. n -> service]
      /\ \A i, j \in 1 .. n : i # j => list[i] # list[j]
  BY DEF ListCategories, SetToSeqs
<1> HIDE DEF n
<1>3. list \in Seq(Names) /\ Len(list) = n
  <2>1. list \in [1 .. n -> Names]
    BY <1>2
  <2> QED
    BY <1>1, <2>1
<1>4. CASE Len(list) > MaxCategories
  <2> DEFINE head == SubSeq(list, 1, MaxCategories)
  <2>1. \A i \in 1 .. MaxCategories : list[i] \in Names
    BY <1>1, <1>2, <1>3, <1>4, SelectionAssumption
  <2>2. /\ head \in Seq(Names) /\ Len(head) = MaxCategories
        /\ \A i \in 1 .. MaxCategories : head[i] = list[i]
    BY <2>1, SubSeqProperties, SelectionAssumption
  <2>3. DOMAIN head = 1 .. MaxCategories
    BY <2>2, LenProperties
  <2> HIDE DEF head
  <2>4. \A i, j \in DOMAIN head : head[i] = head[j] => i = j
    BY <1>1, <1>2, <1>3, <1>4, <2>2, <2>3, SelectionAssumption
  <2>5. Truncated(list) = head
    BY <1>4 DEF Truncated, head
  <2> QED
    BY <2>2, <2>4, <2>5, SelectionAssumption DEF Lists
<1>5. CASE ~(Len(list) > MaxCategories)
  BY <1>1, <1>2, <1>3, <1>5, SelectionAssumption DEF Truncated, Lists
<1> QED
  BY <1>4, <1>5

LEMMA NoListIsNoList == NoList \notin Lists
<1>1. SUFFICES ASSUME NoList \in Lists PROVE FALSE
  OBVIOUS
<1>2. NoList[1] \in Names
  BY <1>1, ElementOfSeq DEF Lists, NoList
<1> QED
  BY <1>2, SelectionAssumption DEF NoList

(* The positions of a list are the bits of a full mask.                    *)
LEMMA FullMask ==
    ASSUME NEW list \in Lists
    PROVE  /\ DOMAIN list = 1 .. Len(list) /\ Len(list) \in Nat
           /\ fullMask(Len(list)) = DOMAIN list
           /\ DOMAIN list \subseteq 1 .. MaxCategories
<1>1. list \in Seq(Names) /\ Len(list) <= MaxCategories
  BY DEF Lists
<1>2. DOMAIN list = 1 .. Len(list) /\ Len(list) \in Nat
  BY <1>1, LenProperties
<1>3. \A n \in Nat : n <= MaxCategories => fullMask(n) = 1 .. n
  <2> SUFFICES ASSUME NEW n \in Nat, n <= MaxCategories
               PROVE  fullMask(n) = 1 .. n
    OBVIOUS
  <2>1. CASE n >= MaxCategories
    <3>1. n = MaxCategories
      BY <2>1, SelectionAssumption
    <3> QED
      BY <2>1, <3>1 DEF fullMask
  <2>2. CASE ~(n >= MaxCategories)
    BY <2>2 DEF fullMask
  <2> QED
    BY <2>1, <2>2
<1>4. \A n \in Nat : n <= MaxCategories => 1 .. n \subseteq 1 .. MaxCategories
  BY SelectionAssumption
<1> QED
  BY <1>1, <1>2, <1>3, <1>4

(* Every button carries a selection that has no bit beyond its list's.     *)
LEMMA ButtonsTyped ==
    ASSUME NEW kb \in Keyboards
    PROVE  Buttons(kb) \subseteq Datas
<1> DEFINE n == Len(kb.list)
<1>1. kb.sel \in Selections /\ kb.list \in Lists
  BY DEF Keyboards
<1>2. /\ fullMask(n) = DOMAIN kb.list
      /\ DOMAIN kb.list \subseteq 1 .. MaxCategories
      /\ \A i \in DOMAIN kb.list : kb.list[i] \in Names
  BY <1>1, FullMask, ElementOfSeq DEF Lists
<1>3. bits(kb.sel, n) \subseteq 1 .. MaxCategories
  BY <1>2 DEF bits
<1>4. \A i \in DOMAIN kb.list : toggle(kb.sel, i, n) \in Selections
  <2> SUFFICES ASSUME NEW i \in DOMAIN kb.list
               PROVE  toggle(kb.sel, i, n) \in Selections
    OBVIOUS
  <2>1. Flip(bits(kb.sel, n), i) \in SUBSET (1 .. MaxCategories)
    BY <1>2, <1>3 DEF Flip
  <2> QED
    BY <2>1 DEF toggle, Selections
<1>5. Toggles(kb) \subseteq Datas
  BY <1>2, <1>4 DEF Toggles, Datas
<1>6. /\ AllCategories \in Selections
      /\ Chosen({}) \in Selections
  BY DEF Selections
<1>7. SelectAll(kb) \in Datas /\ \A p \in {"rates", "cats"} : Data(p, kb.sel) \in Datas
  BY <1>1, <1>6 DEF SelectAll, Data, Datas
<1>8. CASE kb.kind = "none"
  BY <1>8 DEF Buttons
<1>9. CASE kb.kind = "rates"
  BY <1>7, <1>9 DEF Buttons
<1>10. CASE kb.kind = "cats"
  BY <1>5, <1>7, <1>10 DEF Buttons
<1> QED
  BY <1>8, <1>9, <1>10 DEF Keyboards

LEMMA Plain ==
    /\ NoKeyboard \in Keyboards /\ NoKeyboard.kind = "none"
    /\ AllCategories \in Selections
    /\ \A sel \in Selections, list \in Lists, kind \in {"rates", "cats"} :
          /\ Keyboard(kind, sel, list) \in Keyboards
          /\ Keyboard(kind, sel, list) # NoKeyboard
          /\ Keyboard(kind, sel, list).kind = kind
          /\ Keyboard(kind, sel, list).sel = sel
          /\ Keyboard(kind, sel, list).list = list
    /\ <<>> \in Lists
    /\ NoPress.trust = "rejected"
<1>1. <<>> \in Lists
  BY EmptySeq, SelectionAssumption DEF Lists
<1>2. AllCategories \in Selections
  BY DEF Selections
<1> QED
  BY <1>1, <1>2 DEF NoKeyboard, Keyboard, Keyboards, NoPress

(* A callback in the queue or in hand is one that could be pressed.        *)
LEMMA PressedFacts ==
    ASSUME NEW p \in Pressed
    PROVE  /\ p.trust \in {"accepted", "rejected"}
           /\ p.trust = "accepted" =>
                 /\ p.msg \in Messages
                 /\ p.from \in Keyboards
                 /\ p.data \in Buttons(p.from) /\ p.data \in Datas
                 /\ p.data.sel \in Selections
  BY DEF Pressed, NoPress, Datas

LEMMA ShapesInit == Init => Shapes /\ InHand
<1> SUFFICES ASSUME Init PROVE Shapes /\ InHand
  OBVIOUS
<1>1. queue \in Seq(Pressed)
  BY EmptySeq DEF Init
<1>2. press \in Pressed
  BY DEF Init, Pressed
<1> QED
  BY <1>1, <1>2, Plain DEF Init, Shapes, InHand

(* What the bot has of the list after Categories.                          *)
LEMMA CategoriesShape ==
    ASSUME Shapes, Categories PROVE cats' \in Lists
<1>1. CASE cats \notin {NoList, <<>>} /\ UNCHANGED cats
  BY <1>1 DEF Shapes
<1>2. CASE \E list \in ListCategories : cats' = Truncated(list)
  BY <1>2, TruncatedIsList DEF Shapes
<1> QED
  BY <1>1, <1>2 DEF Categories

LEMMA ShapesStep ==
    ASSUME Shapes, InHand, [Next]_vars PROVE Shapes' /\ InHand'
<1> USE DEF Shapes, InHand, world
<1>1. CASE Take
  <2>1. Head(queue) \in Pressed /\ Tail(queue) \in Seq(Pressed)
    BY <1>1, HeadTailProperties DEF Take
  <2>2. /\ press' = Head(queue) /\ queue' = Tail(queue)
        /\ UNCHANGED <<service, cats, shown, draft>>
        /\ draft = NoKeyboard
    BY <1>1 DEF Take
  <2>3. \/ press'.trust = "rejected" /\ pc' = "answer"
        \/ press'.trust = "accepted" /\ pc' = "load"
        \/ press'.trust = "accepted" /\ pc' = "rank" /\ ~NeedsList(press')
    BY <1>1, <2>2 DEF Take
  <2> QED
    BY <2>1, <2>2, <2>3, Plain DEF NeedsList
<1>2. CASE Load
  <2>1. cats' \in Lists /\ cats' # NoList
    BY <1>2, CategoriesShape, NoListIsNoList DEF Load
  <2>2. press.trust = "accepted" /\ press.data.sel \in Selections
    BY <1>2, PressedFacts DEF Load
  <2>3. UNCHANGED <<service, shown, queue, press>>
    BY <1>2 DEF Load
  <2>4. CASE press.data.prefix = "cats"
    <3>1. draft' = Keyboard("cats", press.data.sel, cats') /\ pc' = "answer"
      BY <1>2, <2>4 DEF Load
    <3> QED
      BY <2>1, <2>2, <2>3, <3>1, Plain
  <2>5. CASE press.data.prefix # "cats"
    <3>1. /\ draft' = draft /\ draft = NoKeyboard
          /\ \/ pc' = "answer"
             \/ pc' = "rank" /\ count(press.data.sel, Len(cats')) # 0
      BY <1>2, <2>5 DEF Load
    <3> QED
      BY <2>1, <2>2, <2>3, <2>5, <3>1, Plain
  <2> QED
    BY <2>4, <2>5
<1>3. CASE Rank
  <2>1. press.trust = "accepted" /\ press.data.sel \in Selections
    BY <1>3, PressedFacts DEF Rank
  <2>2. ListFor(press) \in Lists
    BY <1>3, <2>1, Plain DEF Rank, ListFor, Selections, Chosen, AllCategories
  <2>3. /\ draft' = Keyboard("rates", press.data.sel, ListFor(press))
        /\ pc' = "answer"
        /\ UNCHANGED <<service, cats, shown, queue, press>>
    BY <1>3 DEF Rank
  <2> QED
    BY <2>1, <2>2, <2>3, Plain
<1>4. CASE LoadFails
  BY <1>4, Plain DEF LoadFails
<1>5. ASSUME Idle
      PROVE  /\ pc' = "idle" /\ press' = NoPress /\ NoPress \in Pressed
             /\ draft' = NoKeyboard
  BY <1>5 DEF Idle, Pressed
<1>6. CASE Answer
  <2>1. CASE draft = NoKeyboard
    BY <1>5, <1>6, <2>1, Plain DEF Answer
  <2>2. CASE draft # NoKeyboard
    BY <1>6, <2>2 DEF Answer
  <2> QED
    BY <2>1, <2>2
<1>7. CASE Edit
  <2>1. shown' \in [Messages -> Keyboards]
    BY <1>7 DEF Edit
  <2> QED
    BY <1>5, <1>7, <2>1, Plain DEF Edit
<1>8. CASE Restart
  <2>1. queue' \in Seq(Pressed)
    <3>1. <<press>> \in Seq(Pressed)
      OBVIOUS
    <3>2. <<press>> \o queue \in Seq(Pressed)
      BY <3>1, ConcatProperties
    <3> QED
      BY <1>8, <3>2 DEF Restart
  <2> QED
    BY <1>5, <1>8, <2>1, Plain DEF Restart
<1>9. CASE ServiceChanges
  BY <1>9 DEF ServiceChanges
<1>10. ASSUME NEW m \in Messages, Command(m) PROVE Shapes' /\ InHand'
  BY <1>10, Plain DEF Command
<1>11. ASSUME NEW m \in Messages, Press(m) PROVE Shapes' /\ InHand'
  <2>1. PICK p \in Pressed : queue' = Append(queue, p)
    <3>1. CASE queue' = Append(queue, NoPress)
      BY <3>1 DEF Pressed
    <3>2. CASE \E data \in Buttons(shown[m]) :
                  queue' = Append(queue, [msg |-> m, from |-> shown[m],
                                          data |-> data, trust |-> "accepted"])
      <4>1. Buttons(shown[m]) \subseteq Datas /\ shown[m] \in Keyboards
        BY ButtonsTyped
      <4> QED
        BY <3>2, <4>1 DEF Pressed
    <3> QED
      BY <1>11, <3>1, <3>2 DEF Press
  <2>2. queue' \in Seq(Pressed)
    BY <2>1
  <2> QED
    BY <1>11, <2>2 DEF Press
<1>12. CASE UNCHANGED vars
  BY <1>12 DEF vars
<1> QED
  BY <1>1, <1>2, <1>3, <1>4, <1>6, <1>7, <1>8, <1>9, <1>10, <1>11, <1>12
     DEF Next, Handle

(* Lists without repetition, keyboards within them and callbacks that fit  *)
(* their keyboards, for any categories, presses and restarts.              *)
THEOREM KeyboardsFit == Spec => [](Shapes /\ InHand)
<1>1. Shapes /\ InHand /\ [Next]_vars => (Shapes /\ InHand)'
  BY ShapesStep
<1> QED
  BY <1>1, ShapesInit, PTL DEF Spec

-----------------------------------------------------------------------------
(* Within the list of a keyboard, what has says and what bits says is the  *)
(* same.                                                                   *)
LEMMA HasIsBit ==
    ASSUME NEW sel \in Selections, NEW list \in Lists
    PROVE  /\ bits(sel, Len(list)) = {j \in DOMAIN list : has(sel, j)}
           /\ sel.kind \in {"all", "some"}
           /\ bits(sel, Len(list)) = fullMask(Len(list)) <=>
                 \A j \in DOMAIN list : has(sel, j)
<1>1. fullMask(Len(list)) = DOMAIN list
  BY FullMask
<1>2. CASE sel = AllCategories
  BY <1>1, <1>2 DEF AllCategories, bits, has
<1>3. CASE \E mask \in SUBSET (1 .. MaxCategories) : sel = Chosen(mask)
  <2>1. PICK mask \in SUBSET (1 .. MaxCategories) : sel = Chosen(mask)
    BY <1>3
  <2>2. sel.kind = "some" /\ sel.mask = mask
    BY <2>1 DEF Chosen
  <2>3. \A j : has(sel, j) <=> j \in mask
    BY <2>2 DEF has
  <2>4. bits(sel, Len(list)) = mask \intersect DOMAIN list
    BY <1>1, <2>2 DEF bits
  <2> QED
    BY <1>1, <2>2, <2>3, <2>4
<1> QED
  BY <1>2, <1>3 DEF Selections

(* Bits that are not counted as none are some.                             *)
LEMMA CountedBits ==
    ASSUME NEW sel \in Selections, NEW list \in Lists, count(sel, Len(list)) # 0
    PROVE  \E j \in DOMAIN list : has(sel, j)
<1>1. bits(sel, Len(list)) # {}
  BY FS_EmptySet DEF count
<1> QED
  BY <1>1, HasIsBit

(* What Ranked sees is a step of Rank, with data of a rates view.          *)
LEMMA RankedIsRank ==
    ASSUME Shapes, InHand, [Next]_vars, Ranked
    PROVE  /\ Rank
           /\ press.trust = "accepted" /\ press.data.prefix # "cats"
           /\ press.data.sel \in Selections /\ press.from \in Keyboards
           /\ press.data \in Buttons(press.from)
           /\ press.data.sel.kind = "some" =>
                 cats \in Lists /\ \E j \in DOMAIN cats : has(press.data.sel, j)
<1>1. pc = "rank" /\ pc' = "answer" /\ draft' # NoKeyboard
  BY DEF Ranked
<1>2. Rank
  BY <1>1 DEF Next, vars, Handle, Take, Load, LoadFails, Answer, Edit, Restart,
              Idle, ServiceChanges, Command, Press
<1>3. press.trust = "accepted" /\ press.data.prefix # "cats" /\ press \in Pressed
  BY <1>1 DEF InHand, Shapes
<1>4. press.data.sel \in Selections
  BY <1>3, PressedFacts
<1>5. ASSUME press.data.sel.kind = "some"
      PROVE  cats \in Lists /\ \E j \in DOMAIN cats : has(press.data.sel, j)
  <2>1. cats \in Lists /\ count(press.data.sel, Len(cats)) # 0
    BY <1>1, <1>5 DEF InHand, Shapes
  <2> QED
    BY <1>4, <2>1, CountedBits
<1> QED
  BY <1>2, <1>3, <1>4, <1>5, PressedFacts

(* The names of a request that selects some categories, and not all.       *)
LEMMA NamedSome ==
    ASSUME NEW sel \in Selections, NEW list \in Lists, sel.kind = "some",
           \E j \in DOMAIN list : has(sel, j)
    PROVE  /\ (\A j \in DOMAIN list : has(sel, j)) => names(sel, list) = {}
           /\ ~(\A j \in DOMAIN list : has(sel, j)) =>
                 /\ names(sel, list) = {list[i] : i \in {j \in DOMAIN list : has(sel, j)}}
                 /\ names(sel, list) # {}
           /\ names(sel, list) \subseteq Names
<1>1. bits(sel, Len(list)) = fullMask(Len(list)) <=> \A j \in DOMAIN list : has(sel, j)
  BY HasIsBit
<1>2. \A i \in DOMAIN list : list[i] \in Names
  BY FullMask, ElementOfSeq DEF Lists
<1> QED
  BY <1>1, <1>2 DEF names

(* NeverAllByAccident, for any categories: a request for everything is one *)
(* of a user who has all of them selected.                                 *)
THEOREM NeverAskedByAccident == Spec => NeverAllByAccident
<1>1. Shapes /\ InHand /\ [Next]_vars
      => [Ranked /\ asked' = Everything =>
             \/ press.data.sel.kind = "all"
             \/ cats # <<>> /\ \A i \in DOMAIN cats : has(press.data.sel, i)]_vars
  <2> SUFFICES ASSUME Shapes, InHand, Next, Ranked, asked' = Everything,
                      press.data.sel.kind # "all"
               PROVE  cats # <<>> /\ \A i \in DOMAIN cats : has(press.data.sel, i)
    OBVIOUS
  <2> DEFINE sel == press.data.sel
  <2>1. Rank /\ sel \in Selections
    BY RankedIsRank
  <2>2. sel.kind = "some"
    BY <2>1, HasIsBit, Plain
  <2>3. cats \in Lists /\ \E j \in DOMAIN cats : has(sel, j)
    BY <2>2, RankedIsRank
  <2>4. ListFor(press) = cats
    BY <2>2 DEF ListFor
  <2>5. asked' = IF names(sel, cats) = {} THEN Everything ELSE names(sel, cats)
    BY <2>1, <2>4 DEF Rank
  <2>6. names(sel, cats) \subseteq Names /\ 0 \notin Names /\ 0 \in Everything
    BY <2>1, <2>2, <2>3, NamedSome, SelectionAssumption DEF Everything
  <2>7. names(sel, cats) = {}
    BY <2>5, <2>6
  <2>8. \A i \in DOMAIN cats : has(sel, i)
    BY <2>1, <2>2, <2>3, <2>7, NamedSome
  <2> QED
    BY <2>3, <2>8
<1> QED
  BY <1>1, KeyboardsFit, PTL DEF Spec, NeverAllByAccident

(* TickedIsRanked, for any categories: with the list that the keyboard was *)
(* drawn from, the bits of a press name what the user saw ticked.          *)
THEOREM TickedAlwaysRanked == Spec => TickedIsRanked
<1>1. Shapes /\ InHand /\ [Next]_vars
      => [Ranked /\ press.from.kind = "cats" /\ press.from.list = cats =>
             asked' = IF Ticked(press.from) = Range(cats)
                      THEN Everything ELSE Ticked(press.from)]_vars
  <2> SUFFICES ASSUME Shapes, InHand, Next, Ranked,
                      press.from.kind = "cats", press.from.list = cats
               PROVE  asked' = IF Ticked(press.from) = Range(cats)
                               THEN Everything ELSE Ticked(press.from)
    OBVIOUS
  <2> DEFINE sel == press.data.sel
  <2>1. /\ Rank /\ sel \in Selections /\ press.from \in Keyboards
        /\ press.data \in Buttons(press.from) /\ press.data.prefix # "cats"
    BY RankedIsRank
  <2>2. sel = press.from.sel
    BY <2>1 DEF Buttons, Toggles, SelectAll, Data
  <2>3. cats \in Lists
    BY <2>1 DEF Keyboards
  <2>4. Ticked(press.from) = {cats[i] : i \in {j \in DOMAIN cats : has(sel, j)}}
    BY <2>2 DEF Ticked
  <2>5. Range(cats) = {cats[i] : i \in DOMAIN cats}
    BY DEF Range
  <2>6. asked' = IF names(sel, ListFor(press)) = {} THEN Everything
                 ELSE names(sel, ListFor(press))
    BY <2>1 DEF Rank
  <2>7. CASE sel.kind = "all"
    <3>1. names(sel, ListFor(press)) = {}
      BY <2>7 DEF names
    <3>2. Ticked(press.from) = Range(cats)
      BY <2>4, <2>5, <2>7 DEF has
    <3> QED
      BY <2>6, <3>1, <3>2
  <2>8. CASE sel.kind = "some"
    <3>1. ListFor(press) = cats
      BY <2>8 DEF ListFor
    <3>2. \E j \in DOMAIN cats : has(sel, j)
      BY <2>8, RankedIsRank
    <3>3. CASE \A j \in DOMAIN cats : has(sel, j)
      <4>1. names(sel, cats) = {}
        BY <2>1, <2>3, <2>8, <3>2, <3>3, NamedSome
      <4>2. Ticked(press.from) = Range(cats)
        BY <2>4, <2>5, <3>3
      <4> QED
        BY <2>6, <3>1, <4>1, <4>2
    <3>4. CASE ~\A j \in DOMAIN cats : has(sel, j)
      <4>1. names(sel, cats) = Ticked(press.from) /\ names(sel, cats) # {}
        BY <2>1, <2>3, <2>4, <2>8, <3>2, <3>4, NamedSome
      <4>2. PICK j \in DOMAIN cats : ~has(sel, j)
        BY <3>4
      <4>3. cats[j] \notin Ticked(press.from)
        BY <2>3, <2>4, <4>2 DEF Lists
      <4>4. Ticked(press.from) # Range(cats)
        BY <2>5, <4>2, <4>3
      <4> QED
        BY <2>6, <3>1, <4>1, <4>4
    <3> QED
      BY <3>3, <3>4
  <2> QED
    BY <2>1, <2>3, <2>7, <2>8, HasIsBit
<1> QED
  BY <1>1, KeyboardsFit, PTL DEF Spec, TickedIsRanked

-----------------------------------------------------------------------------
(* The categories a keyboard shows as ticked after a toggle are those from *)
(* before, with the one of the button flipped.                             *)
LEMMA ToggledTicks ==
    ASSUME NEW old \in Keyboards, NEW new \in Keyboards, new.list = old.list,
           NEW i \in DOMAIN old.list,
           new.sel = toggle(old.sel, i, Len(old.list))
    PROVE  Ticked(new) = Flip(Ticked(old), old.list[i])
<1> DEFINE list == old.list
           n    == Len(old.list)
           B    == bits(old.sel, n)
           C    == Flip(B, i)
<1>1. list \in Lists /\ old.sel \in Selections /\ new.sel \in Selections
  BY DEF Keyboards
<1>2. B = {j \in DOMAIN list : has(old.sel, j)} /\ fullMask(n) = DOMAIN list
  BY <1>1, HasIsBit, FullMask
<1>3. C \subseteq DOMAIN list
  BY <1>2 DEF Flip
<1>4. {j \in DOMAIN list : has(new.sel, j)} = C
  <2>1. CASE C = fullMask(n)
    <3>1. new.sel = AllCategories
      BY <2>1 DEF toggle
    <3>2. \A j : has(new.sel, j)
      BY <3>1 DEF has, AllCategories
    <3> HIDE DEF C, B
    <3> QED
      BY <1>2, <2>1, <3>2
  <2>2. CASE C # fullMask(n)
    <3>1. new.sel = Chosen(C)
      BY <2>2 DEF toggle
    <3> QED
      BY <1>3, <3>1 DEF has, Chosen
  <2> QED
    BY <2>1, <2>2
<1>5. Ticked(new) = {list[j] : j \in C} /\ Ticked(old) = {list[j] : j \in B}
  BY <1>2, <1>4 DEF Ticked
<1>6. \A j, k \in DOMAIN list : list[j] = list[k] => j = k
  BY <1>1 DEF Lists
<1>7. B \subseteq DOMAIN list
  BY <1>2
<1> HIDE DEF B, list
<1>8. i \in DOMAIN list
  BY DEF list
<1>9. CASE i \in B
  <2>1. C = B \ {i}
    BY <1>9 DEF Flip
  <2>2. list[i] \in {list[j] : j \in B}
    BY <1>9
  <2>3. {list[j] : j \in B \ {i}} = {list[j] : j \in B} \ {list[i]}
    BY <1>6, <1>7, <1>8
  <2> QED
    BY <1>5, <2>1, <2>2, <2>3 DEF Flip, list
<1>10. CASE i \notin B
  <2>1. C = B \union {i}
    BY <1>10 DEF Flip
  <2>2. list[i] \notin {list[j] : j \in B}
    BY <1>6, <1>7, <1>8, <1>10
  <2>3. {list[j] : j \in B \union {i}} = {list[j] : j \in B} \union {list[i]}
    OBVIOUS
  <2> QED
    BY <1>5, <2>1, <2>2, <2>3 DEF Flip, list
<1> QED
  BY <1>9, <1>10

(* ToggleFlipsOne, for any categories and any selection.                   *)
THEOREM TogglesFlipOne == Spec => ToggleFlipsOne
<1>1. Shapes /\ InHand /\ [Next]_vars
      => [\A m \in Messages :
             LET old == shown[m]
                 new == shown'[m]
             IN  /\ new # old /\ old.kind = "cats" /\ new.kind = "cats"
                 /\ press.from = old /\ new.list = old.list
                 /\ press.data.label # NoLabel
                 => Ticked(new) = Flip(Ticked(old), press.data.label)]_vars
  <2> SUFFICES ASSUME Shapes, InHand, Next, NEW m \in Messages,
                      shown'[m] # shown[m], shown[m].kind = "cats",
                      shown'[m].kind = "cats", press.from = shown[m],
                      shown'[m].list = shown[m].list, press.data.label # NoLabel
               PROVE  Ticked(shown'[m]) = Flip(Ticked(shown[m]), press.data.label)
    OBVIOUS
  <2>1. Edit
    <3>1. ~UNCHANGED shown
      OBVIOUS
    <3>2. ASSUME NEW k \in Messages, Command(k) PROVE FALSE
      <4>1. k = m
        BY <3>2 DEF Command, Shapes
      <4> QED
        BY <3>2, <4>1, Plain DEF Command
    <3> QED
      BY <3>1, <3>2 DEF Next, Handle, Take, Load, Rank, LoadFails, Answer,
                        Restart, ServiceChanges, Press, world
  <2>2. shown'[m] = draft
    BY <2>1 DEF Edit, Shapes
  <2>3. draft \in Keyboards /\ draft # NoKeyboard /\ draft.sel = press.data.sel
    BY <2>2, Plain DEF Shapes, InHand
  <2>4. press.from \in Keyboards /\ press.data \in Buttons(press.from)
    BY <2>3, PressedFacts DEF Shapes, InHand
  <2>5. press.data \in Toggles(press.from)
    BY <2>4 DEF Buttons, SelectAll, Data
  <2>6. PICK i \in DOMAIN press.from.list :
            /\ press.data.sel = toggle(press.from.sel, i, Len(press.from.list))
            /\ press.data.label = press.from.list[i]
    BY <2>5 DEF Toggles
  <2> QED
    BY <2>2, <2>3, <2>4, <2>6, ToggledTicks
<1> QED
  BY <1>1, KeyboardsFit, PTL DEF Spec, ToggleFlipsOne

-----------------------------------------------------------------------------
(* What waits, and what is asked for.  A callback in hand came out of the  *)
(* queue, so there is room to put it back.                                 *)
Room == /\ Len(queue) <= MaxPresses + 1
        /\ pc # "idle" => Len(queue) <= MaxPresses
        /\ asked \subseteq Everything

LEMMA RoomStep ==
    ASSUME Shapes, InHand, Room, [Next]_vars PROVE Room'
<1> USE SelectionAssumption DEF Room
<1>1. Len(queue) \in Nat
  BY DEF Shapes
<1>2. CASE Take
  <2>1. Len(queue') = Len(queue) - 1
    BY <1>2, HeadTailProperties DEF Take, Shapes
  <2> QED
    BY <1>1, <1>2, <2>1 DEF Take
<1>3. CASE Load \/ LoadFails
  BY <1>3 DEF Load, LoadFails
<1>4. CASE Rank
  <2>1. press.trust = "accepted" /\ press.data.sel \in Selections
    BY <1>4, PressedFacts DEF Rank, Shapes, InHand
  <2>2. names(press.data.sel, ListFor(press)) \subseteq Names
    <3>1. CASE press.data.sel.kind = "all"
      BY <3>1 DEF names
    <3>2. CASE press.data.sel.kind = "some"
      <4>1. cats \in Lists /\ count(press.data.sel, Len(cats)) # 0
        BY <1>4, <3>2 DEF Rank, Shapes, InHand
      <4>2. \E j \in DOMAIN cats : has(press.data.sel, j)
        BY <2>1, <4>1, CountedBits
      <4> QED
        BY <2>1, <3>2, <4>1, <4>2, NamedSome DEF ListFor
    <3> QED
      BY <2>1, <3>1, <3>2, HasIsBit, Plain
  <2>3. asked' \subseteq Everything
    BY <1>4, <2>2 DEF Rank, Everything
  <2> QED
    BY <1>4, <2>3 DEF Rank
<1>5. CASE Answer
  <2>1. CASE draft = NoKeyboard
    BY <1>5, <2>1 DEF Answer, Idle, NotAsked
  <2>2. CASE draft # NoKeyboard
    BY <1>5, <2>2 DEF Answer
  <2> QED
    BY <2>1, <2>2
<1>6. CASE Edit
  BY <1>6 DEF Edit, Idle, NotAsked
<1>7. CASE Restart
  <2>1. CASE pc = "idle"
    BY <1>7, <2>1 DEF Restart, Idle, NotAsked
  <2>2. CASE pc # "idle"
    <3>1. queue' = <<press>> \o queue
      BY <1>7, <2>2 DEF Restart
    <3>2. <<press>> \in Seq(Pressed) /\ Len(<<press>>) = 1
      BY DEF Shapes
    <3>3. Len(queue') = 1 + Len(queue)
      BY <3>1, <3>2, ConcatProperties DEF Shapes
    <3> QED
      BY <1>1, <1>7, <2>2, <3>3 DEF Restart, Idle, NotAsked
  <2> QED
    BY <2>1, <2>2
<1>8. CASE ServiceChanges \/ UNCHANGED vars \/ \E m \in Messages : Command(m)
  BY <1>8 DEF ServiceChanges, vars, Command
<1>9. ASSUME NEW m \in Messages, Press(m) PROVE Room'
  <2>1. Len(queue') = Len(queue) + 1 /\ Len(queue) < MaxPresses
    <3>1. \A p : Len(Append(queue, p)) = Len(queue) + 1
      BY DEF Shapes
    <3> QED
      BY <1>9, <3>1 DEF Press
  <2> QED
    BY <1>1, <1>9, <2>1 DEF Press
<1> QED
  BY <1>2, <1>3, <1>4, <1>5, <1>6, <1>7, <1>8, <1>9 DEF Next, Handle

(* Every variable of Selection keeps its type.                             *)
THEOREM TypeCorrect == Spec => []TypeOK
<1>1. Init => Room
  BY SelectionAssumption, EmptySeq DEF Init, Room, NotAsked
<1>2. Shapes /\ InHand /\ Room /\ [Next]_vars => Room'
  BY RoomStep
<1>3. Shapes /\ Room => TypeOK
  <2> SUFFICES ASSUME Shapes, Room PROVE TypeOK
    OBVIOUS
  <2>1. ASSUME NEW list \in Lists
        PROVE  Range(list) \subseteq Names /\ Len(list) <= MaxCategories
    BY <2>1, FullMask, ElementOfSeq DEF Lists, Range
  <2>2. ASSUME NEW kb \in Keyboards PROVE KeyboardOK(kb)
    BY <2>1, <2>2 DEF Keyboards, KeyboardOK
  <2>3. press.msg \in Messages /\ press.data.sel \in Selections
    <3>1. CASE press = NoPress
      BY <3>1, Plain, SelectionAssumption DEF NoPress, Data
    <3>2. CASE press # NoPress
      BY <3>2 DEF Shapes, Pressed, Datas
    <3> QED
      BY <3>1, <3>2
  <2> QED
    BY <2>1, <2>2, <2>3 DEF Shapes, Room, TypeOK
<1> QED
  BY <1>1, <1>2, <1>3, KeyboardsFit, PTL DEF Spec
=============================================================================
