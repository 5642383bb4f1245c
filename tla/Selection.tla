----------------------------- MODULE Selection ------------------------------
(***************************************************************************)
(* cmd/bot, views.go and handlers.go: the inline keyboards.  A keyboard    *)
(* carries the selected categories as bits that count positions in the     *)
(* list of categories, not as names.  The bot keeps a copy of that list    *)
(* for ten minutes; the exchange-service changes the list when currencies  *)
(* are discovered or synced.                                               *)
(*                                                                         *)
(* The bot handles one update at a time, but users press buttons of any    *)
(* keyboard they see, and what they press waits in a queue.  Which of the  *)
(* two views ranks the rates makes no difference here and is left out.     *)
(***************************************************************************)
EXTENDS Integers, Sequences, SequencesExt, FiniteSets, FiniteSetsExt

CONSTANTS Names,           \* categories, numbered as the database orders them
          MaxCategories,   \* maxCategories: how many a selection has bits for
          Messages,        \* messages of the bot in a chat
          MaxPresses,      \* bound: presses that wait
          MaxChanges,      \* bound: changes of the service's categories
          MaxRestarts      \* bound: restarts of the bot

ASSUME SelectionAssumption ==
    /\ Names \subseteq Nat \ {0} /\ IsFiniteSet(Names)
    /\ MaxCategories \in Nat \ {0}
    /\ Messages # {}
    /\ {MaxPresses, MaxChanges, MaxRestarts} \subseteq Nat

VARIABLES
    service,    \* the categories that exchange-service lists
    cats,       \* a.cats, NoList before the first call
    shown,      \* per message: its keyboard
    queue,      \* callbacks that the bot has still to take
    pc,         \* "idle", "load", "rank", "answer" or "edit"
    press,      \* the callback in hand
    draft,      \* the keyboard that the callback's edit will show
    asked,      \* categories it asked GetRates for, NotAsked before
    answers,    \* answerCallbackQuery calls made for the callback in hand
    changes,
    restarts

world == <<service, changes>>
vars  == <<world, cats, shown, queue, pc, press, draft, asked, answers, restarts>>

NoList     == <<0>>          \* no list that the service returns
Uncategorized == 1           \* NULL, which the database orders first
Everything == {0} \union Names   \* GetRates without a filter
NotAsked   == {}
NoLabel    == 0

-----------------------------------------------------------------------------
(* type selection; bit i of a mask is position i + 1 here.                 *)
AllCategories == [kind |-> "all", mask |-> {}]
Chosen(mask)  == [kind |-> "some", mask |-> mask]

fullMask(n) == 1 .. (IF n >= MaxCategories THEN MaxCategories ELSE n)

(* Mutant: a mask is taken as it is, bits beyond the list included.        *)
bitsUnmasked(sel, n) == IF sel.kind = "all" THEN fullMask(n) ELSE sel.mask

bits(sel, n) == IF sel.kind = "all" THEN fullMask(n) ELSE sel.mask \intersect fullMask(n)

has(sel, i) == sel.kind = "all" \/ i \in sel.mask

Flip(set, i) == IF i \in set THEN set \ {i} ELSE set \union {i}

(* Mutant: toggling starts from the mask even when all are selected.       *)
toggleMask(sel, i, n) ==
    IF Flip(sel.mask, i) = fullMask(n) THEN AllCategories ELSE Chosen(Flip(sel.mask, i))

toggle(sel, i, n) ==
    LET mask == Flip(bits(sel, n), i)
    IN  IF mask = fullMask(n) THEN AllCategories ELSE Chosen(mask)

count(sel, n) == Cardinality(bits(sel, n))

(* The names a request carries; none of them stands for all.               *)
names(sel, list) ==
    IF sel.kind = "all" \/ bits(sel, Len(list)) = fullMask(Len(list)) THEN {}
    ELSE {list[i] : i \in {j \in DOMAIN list : has(sel, j)}}

-----------------------------------------------------------------------------
(* ratesKeyboard and categoriesKeyboard: the selection each button sends,  *)
(* and the list it was drawn from, which the user sees as labels; the bot  *)
(* is not told the label.                                                  *)
Keyboard(kind, sel, list) == [kind |-> kind, sel |-> sel, list |-> list]

NoKeyboard == Keyboard("none", AllCategories, <<>>)

Data(prefix, sel) == [prefix |-> prefix, sel |-> sel, label |-> NoLabel]

Toggles(kb) == {[prefix |-> "cats", sel |-> toggle(kb.sel, i, Len(kb.list)),
                 label |-> kb.list[i]] : i \in DOMAIN kb.list}

SelectAll(kb) == IF count(kb.sel, Len(kb.list)) = Len(kb.list)
                 THEN Data("cats", Chosen({}))
                 ELSE Data("cats", AllCategories)

Buttons(kb) ==
    CASE kb.kind = "none"  -> {}
      [] kb.kind = "rates" -> {Data("rates", kb.sel), Data("cats", kb.sel)}
      [] kb.kind = "cats"  -> Toggles(kb) \union {SelectAll(kb), Data("rates", kb.sel)}

Ticked(kb) == {kb.list[i] : i \in {j \in DOMAIN kb.list : has(kb.sel, j)}}

-----------------------------------------------------------------------------
(* A callback remembers the keyboard it was pressed on, for the properties.*)
(* "rejected" are those of other users, with data the bot does not know or *)
(* without their message.                                                  *)
NoPress == [msg |-> CHOOSE m \in Messages : TRUE, from |-> NoKeyboard,
            data |-> Data("none", AllCategories), trust |-> "rejected"]

Init == /\ service \in SUBSET Names
        /\ cats = NoList
        /\ shown = [m \in Messages |-> NoKeyboard]
        /\ queue = <<>>
        /\ pc = "idle" /\ press = NoPress /\ draft = NoKeyboard
        /\ asked = NotAsked /\ answers = 0
        /\ changes = 0 /\ restarts = 0

(* Currencies are discovered, synced and curated: their categories change. *)
ServiceChanges ==
    /\ changes < MaxChanges
    /\ changes' = changes + 1
    /\ service' \in SUBSET Names \ {service}
    /\ UNCHANGED <<cats, shown, queue, pc, press, draft, asked, answers, restarts>>

(* /start, /help and /rates send a new message; /rates asks for all.       *)
Command(m) ==
    /\ pc = "idle" /\ shown[m] = NoKeyboard
    /\ shown' = [shown EXCEPT ![m] = Keyboard("rates", AllCategories, <<>>)]
    /\ UNCHANGED <<world, cats, queue, pc, press, draft, asked, answers, restarts>>

Press(m) ==
    /\ Len(queue) < MaxPresses
    /\ Buttons(shown[m]) # {}
    /\ \/ \E data \in Buttons(shown[m]) :
             queue' = Append(queue, [msg |-> m, from |-> shown[m], data |-> data,
                                     trust |-> "accepted"])
       \/ queue' = Append(queue, NoPress)
    /\ UNCHANGED <<world, cats, shown, pc, press, draft, asked, answers, restarts>>

-----------------------------------------------------------------------------
NeedsList(p) == p.data.prefix = "cats" \/ p.data.sel.kind = "some"

(* handleCallback and the first lines of runCallback.                      *)
Take ==
    /\ pc = "idle" /\ queue # <<>>
    /\ press' = Head(queue)
    /\ queue' = Tail(queue)
    /\ answers' = 0
    /\ \/ Head(queue).trust = "rejected" /\ pc' = "answer"
       \/ Head(queue).trust = "accepted" /\ NeedsList(Head(queue)) /\ pc' = "load"
       \/ Head(queue).trust = "accepted" /\ ~NeedsList(Head(queue)) /\ pc' = "rank"
    /\ UNCHANGED <<world, cats, shown, draft, asked, restarts>>

(* SELECT DISTINCT category ... ORDER BY category, of which the service    *)
(* puts the currencies without a category last.                            *)
Before(c, d) == c # Uncategorized /\ (d = Uncategorized \/ c < d)

(* The lists it can answer with: there is one.                             *)
ListCategories == {list \in SetToSeqs(service) :
                      \A i, j \in DOMAIN list : i < j => Before(list[i], list[j])}

Truncated(list) == IF Len(list) > MaxCategories
                   THEN SubSeq(list, 1, MaxCategories) ELSE list

(* a.categories: the copy if it is less than ten minutes old, else what    *)
(* ListCategories returns.  The model has no clock: both may be the case.  *)
Categories == \/ cats \notin {NoList, <<>>} /\ UNCHANGED cats
              \/ \E list \in ListCategories : cats' = Truncated(list)

(* Mutant: an empty selection is sent to GetRates like any other.          *)
LoadUnchecked ==
    /\ pc = "load"
    /\ Categories
    /\ IF press.data.prefix = "cats"
       THEN /\ draft' = Keyboard("cats", press.data.sel, cats')
            /\ pc' = "answer"
       ELSE /\ draft' = draft
            /\ pc' = "rank"
    /\ UNCHANGED <<world, shown, queue, press, asked, answers, restarts>>

(* buildCategories is done when it has the list; buildRates goes on unless *)
(* nothing is selected, which is answered without an edit.                 *)
Load ==
    /\ pc = "load"
    /\ Categories
    /\ IF press.data.prefix = "cats"
       THEN /\ draft' = Keyboard("cats", press.data.sel, cats')
            /\ pc' = "answer"
       ELSE /\ draft' = draft
            /\ pc' = IF count(press.data.sel, Len(cats')) = 0 THEN "answer" ELSE "rank"
    /\ UNCHANGED <<world, shown, queue, press, asked, answers, restarts>>

(* The list that buildRates works with: none when all are selected.        *)
ListFor(p) == IF p.data.sel.kind = "all" THEN <<>> ELSE cats

(* GetRates with the names; none of them asks for every category.          *)
Rank ==
    /\ pc = "rank"
    /\ LET named == names(press.data.sel, ListFor(press))
       IN  asked' = IF named = {} THEN Everything ELSE named
    /\ draft' = Keyboard("rates", press.data.sel, ListFor(press))
    /\ pc' = "answer"
    /\ UNCHANGED <<world, cats, shown, queue, press, answers, restarts>>

(* ListCategories or GetRates fails: "Couldn't load data", and no edit.    *)
LoadFails ==
    /\ pc \in {"load", "rank"}
    /\ draft' = NoKeyboard
    /\ pc' = "answer"
    /\ UNCHANGED <<world, cats, shown, queue, press, asked, answers, restarts>>

Idle == /\ pc' = "idle"
        /\ press' = NoPress /\ draft' = NoKeyboard /\ asked' = NotAsked

(* Mutant: after the answer of an error the handler goes on to the next.   *)
AnswerAndGoOn ==
    /\ pc = "answer"
    /\ answers' = answers + 1
    /\ IF draft # NoKeyboard THEN pc' = "edit" /\ UNCHANGED <<press, draft, asked>>
       ELSE IF answers = 0 THEN UNCHANGED <<pc, press, draft, asked>> ELSE Idle
    /\ UNCHANGED <<world, cats, shown, queue, restarts>>

(* answerCallbackQuery; an edit follows whether it worked or not.          *)
Answer ==
    /\ pc = "answer"
    /\ answers' = answers + 1
    /\ IF draft = NoKeyboard THEN Idle
       ELSE pc' = "edit" /\ UNCHANGED <<press, draft, asked>>
    /\ UNCHANGED <<world, cats, shown, queue, restarts>>

(* editMessageText works, or fails with the message as it was.             *)
Edit ==
    /\ pc = "edit"
    /\ shown' \in {shown, [shown EXCEPT ![press.msg] = draft]}
    /\ Idle
    /\ UNCHANGED <<world, cats, queue, answers, restarts>>

(* The bot starts anew without a list; Telegram sends it again what it was *)
(* handling.                                                               *)
Restart ==
    /\ restarts < MaxRestarts
    /\ restarts' = restarts + 1
    /\ cats' = NoList
    /\ queue' = IF pc = "idle" THEN queue ELSE <<press>> \o queue
    /\ Idle
    /\ UNCHANGED <<world, shown, answers>>

-----------------------------------------------------------------------------
Handle == Take \/ Load \/ Rank \/ LoadFails \/ Answer \/ Edit

Next == \/ Handle \/ Restart \/ ServiceChanges
        \/ \E m \in Messages : Command(m) \/ Press(m)

Spec == Init /\ [][Next]_vars

-----------------------------------------------------------------------------
Selections == {AllCategories} \union {Chosen(mask) : mask \in SUBSET (1 .. MaxCategories)}

KeyboardOK(kb) == /\ kb.kind \in {"none", "rates", "cats"}
                  /\ kb.sel \in Selections
                  /\ Len(kb.list) <= MaxCategories
                  /\ Range(kb.list) \subseteq Names

TypeOK == /\ service \subseteq Names
          /\ cats = NoList \/ (Range(cats) \subseteq Names /\ Len(cats) <= MaxCategories)
          /\ \A m \in Messages : KeyboardOK(shown[m])
          /\ KeyboardOK(draft)
          /\ Len(queue) <= MaxPresses + 1
          /\ pc \in {"idle", "load", "rank", "answer", "edit"}
          /\ press.msg \in Messages /\ press.data.sel \in Selections
          /\ asked \subseteq Everything

Ranked == pc = "rank" /\ pc' = "answer" /\ draft' # NoKeyboard

(* What is ticked is what is ranked: a view pressed on a keyboard that was *)
(* drawn from the list the bot still has asks for the ticked categories,   *)
(* or for everything when all of them are.                                 *)
TickedIsRanked ==
    [][Ranked /\ press.from.kind = "cats" /\ press.from.list = cats =>
          asked' = IF Ticked(press.from) = Range(cats)
                   THEN Everything ELSE Ticked(press.from)]_vars

(* The service takes a request that names no category for one that wants   *)
(* them all.  The bot sends such a request only for a user who has all     *)
(* the categories selected, never for one who has none.                    *)
NeverAllByAccident ==
    [][Ranked /\ asked' = Everything =>
          \/ press.data.sel.kind = "all"
          \/ cats # <<>> /\ \A i \in DOMAIN cats : has(press.data.sel, i)]_vars

(* A toggle flips the category it is labelled with and no other, whatever  *)
(* the selection has been through, as long as the list is the same.        *)
ToggleFlipsOne ==
    [][\A m \in Messages :
          LET old == shown[m]
              new == shown'[m]
          IN  /\ new # old /\ old.kind = "cats" /\ new.kind = "cats"
              /\ press.from = old /\ new.list = old.list
              /\ press.data.label # NoLabel
              => Ticked(new) = Flip(Ticked(old), press.data.label)]_vars

(* Every callback that is handled to its end is answered once: Telegram    *)
(* shows a spinner until then, and rejects a second answer.                *)
AnsweredOnce ==
    [][pc # "idle" /\ pc' = "idle" /\ restarts' = restarts => answers' = 1]_vars

(* README, "pick which item categories get ranked": what is ranked was     *)
(* ticked on the keyboard that the user pressed, if the list changed since *)
(* then or not.                                                            *)
PickedIsRanked ==
    [][Ranked /\ press.from.kind = "cats" /\ asked' # Everything =>
          asked' \subseteq Ticked(press.from)]_vars
=============================================================================
