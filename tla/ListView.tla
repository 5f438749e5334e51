-------------------------------- MODULE ListView --------------------------------
(***************************************************************************)
(* A user at one of the lists of ListPages.                                *)
(*                                                                         *)
(* Every control is on (1) or off (0).  A request for a list is an Inertia *)
(* visit: a visit that starts drops the one under way, and an answer brings *)
(* the filters its list was narrowed by.  What is asked for in a hurry,    *)
(* while an earlier request or a delayed one is on its way, can be lost on *)
(* a page that starts from the filters it has.                             *)
(***************************************************************************)
EXTENDS ListPages, Integers

CONSTANTS
    Lists,    \* the lists that are looked at, each in behaviours of its own
    MaxSteps  \* bound: what the user does

ASSUME ListViewAssumption == Lists \subseteq ListPageNames /\ MaxSteps \in Nat

VARIABLES
    list,     \* the list that is looked at
    applied,  \* the filters it came with
    told,     \* the state the page keeps of each control
    typed,    \* controls with text that was not asked for yet
    timer,    \* the delayed request: whether one is due, and the filters when it was made
    visit,    \* the request under way: what it asks for, and whether the page stays
    asked,    \* what the user asked of each control last
    muddle,   \* what has come between the user and his list since it was built
    steps     \* what the user did

vars == <<list, applied, told, typed, timer, visit, asked, muddle, steps>>

Page == ListOf(list)
Controls == DOMAIN Page.bar
OfKind(kinds) == {c \in Controls : Page.bar[c] \in kinds}
Delayed == OfKind({"delayed"})

NoVisit == [query |-> <<>>, stays |-> FALSE]
NoTimer == [due |-> FALSE, seen |-> <<>>]

Init ==
    /\ list \in Lists
    /\ applied = [c \in Controls |-> 0] /\ told = applied /\ asked = applied
    /\ typed = {} /\ timer = NoTimer /\ visit = NoVisit /\ muddle = {} /\ steps = 0

--------------------------------------------------------------------------------
\* What a page asks for

Shown(state, c) == IF Page.bar[c] = "list" THEN applied[c] ELSE state[c]

\* Mutant of Base: the page forgets what its other controls say.
BaseOfTheList(state) == applied

\* What a request starts from, when the controls are in this state.
Base(state) == IF Page.base = "list" THEN applied ELSE [c \in Controls |-> Shown(state, c)]

Ask(query, stays) == visit' = [query |-> query, stays |-> stays]

\* A search that was changed is asked for later, with the filters of now.
SetTimer(state) ==
    timer' = IF \E c \in Delayed : state[c] # told[c] THEN [due |-> TRUE, seen |-> applied] ELSE timer

\* A page that starts from its filters does not know what is under way.
Hurried == IF (visit # NoVisit \/ timer.due) /\ Page.base = "list" THEN {"hurry"} ELSE {}

Act == steps < MaxSteps /\ steps' = steps + 1 /\ UNCHANGED <<list, applied>>

--------------------------------------------------------------------------------
\* What the user does

\* He types: a text that waits to be submitted, or one that is asked for after a pause.
Type(c) ==
    LET now == [told EXCEPT ![c] = 1 - @] IN
    /\ Act /\ told' = now
    /\ \/ /\ c \in OfKind({"typed", "erasable"})
          /\ typed' = typed \cup {c}
          /\ UNCHANGED <<timer, asked, muddle>>
       \/ /\ c \in Delayed
          /\ SetTimer(now)
          /\ asked' = [asked EXCEPT ![c] = now[c]]
          /\ muddle' = muddle \cup Hurried
          /\ UNCHANGED typed
    /\ UNCHANGED visit

\* He submits the form.
Submit ==
    LET texts == OfKind({"typed", "erasable"})
        query == [c \in Controls |-> IF c \in texts THEN told[c] ELSE Base(told)[c]]
    IN
    /\ Act /\ texts # {}
    /\ Ask(query, TRUE)
    /\ typed' = {}
    /\ asked' = [c \in Controls |->
                   IF c \in texts \/ Page.base = "local" THEN query[c] ELSE asked[c]]
    /\ muddle' = muddle \cup Hurried
    /\ UNCHANGED <<told, timer>>

\* He changes a control that asks at once; what is left out is not asked for.
Choose(c) ==
    LET value == IF Page.bar[c] = "erasable" THEN 0 ELSE 1 - Shown(told, c)
        now == IF Page.bar[c] = "list" THEN told ELSE [told EXCEPT ![c] = value]
        query == [d \in Controls |->
                    IF d = c THEN value ELSE IF d \in LeftOut(list, c) THEN 0 ELSE Base(now)[d]]
    IN
    /\ Act /\ c \in OfKind({"list", "local", "erasable"})
    /\ told' = now
    /\ Ask(query, TRUE)
    /\ typed' = IF Page.base = "local" THEN {} ELSE typed \ {c}
    /\ asked' = IF Page.base = "local"
                THEN [d \in Controls |-> IF d = c THEN value ELSE Shown(now, d)]
                ELSE [asked EXCEPT ![c] = value]
    /\ muddle' = muddle \cup Hurried
                 \cup (IF \E d \in LeftOut(list, c) : now[d] # 0 THEN {"left out"} ELSE {})
    /\ UNCHANGED timer

\* He resets the filters.  Emptying a search that is delayed asks for it later, with the
\* filters from before the reset.
Reset ==
    LET cleared == [c \in Controls |-> IF c \in Page.keeps THEN told[c] ELSE 0]
        empties == list # "orders"
        query == [c \in Controls |-> IF c \in Page.keeps THEN applied[c] ELSE 0]
    IN
    /\ Act /\ Page.reset # "none"
    /\ told' = IF empties THEN cleared ELSE told
    /\ SetTimer(told')
    /\ Ask(query, Page.reset = "stays")
    /\ typed' = {}
    /\ asked' = query
    /\ muddle' = muddle \cup Hurried
                 \cup (IF Page.base = "list" /\ timer' # timer THEN {"reset"} ELSE {})

\* He follows a link to another page of the list.
Turn ==
    /\ Act /\ Page.turns # "none"
    /\ Ask(applied, Page.turns = "stays")
    /\ muddle' = muddle \cup (IF visit # NoVisit THEN {"hurry"} ELSE Hurried)
    /\ UNCHANGED <<told, typed, timer, asked>>

--------------------------------------------------------------------------------
\* What happens to his requests

\* The delayed request is made, if a search differs from the filters it was made with.
FireTimer ==
    /\ timer.due
    /\ timer' = NoTimer
    /\ IF Page.base = "local" THEN Ask(Base(told), TRUE)
       ELSE IF \E c \in Delayed : told[c] # timer.seen[c]
       THEN Ask([c \in Controls |-> IF c \in Delayed THEN told[c] ELSE timer.seen[c]], TRUE)
       ELSE UNCHANGED visit
    /\ UNCHANGED <<list, applied, told, typed, asked, muddle, steps>>

\* A list that stays keeps what its controls say; the queue of orders takes the search over
\* when the answer brings another.
Answer ==
    /\ visit # NoVisit
    /\ visit' = NoVisit
    /\ applied' = visit.query
    /\ IF visit.stays
       THEN LET now == IF list = "orders" /\ applied.search # visit.query.search
                       THEN [told EXCEPT !.search = visit.query.search] ELSE told
            IN  /\ told' = now
                /\ timer' = IF now # told THEN [due |-> TRUE, seen |-> visit.query] ELSE timer
                /\ UNCHANGED <<typed, asked, muddle>>
       ELSE /\ told' = visit.query /\ asked' = visit.query
            /\ typed' = {} /\ timer' = NoTimer /\ muddle' = {}
    /\ UNCHANGED <<list, steps>>

\* The request or its answer is lost.
Lose ==
    /\ visit # NoVisit
    /\ visit' = NoVisit
    /\ muddle' = muddle \cup {"lost"}
    /\ UNCHANGED <<list, applied, told, typed, timer, asked, steps>>

Next ==
    \/ \E c \in Controls : Type(c) \/ Choose(c)
    \/ Submit \/ Reset \/ Turn \/ FireTimer \/ Answer \/ Lose

Spec == Init /\ [][Next]_vars

--------------------------------------------------------------------------------
\* Properties

\* The controls are on or off, and only texts of the page wait to be asked for.
ListTypeOK ==
    /\ list \in Lists
    /\ applied \in [Controls -> 0..1] /\ told \in [Controls -> 0..1] /\ asked \in [Controls -> 0..1]
    /\ typed \subseteq OfKind({"typed", "erasable"})
    /\ visit # NoVisit => visit.query \in [Controls -> 0..1]
    /\ timer.due => Delayed # {}
    /\ muddle \subseteq {"hurry", "lost", "reset", "left out"}

AtRest == visit = NoVisit /\ ~timer.due

ListIsAsAsked ==
    AtRest => \A c \in Controls \ typed : Shown(told, c) = applied[c] /\ applied[c] = asked[c]

\* A list at rest is narrowed by what its controls say, which is what was asked for, while
\* nothing of muddle has happened since it was built.  A list that starts from its controls
\* may meet texts, choices, resets, page links, delays and answers in any order; one that
\* starts from its filters only one request at a time, for there two that overlap can lose
\* what was asked (Hurried).
ControlsTellTheList == muddle = {} => ListIsAsAsked
================================================================================
