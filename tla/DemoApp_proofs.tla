--------------------------- MODULE DemoApp_proofs ---------------------------
(***************************************************************************)
(* Proofs about the demonstration front end, for any tabs, brands and      *)
(* number of suspended handlers.  Of its pages only the rules of           *)
(* DemoPages_proofs are used.                                              *)
(***************************************************************************)
EXTENDS DemoPages_proofs

(* Parts of the invariant: of suspended handlers cs, flags fl and a report *)
(* r while tab t shows brand b.                                            *)

\* A suspended handler is at one of its steps; one of the page belongs to it.
CallOK(c, t) ==
  /\ c.step \in DOMAIN HandlerOf(c).steps
  /\ c.owner = "app" => c.name \in AppHandlers
  /\ c.owner = "page" =>
       c.tab = t /\ c.name \in DOMAIN PageOf(t).handlers /\ c.brand \in Brands

CallsOK(cs, t) ==
  /\ cs \in [Ids -> CallRecords \cup {None}]
  /\ \A i \in Ids : cs[i] # None => CallOK(cs[i], t)

PageFlags(t) ==
  LET handlers == PageOf(t).handlers
  IN OpeningFlags(t) \cup
       UNION {UNION {h.steps[k].raises : k \in DOMAIN h.steps} :
                h \in {handlers[n] : n \in DOMAIN handlers}}

\* Every flag is lowered by a handler that is still suspended.
Held(fl, cs) == \A f \in fl : \E i \in Ids : cs[i] # None /\ f \in Lowers(cs[i])

OfPage(c) == c # None /\ c.owner = "page"

\* c is a load of the page at its first step.
Loads(c, t) == OfPage(c) /\ c.name = PageOf(t).mount /\ c.step = 1

\* A page without a report waits for one; if it trusts its report, it does nothing
\* else, behind its spinner.
Awake(cs, fl, r, t) ==
  r = None =>
    /\ \E i \in Ids : Loads(cs[i], t)
    /\ PageOf(t).view.trusts =>
         PageOf(t).view.flag \in fl /\ \A i \in Ids : OfPage(cs[i]) => Loads(cs[i], t)

Current(r, b) == r \in {b, "picked"}

\* A page that follows the brand works for the one that is chosen only, and shows it
\* or waits for it.
Following(cs, r, b, t) ==
  /\ \A i \in Ids : OfPage(cs[i]) =>
       cs[i].brand = b /\ (cs[i].base # None => Current(cs[i].base, b))
  /\ Current(r, b) \/ \E i \in Ids : Loads(cs[i], t)

Runs(c, n) == OfPage(c) /\ c.name = n

\* A handler that a flag guards runs once at a time, and while it does the flags that
\* only it lowers are up.
Solo(cs, fl, t) ==
  \A n \in Guarded(PageOf(t)) :
    /\ \A i, j \in Ids : Runs(cs[i], n) /\ Runs(cs[j], n) => i = j
    /\ (\E i \in Ids : Runs(cs[i], n)) => OwnFlags(PageOf(t), n) \subseteq fl

\* What the properties of the demonstration rest on.
DemoIInv ==
  /\ tab \in VisitedTabs /\ activeBrand \in Brands /\ dashboard \in Dashboards
  /\ report \in Reports \cup {None} /\ loadFailed \in BOOLEAN /\ crossed \in BOOLEAN
  /\ CallsOK(calls, tab)
  /\ flags \subseteq AppFlags \cup PageFlags(tab)
  /\ Held(flags, calls)
  /\ Solo(calls, flags, tab)
  /\ ~ loadFailed /\ PageOf(tab).mount # "none" => Awake(calls, flags, report, tab)
  /\ ~ loadFailed /\ ~ crossed /\ PageOf(tab).brand # "none" =>
       Following(calls, report, activeBrand, tab)

(* Handlers *)

\* The application's handlers raise its flags only, and begin its handlers only.
LEMMA AppHandlersOK ==
  ASSUME NEW name \in AppHandlers
  PROVE  LET h == AppHandler(name) IN
         /\ Len(h.steps) \in Nat \ {0} /\ DOMAIN h.steps = 1..Len(h.steps)
         /\ \A k \in DOMAIN h.steps : h.steps[k].raises \subseteq AppFlags
         /\ h.clears = {}
         /\ h.after \in {"none"} \cup AppHandlers
<1> USE DEF Handler, Then, Await, Timer, Step, AppFlags
<1>1. CASE name = "handleBrandChange"
  BY <1>1 DEF AppHandler, BrandChange
<1>2. CASE name = "hydrate"
  BY <1>2 DEF AppHandler, Hydration
<1>3. CASE name = "refreshOperationsData"
  BY <1>3 DEF AppHandler, OperationsRefresh
<1>4. CASE name = "handleTriggerAudit"
  BY <1>4 DEF AppHandler, SimulatedAudit
<1>5. CASE name = "handleConfirmPublish"
  BY <1>5 DEF AppHandler, ConfirmPublish
<1>6. CASE name = "leftBehind"
  BY <1>6 DEF AppHandler, LeftBehind, AppHandlers
<1> QED
  BY <1>1, <1>2, <1>3, <1>4, <1>5, <1>6 DEF AppHandlers

\* A page's handlers, as the rules have them.
LEMMA PageHandlersOK ==
  ASSUME NEW t, NEW n \in DOMAIN PageOf(t).handlers
  PROVE  LET h == PageOf(t).handlers[n] IN
         /\ n \notin AppHandlers
         /\ Len(h.steps) \in Nat \ {0} /\ DOMAIN h.steps = 1..Len(h.steps)
         /\ \A k \in DOMAIN h.steps : h.steps[k].raises \cap AppFlags = {}
         /\ h.clears \cap AppFlags = {}
         /\ h.after \in {"none"} \cup DOMAIN PageOf(t).handlers \cup AppHandlers
         /\ h.after \in AppHandlers => Len(h.steps) = 2
BY EveryPageOK DEF PageOK, NamesOK, HandlerOK, StepsOK

\* What holds of every suspended handler.
LEMMA CallFacts ==
  ASSUME NEW t, NEW c \in CallRecords, CallOK(c, t)
  PROVE  /\ Len(HandlerOf(c).steps) \in Nat \ {0}
         /\ DOMAIN HandlerOf(c).steps = 1..Len(HandlerOf(c).steps)
         /\ c.step \in 1..Len(HandlerOf(c).steps)
         /\ c.owner = "app" => Lowers(c) \subseteq AppFlags
         /\ c.owner = "page" => Lowers(c) \cap AppFlags = {} /\ Raised(c) \subseteq PageFlags(t)
<1> DEFINE h == HandlerOf(c)
<1>1. CASE c.owner = "app"
  <2>1. h = AppHandler(c.name) /\ c.name \in AppHandlers
    BY <1>1 DEF HandlerOf, CallOK
  <2>2. c.step \in DOMAIN h.steps
    BY DEF CallOK
  <2> HIDE DEF h
  <2>3. /\ Len(h.steps) \in Nat \ {0} /\ DOMAIN h.steps = 1..Len(h.steps)
        /\ \A k \in DOMAIN h.steps : h.steps[k].raises \subseteq AppFlags
        /\ h.clears = {}
    BY <2>1, AppHandlersOK
  <2>4. \A k \in 1..c.step : h.steps[k].raises \subseteq AppFlags
    BY <2>2, <2>3
  <2>5. Lowers(c) \subseteq AppFlags
    BY <2>3, <2>4 DEF Lowers, Raised, h
  <2> QED
    BY <1>1, <2>2, <2>3, <2>5 DEF h
<1>2. CASE c.owner = "page"
  <2>1. h = PageOf(t).handlers[c.name] /\ c.name \in DOMAIN PageOf(t).handlers
    BY <1>2 DEF HandlerOf, CallOK
  <2>2. c.step \in DOMAIN h.steps
    BY DEF CallOK
  <2> HIDE DEF h
  <2>3. /\ Len(h.steps) \in Nat \ {0} /\ DOMAIN h.steps = 1..Len(h.steps)
        /\ \A k \in DOMAIN h.steps : h.steps[k].raises \cap AppFlags = {}
        /\ h.clears \cap AppFlags = {}
    BY <2>1, PageHandlersOK
  <2>4. \A k \in 1..c.step : k \in DOMAIN h.steps
    BY <2>2, <2>3
  <2>5. Lowers(c) \cap AppFlags = {}
    BY <2>3, <2>4 DEF Lowers, Raised, h
  <2>6. Raised(c) \subseteq PageFlags(t)
    BY <2>1, <2>4 DEF Raised, PageFlags, h
  <2> QED
    BY <1>2, <2>2, <2>3, <2>5, <2>6 DEF h
<1> QED
  BY <1>1, <1>2 DEF CallRecords

(* Suspended handlers *)

\* A handler of the application that begins.
LEMMA NewAppCall ==
  ASSUME NEW name \in AppHandlers, NEW b \in Brands \cup {"all"}
  PROVE  /\ AppCall(name, b) \in CallRecords /\ AppCall(name, b) # None
         /\ AppCall(name, b).owner = "app" /\ AppCall(name, b).step = 1
         /\ \A t : CallOK(AppCall(name, b), t)
         /\ Raised(AppCall(name, b)) = AppHandler(name).steps[1].raises
<1> DEFINE c == AppCall(name, b)
<1>1. /\ c.owner = "app" /\ c.name = name /\ c.step = 1
      /\ c \in CallRecords
  BY DEF AppCall, CallRecords, CallNames
<1> HIDE DEF c
<1>2. HandlerOf(c) = AppHandler(name)
  BY <1>1 DEF HandlerOf
<1>3. /\ DOMAIN HandlerOf(c).steps = 1..Len(HandlerOf(c).steps)
      /\ Len(HandlerOf(c).steps) \in Nat \ {0}
  BY <1>2, AppHandlersOK
<1>4. \A t : CallOK(c, t)
  BY <1>1, <1>3 DEF CallOK
<1>5. Raised(c) = AppHandler(name).steps[1].raises
  BY <1>1, <1>2 DEF Raised
<1>6. c # None
  BY <1>1, NoneAssumption
<1> QED
  BY <1>1, <1>4, <1>5, <1>6 DEF c

\* A handler of the page that begins.
LEMMA NewPageCall ==
  ASSUME NEW t \in VisitedTabs, NEW name \in DOMAIN PageOf(t).handlers, NEW b \in Brands,
         NEW r \in Reports \cup {None}
  PROVE  LET c == PageCall(name, t, b, r)
             first == PageOf(t).handlers[name].steps[1] IN
         /\ c \in CallRecords /\ CallOK(c, t) /\ OfPage(c)
         /\ c.name = name /\ c.step = 1 /\ c.brand = b
         /\ c.base # None => c.base = r /\ first.kind = "mark"
         /\ Raised(c) = first.raises /\ first.raises \subseteq Lowers(c)
         /\ PageOf(t).handlers[name].clears \subseteq Lowers(c)
         /\ first.raises \subseteq PageFlags(t)
<1> DEFINE c == PageCall(name, t, b, r)
           first == PageOf(t).handlers[name].steps[1]
<1>1. /\ c.owner = "page" /\ c.name = name /\ c.step = 1 /\ c.tab = t
      /\ c.brand = b /\ c.base \in Reports \cup {None}
      /\ c.base # None => c.base = r /\ first.kind = "mark"
  BY DEF PageCall
<1>2. c \in CallRecords
  <2>1. name \in CallNames
    BY DEF CallNames
  <2> QED
    BY <1>1, <2>1 DEF PageCall, CallRecords
<1> HIDE DEF c
<1>3. HandlerOf(c) = PageOf(t).handlers[name]
  BY <1>1 DEF HandlerOf
<1>4. /\ DOMAIN HandlerOf(c).steps = 1..Len(HandlerOf(c).steps)
      /\ Len(HandlerOf(c).steps) \in Nat \ {0}
  BY <1>3, PageHandlersOK
<1>5. CallOK(c, t)
  BY <1>1, <1>3, <1>4 DEF CallOK
<1>6. Raised(c) = first.raises
  BY <1>1, <1>3 DEF Raised
<1>7. OfPage(c)
  BY <1>1, <1>2, NoneAssumption DEF OfPage
<1>8. Raised(c) \subseteq PageFlags(t)
  BY <1>1, <1>2, <1>5, CallFacts
<1>9. first.raises \subseteq Lowers(c) /\ HandlerOf(c).clears \subseteq Lowers(c)
  BY <1>6 DEF Lowers
<1> QED
  BY <1>1, <1>2, <1>3, <1>5, <1>6, <1>7, <1>8, <1>9 DEF c

\* What a handler of the page calls is its own or the application's.
LEMMA NamesOfCalls ==
  ASSUME NEW t, NEW name, NEW b, NEW r
  PROVE  /\ name \in AppHandlers => Call(name, t, b, r) = AppCall(name, b)
         /\ name \in DOMAIN PageOf(t).handlers => Call(name, t, b, r) = PageCall(name, t, b, r)
BY PageHandlersOK DEF Call

\* A handler that goes on to its next step keeps what it is and the flags it raised.
LEMMA NextStep ==
  ASSUME NEW t, NEW c \in CallRecords, CallOK(c, t), c.step < Len(HandlerOf(c).steps)
  PROVE  LET next == [c EXCEPT !.step = @ + 1] IN
         /\ next \in CallRecords /\ CallOK(next, t) /\ next # None
         /\ next.owner = c.owner /\ next.name = c.name
         /\ next.brand = c.brand /\ next.base = c.base
         /\ Lowers(c) \subseteq Lowers(next) /\ CurrentStep(next).raises \subseteq Raised(next)
<1> DEFINE next == [c EXCEPT !.step = @ + 1]
           steps == HandlerOf(c).steps
<1>1. /\ c.step \in 1..Len(steps) /\ DOMAIN steps = 1..Len(steps) /\ Len(steps) \in Nat
  BY CallFacts
<1>2. /\ next \in CallRecords
      /\ next.owner = c.owner /\ next.brand = c.brand /\ next.base = c.base /\ next.name = c.name
      /\ next.tab = c.tab /\ next.step = c.step + 1
  BY <1>1 DEF CallRecords
<1> HIDE DEF next
<1>3. HandlerOf(next) = HandlerOf(c)
  BY <1>2 DEF HandlerOf
<1>4. c.step + 1 \in DOMAIN steps /\ next.step \in 1..next.step
  BY <1>1, <1>2
<1>5. CallOK(next, t)
  BY <1>2, <1>3, <1>4 DEF CallOK
<1>6. Raised(c) \subseteq Raised(next) /\ CurrentStep(next).raises \subseteq Raised(next)
  BY <1>1, <1>2, <1>3, <1>4 DEF Raised, CurrentStep
<1>7. Lowers(c) \subseteq Lowers(next)
  BY <1>3, <1>6 DEF Lowers
<1> QED
  BY <1>2, <1>5, <1>6, <1>7, NoneAssumption DEF next

(* The table of suspended handlers *)

\* A handler that begins takes a place that is free.
LEMMA WithFree ==
  ASSUME NEW cs, NEW c, Free(cs) # {}
  PROVE  \E i \in Ids : cs[i] = None /\ With(cs, c) = [cs EXCEPT ![i] = c]
<1>1. (CHOOSE i \in Free(cs) : TRUE) \in Free(cs)
  OBVIOUS
<1> QED
  BY <1>1 DEF With, Free

LEMMA WithCallsOK ==
  ASSUME NEW t, NEW cs, CallsOK(cs, t), NEW c \in CallRecords, CallOK(c, t)
  PROVE  CallsOK(With(cs, c), t)
BY DEF CallsOK, With

LEMMA WithHeld ==
  ASSUME NEW t, NEW cs, CallsOK(cs, t), Free(cs) # {}, NEW c, c # None,
         NEW fl, Held(fl, cs), NEW more, more \subseteq Lowers(c)
  PROVE  Held(fl \cup more, With(cs, c))
<1>1. PICK i \in Ids : cs[i] = None /\ With(cs, c) = [cs EXCEPT ![i] = c]
  BY WithFree
<1>2. cs \in [Ids -> CallRecords \cup {None}]
  BY DEF CallsOK
<1>3. With(cs, c)[i] = c /\ \A j \in Ids : cs[j] # None => With(cs, c)[j] = cs[j]
  BY <1>1, <1>2
<1> QED
  BY <1>3 DEF Held

\* A page's own flags are none of the application's.
LEMMA OwnFlagsApart ==
  ASSUME NEW t, NEW n \in Guarded(PageOf(t))
  PROVE  /\ OwnFlags(PageOf(t), n) # {}
         /\ OwnFlags(PageOf(t), n) \cap AppFlags = {}
         /\ n \in DOMAIN PageOf(t).handlers /\ n \notin Started(PageOf(t))
<1>1. n \in DOMAIN PageOf(t).handlers /\ n \notin Started(PageOf(t))
  BY DEF Guarded
<1>2. PageOf(t).handlers[n].steps[1].raises \cap AppFlags = {}
  <2>1. 1 \in DOMAIN PageOf(t).handlers[n].steps
    BY <1>1, PageHandlersOK
  <2> QED
    BY <1>1, <2>1, PageHandlersOK
<1>3. OwnFlags(PageOf(t), n) # {}
  BY EveryPageOK DEF PageOK, GuardsOK
<1> QED
  BY <1>1, <1>2, <1>3 DEF OwnFlags

\* What the application's handlers do among themselves and with their flags does not
\* matter to the page.
LEMMA SamePages ==
  ASSUME NEW t, NEW cs, NEW ds, NEW fl, NEW gl,
         \A i \in Ids : OfPage(cs[i]) \/ OfPage(ds[i]) => ds[i] = cs[i],
         fl \ AppFlags \subseteq gl
  PROVE  /\ Solo(cs, fl, t) => Solo(ds, gl, t)
         /\ \A r : Awake(cs, fl, r, t) => Awake(ds, gl, r, t)
         /\ \A r, b : Following(cs, r, b, t) => Following(ds, r, b, t)
<1>1. \A i \in Ids : /\ OfPage(ds[i]) => OfPage(cs[i]) /\ ds[i] = cs[i]
                     /\ OfPage(cs[i]) => ds[i] = cs[i]
  OBVIOUS
<1>2. \A i \in Ids : Loads(cs[i], t) => Loads(ds[i], t)
  BY <1>1 DEF Loads
<1>3. Solo(cs, fl, t) => Solo(ds, gl, t)
  <2> SUFFICES ASSUME Solo(cs, fl, t), NEW n \in Guarded(PageOf(t))
               PROVE  /\ \A i, j \in Ids : Runs(ds[i], n) /\ Runs(ds[j], n) => i = j
                      /\ (\E i \in Ids : Runs(ds[i], n)) => OwnFlags(PageOf(t), n) \subseteq gl
    BY DEF Solo
  <2>1. \A i \in Ids : Runs(ds[i], n) => Runs(cs[i], n)
    BY <1>1 DEF Runs
  <2>2. OwnFlags(PageOf(t), n) \cap AppFlags = {}
    BY OwnFlagsApart
  <2> QED
    BY <2>1, <2>2 DEF Solo
<1>4. ASSUME NEW r, Awake(cs, fl, r, t)
      PROVE  Awake(ds, gl, r, t)
  <2> SUFFICES ASSUME r = None
               PROVE  /\ \E i \in Ids : Loads(ds[i], t)
                      /\ PageOf(t).view.trusts =>
                           /\ PageOf(t).view.flag \in gl
                           /\ \A i \in Ids : OfPage(ds[i]) => Loads(ds[i], t)
    BY DEF Awake
  <2>1. PageOf(t).view.trusts => PageOf(t).view.flag \notin AppFlags
    BY EveryPageOK DEF PageOK, ViewOK
  <2>2. \E i \in Ids : Loads(ds[i], t)
    BY <1>2, <1>4 DEF Awake
  <2>3. ASSUME PageOf(t).view.trusts
        PROVE  /\ PageOf(t).view.flag \in gl
               /\ \A i \in Ids : OfPage(ds[i]) => Loads(ds[i], t)
    BY <1>1, <1>2, <1>4, <2>1, <2>3 DEF Awake
  <2> QED
    BY <2>2, <2>3
<1>5. ASSUME NEW r, NEW b, Following(cs, r, b, t)
      PROVE  Following(ds, r, b, t)
  BY <1>1, <1>2, <1>5 DEF Following
<1> QED
  BY <1>3, <1>4, <1>5

\* The application's handler that begins takes a place that is free.
LEMMA WithSamePages ==
  ASSUME NEW t, NEW cs, CallsOK(cs, t), Free(cs) # {}, NEW c, c.owner = "app"
  PROVE  \A i \in Ids : OfPage(cs[i]) \/ OfPage(With(cs, c)[i]) => With(cs, c)[i] = cs[i]
<1>1. PICK i \in Ids : cs[i] = None /\ With(cs, c) = [cs EXCEPT ![i] = c]
  BY WithFree
<1>2. With(cs, c)[i] = c /\ \A j \in Ids : j # i => With(cs, c)[j] = cs[j]
  BY <1>1 DEF CallsOK
<1> QED
  BY <1>1, <1>2 DEF OfPage

\* The places of a table in which a handler of the page has begun.
LEMMA WithPlace ==
  ASSUME NEW t, NEW cs, CallsOK(cs, t), Free(cs) # {}, NEW c
  PROVE  \E i \in Ids : /\ cs[i] = None /\ With(cs, c)[i] = c
                        /\ \A j \in Ids : j # i => With(cs, c)[j] = cs[j]
<1>1. PICK i \in Ids : cs[i] = None /\ With(cs, c) = [cs EXCEPT ![i] = c]
  BY WithFree
<1> QED
  BY <1>1 DEF CallsOK

\* A load begins: it is none of the handlers that only a button begins.
LEMMA LoadBegins ==
  ASSUME NEW t, NEW cs, CallsOK(cs, t), Free(cs) # {}, NEW c, Loads(c, t),
         NEW fl, NEW gl, fl \subseteq gl, Solo(cs, fl, t)
  PROVE  /\ Solo(With(cs, c), gl, t)
         /\ \A r : Awake(cs, fl, r, t) => Awake(With(cs, c), gl, r, t)
<1>1. PICK i \in Ids : /\ cs[i] = None /\ With(cs, c)[i] = c
                       /\ \A j \in Ids : j # i => With(cs, c)[j] = cs[j]
  BY WithPlace
<1> DEFINE ds == With(cs, c)
<1> HIDE DEF ds
<1>2. ds[i] = c /\ \A j \in Ids : j # i => ds[j] = cs[j]
  BY <1>1 DEF ds
<1>3. Solo(ds, gl, t)
  <2> SUFFICES ASSUME NEW n \in Guarded(PageOf(t))
               PROVE  /\ \A j, k \in Ids : Runs(ds[j], n) /\ Runs(ds[k], n) => j = k
                      /\ (\E j \in Ids : Runs(ds[j], n)) => OwnFlags(PageOf(t), n) \subseteq gl
    BY DEF Solo
  <2>1. n # c.name
    BY OwnFlagsApart DEF Started, Loads
  <2>2. \A j \in Ids : Runs(ds[j], n) => Runs(cs[j], n)
    BY <1>2, <2>1 DEF Runs
  <2> QED
    BY <2>2 DEF Solo
<1>4. ASSUME NEW r, Awake(cs, fl, r, t)
      PROVE  Awake(ds, gl, r, t)
  <2>1. \A j \in Ids : OfPage(cs[j]) => ds[j] = cs[j]
    BY <1>1, <1>2 DEF OfPage
  <2>2. \A j \in Ids : Loads(cs[j], t) => Loads(ds[j], t)
    BY <2>1 DEF Loads
  <2>3. \A j \in Ids : OfPage(ds[j]) => OfPage(cs[j]) \/ Loads(ds[j], t)
    BY <1>2 DEF Loads
  <2> QED
    BY <1>4, <2>1, <2>2, <2>3 DEF Awake
<1> QED
  BY <1>3, <1>4 DEF ds

(* Mounting *)

\* When the page is left, the application's handlers go on, with what is left of
\* the page's that end in one of them, and none of the page's is under way.
LEMMA DetachedOK ==
  ASSUME DemoIInv, NEW t
  PROVE  /\ CallsOK(Detached, t)
         /\ \A i \in Ids : ~ OfPage(Detached[i])
         /\ Held(flags \cap AppFlags, Detached)
<1>1. ASSUME NEW i \in Ids, calls[i] # None, calls[i].owner = "app"
      PROVE  Detached[i] = calls[i] /\ Detached[i] \in CallRecords /\ CallOK(Detached[i], t)
             /\ ~ OfPage(Detached[i])
  <2>1. Detached[i] = calls[i]
    BY <1>1 DEF Detached, OnPage
  <2>2. calls[i] \in CallRecords /\ CallOK(calls[i], tab)
    BY <1>1 DEF DemoIInv, CallsOK
  <2>3. CallOK(calls[i], t)
    BY <1>1, <2>2 DEF CallOK
  <2> QED
    BY <1>1, <2>1, <2>2, <2>3 DEF OfPage
<1>2. ASSUME NEW i \in Ids, calls[i] # None, calls[i].owner = "page", Detached[i] # None
      PROVE  Detached[i] \in CallRecords /\ CallOK(Detached[i], t) /\ ~ OfPage(Detached[i])
  <2> DEFINE left == AppCall("leftBehind", activeBrand)
             c == [left EXCEPT !.step = calls[i].step]
  <2>1. Detached[i] = c /\ HandlerOf(calls[i]).after \in AppHandlers
    BY <1>2 DEF Detached, OnPage
  <2>2. calls[i] \in CallRecords /\ CallOK(calls[i], tab)
    BY <1>2 DEF DemoIInv, CallsOK
  <2>3. calls[i].step \in 1..2
    <3>1. HandlerOf(calls[i]) = PageOf(tab).handlers[calls[i].name]
          /\ calls[i].name \in DOMAIN PageOf(tab).handlers
      BY <1>2, <2>2 DEF HandlerOf, CallOK
    <3>2. Len(HandlerOf(calls[i]).steps) = 2
      BY <2>1, <3>1, PageHandlersOK
    <3> QED
      BY <2>2, <3>2, CallFacts
  <2>4. /\ left \in CallRecords /\ left.owner = "app" /\ left.name = "leftBehind"
    <3>1. "leftBehind" \in AppHandlers /\ activeBrand \in Brands \cup {"all"}
      BY DEF AppHandlers, DemoIInv
    <3> QED
      BY <3>1, NewAppCall DEF AppCall
  <2> HIDE DEF left
  <2>5. /\ c \in CallRecords /\ c.owner = "app" /\ c.name = "leftBehind"
        /\ c.step = calls[i].step
    BY <2>3, <2>4 DEF CallRecords
  <2> HIDE DEF c
  <2>6. DOMAIN HandlerOf(c).steps = 1..2 /\ "leftBehind" \in AppHandlers
    BY <2>5 DEF HandlerOf, AppHandler, LeftBehind, Then, AppHandlers
  <2>7. CallOK(c, t)
    BY <2>3, <2>5, <2>6 DEF CallOK
  <2> QED
    BY <2>1, <2>5, <2>7 DEF OfPage
<1>3. ASSUME NEW i \in Ids, calls[i] # None
      PROVE  calls[i].owner \in {"app", "page"}
  BY <1>3 DEF DemoIInv, CallsOK, CallRecords
<1>4. ASSUME NEW i \in Ids, calls[i] = None
      PROVE  Detached[i] = None
  BY <1>4 DEF Detached, OnPage
<1>5. ASSUME NEW i \in Ids, Detached[i] # None
      PROVE  Detached[i] \in CallRecords /\ CallOK(Detached[i], t) /\ ~ OfPage(Detached[i])
  BY <1>1, <1>2, <1>3, <1>4, <1>5
<1>6. Detached = [i \in Ids |-> Detached[i]]
  BY DEF Detached
<1>7. CallsOK(Detached, t)
  BY <1>5, <1>6 DEF CallsOK
<1>8. \A i \in Ids : ~ OfPage(Detached[i])
  BY <1>5 DEF OfPage
<1>9. ASSUME NEW f \in flags \cap AppFlags
      PROVE  \E i \in Ids : Detached[i] # None /\ f \in Lowers(Detached[i])
  <2>1. PICK i \in Ids : calls[i] # None /\ f \in Lowers(calls[i])
    BY <1>9 DEF DemoIInv, Held
  <2>2. calls[i] \in CallRecords /\ CallOK(calls[i], tab)
    BY <2>1 DEF DemoIInv, CallsOK
  <2>3. calls[i].owner = "app"
    BY <1>3, <1>9, <2>1, <2>2, CallFacts
  <2> QED
    BY <1>1, <2>1, <2>3
<1> QED
  BY <1>7, <1>8, <1>9 DEF Held

\* A page that is mounted, for whichever brand, starts as the invariant has it: if
\* The data set of a brand, and what is answered for one.
LEMMA DashboardOK ==
  ASSUME NEW b \in Brands \cup {"all"}
  PROVE  /\ Dashboard(b, "answer") \in Dashboards
         /\ b \in Brands => Dashboard(b, "benchmark") \in Dashboards
BY DEF Dashboard, Dashboards, Parts

\* A page that is mounted, for whichever brand, starts as the invariant has it: if
\* it loads, the load is under way and lowers the flags that are up.
LEMMA MountedOK ==
  ASSUME NEW t \in VisitedTabs, NEW b \in Brands, NEW cs, CallsOK(cs, t),
         \A i \in Ids : ~ OfPage(cs[i]), Held(flags \cap AppFlags, cs),
         Mounted(t, b, cs), activeBrand' = b, dashboard' \in Dashboards
  PROVE  DemoIInv'
<1> DEFINE page == PageOf(t)
<1>1. NamesOK(page) /\ ViewOK(page) /\ (page.mount # "none" => LoadOK(page))
  BY EveryPageOK DEF PageOK
<1>2. tab' = t /\ report' = page.report
  BY DEF Mounted
<1>3. loadFailed' \in BOOLEAN /\ crossed' \in BOOLEAN
  BY DEF Mounted
<1>4. report' \in Reports \cup {None}
  BY <1>1, <1>2 DEF ViewOK, Reports, SampleSettings
<1>5. \A fl : Solo(cs, fl, t)
  BY DEF Solo, Runs
<1>6. CASE page.mount = "none"
  <2>1. flags' = flags \cap AppFlags /\ calls' = cs
    BY <1>1, <1>6 DEF Mounted, ViewOK, OpeningFlags
  <2>2. page.brand = "none"
    BY <1>1, <1>6 DEF NamesOK
  <2> QED
    BY <1>2, <1>3, <1>4, <1>5, <1>6, <2>1, <2>2 DEF DemoIInv
<1>7. CASE page.mount # "none"
  <2> DEFINE load == page.mount
             c == PageCall(load, t, b, None)
             first == page.handlers[load].steps[1]
  <2>1. load \in DOMAIN page.handlers
    BY <1>1, <1>7 DEF NamesOK
  <2>2. /\ Free(cs) # {} /\ calls' = With(cs, c)
        /\ flags' = ((flags \cap AppFlags) \cup page.flags) \cup first.raises
    BY <1>7, <2>1, NamesOfCalls DEF Mounted, OpeningFlags
  <2>3. /\ c \in CallRecords /\ CallOK(c, t) /\ OfPage(c) /\ c.name = load /\ c.step = 1
        /\ c.brand = b /\ c.base = None
        /\ first.raises \subseteq Lowers(c) /\ page.handlers[load].clears \subseteq Lowers(c)
        /\ first.raises \subseteq PageFlags(t)
    BY <2>1, NewPageCall
  <2> HIDE DEF c
  <2>4. CallsOK(calls', t)
    BY <2>2, <2>3, WithCallsOK
  <2>5. Held(flags', calls')
    <3>1. page.flags \cup first.raises \subseteq Lowers(c)
      BY <1>1, <1>7, <2>3 DEF LoadOK
    <3>2. Held((flags \cap AppFlags) \cup (page.flags \cup first.raises), With(cs, c))
      BY <2>2, <2>3, <3>1, WithHeld DEF OfPage
    <3>3. flags' = (flags \cap AppFlags) \cup (page.flags \cup first.raises)
      BY <2>2
    <3> QED
      BY <2>2, <3>2, <3>3
  <2>6. flags' \subseteq AppFlags \cup PageFlags(t)
    BY <2>2, <2>3 DEF PageFlags, OpeningFlags
  <2>7. Solo(calls', flags', t)
    BY <1>5, <2>2, <2>3, LoadBegins DEF Loads
  <2>8. PICK i \in Ids : calls'[i] = c /\ \A j \in Ids : OfPage(calls'[j]) => j = i
    BY <2>2, WithPlace
  <2>9. Awake(calls', flags', report', t)
    BY <1>1, <2>2, <2>3, <2>8 DEF Awake, Loads, ViewOK
  <2>10. Following(calls', report', b, t)
    BY <2>3, <2>8 DEF Following, Loads
  <2> QED
    BY <1>2, <1>3, <1>4, <2>4, <2>5, <2>6, <2>7, <2>9, <2>10 DEF DemoIInv
<1> QED
  BY <1>6, <1>7

(* Answers *)

\* A load that is answered fills the page; and what a page that follows the brand
\* shows of an answer is of the brand that is chosen.
LEMMA ShownOK ==
  ASSUME DemoIInv, NEW i \in Ids, calls[i] # None, Shown(calls[i])
  PROVE  LET c == calls[i] IN
         /\ report' \in Reports \cup {None} /\ dashboard' \in Dashboards
         /\ ~ OfPage(c) => report' = report
         /\ OfPage(c) /\ PageOf(tab).mount # "none" /\ report' = None =>
              report = None /\ ~ Loads(c, tab)
         /\ OfPage(c) /\ PageOf(tab).brand # "none"
              /\ Following(calls, report, activeBrand, tab) =>
              Current(report', activeBrand) \/ (report' = report /\ ~ Loads(c, tab))
<1> DEFINE c == calls[i]
           step == CurrentStep(c)
           page == PageOf(tab)
<1>1. c \in CallRecords /\ CallOK(c, tab) /\ report \in Reports \cup {None}
  BY DEF DemoIInv, CallsOK
<1>2. dashboard' \in Dashboards
  <2>1. c.brand \in Brands \cup {"all"} /\ dashboard \in Dashboards
    BY <1>1 DEF CallRecords, DemoIInv
  <2> QED
    BY <2>1, DashboardOK DEF Shown
<1>3. CASE c.owner = "app"
  BY <1>1, <1>2, <1>3 DEF Shown, OfPage
<1>4. CASE c.owner = "page"
  <2> DEFINE h == page.handlers[c.name]
  <2>1. /\ c.name \in DOMAIN page.handlers /\ step = h.steps[c.step] /\ c.step \in DOMAIN h.steps
        /\ c.base \in Reports \cup {None} /\ c.brand \in Brands
    BY <1>1, <1>4 DEF HandlerOf, CallOK, CurrentStep, CallRecords
  <2>2. ReportBrand(c) \in Reports /\ InitialBrand \in Reports /\ "picked" \in Reports
    BY <2>1, DemoAssumption DEF ReportBrand, Reports
  <2>3. report' = CASE step.kind = "show" -> ReportBrand(c)
                    [] step.kind = "own" -> InitialBrand
                    [] step.kind = "pick" -> "picked"
                    [] step.kind = "mark" /\ c.base # None -> c.base
                    [] OTHER -> report
    BY <1>4 DEF Shown
  <2>4. page.mount # "none" /\ Loads(c, tab) => Displays(step)
    <3> SUFFICES ASSUME page.mount # "none", Loads(c, tab) PROVE Displays(step)
      OBVIOUS
    <3>1. LoadOK(page)
      BY EveryPageOK DEF PageOK
    <3> QED
      BY <2>1, <3>1 DEF LoadOK, Loads
  <2>5. page.brand # "none" => page.mount # "none" /\ OfBrand(step)
    <3> SUFFICES ASSUME page.brand # "none" PROVE page.mount # "none" /\ OfBrand(step)
      OBVIOUS
    <3>1. page.mount # "none"
      BY EveryPageOK DEF PageOK, NamesOK
    <3>2. LoadOK(page)
      BY <3>1, EveryPageOK DEF PageOK
    <3>3. HandlerOfBrand(h)
      BY <2>1, <3>2 DEF LoadOK
    <3> QED
      BY <2>1, <3>1, <3>3 DEF HandlerOfBrand
  <2>6. page.brand # "none" /\ Following(calls, report, activeBrand, tab) =>
          c.brand = activeBrand /\ (c.base # None => Current(c.base, activeBrand))
    BY <1>4 DEF Following, OfPage
  <2> HIDE DEF step
  <2>7. CASE step.kind = "show"
    <3>1. report' = ReportBrand(c)
      BY <2>3, <2>7
    <3>2. page.brand # "none" => ReportBrand(c) = c.brand
      BY <2>5, <2>7 DEF OfBrand, ReportBrand, step
    <3> QED
      BY <1>2, <1>4, <2>2, <2>6, <3>1, <3>2, NoneAssumption DEF Current, OfPage
  <2>8. CASE step.kind = "own"
    <3>1. report' = InitialBrand
      BY <2>3, <2>8
    <3>2. page.brand = "none"
      BY <2>5, <2>8 DEF OfBrand
    <3> QED
      BY <1>2, <1>4, <2>2, <3>1, <3>2, NoneAssumption DEF OfPage
  <2>9. CASE step.kind = "pick"
    <3>1. report' = "picked"
      BY <2>3, <2>9
    <3> QED
      BY <1>2, <1>4, <2>2, <3>1, NoneAssumption DEF Current, OfPage
  <2>10. CASE step.kind = "mark" /\ c.base # None
    <3>1. report' = c.base
      BY <2>3, <2>10
    <3> QED
      BY <1>2, <1>4, <2>1, <2>6, <2>10, <3>1 DEF OfPage
  <2>11. CASE ~ Displays(step) /\ ~ (step.kind = "mark" /\ c.base # None)
    <3>1. report' = report
      BY <2>3, <2>11 DEF Displays
    <3> QED
      BY <1>1, <1>2, <1>4, <2>4, <2>5, <2>11, <3>1 DEF OfPage
  <2> QED
    BY <2>7, <2>8, <2>9, <2>10, <2>11 DEF Displays
<1> QED
  BY <1>1, <1>3, <1>4 DEF CallRecords

\* A suspended handler gives way to another, or to none: flags that it lowered are
\* down, or lowered by what has come in its place.
LEMMA HeldAfter ==
  ASSUME DemoIInv, NEW i \in Ids, NEW next, NEW lowered, NEW more, NEW fl,
         lowered = Lowers(calls[i]) \/ (next # None /\ Lowers(calls[i]) \subseteq Lowers(next)),
         more = {} \/ (next # None /\ more \subseteq Lowers(next)),
         fl = (flags \ lowered) \cup more
  PROVE  Held(fl, [calls EXCEPT ![i] = next])
<1> DEFINE cs == [calls EXCEPT ![i] = next]
<1>1. cs[i] = next /\ \A j \in Ids : j # i => cs[j] = calls[j]
  BY DEF DemoIInv, CallsOK
<1> HIDE DEF cs
<1>2. ASSUME NEW f \in flags, f \notin lowered
      PROVE  \E j \in Ids : cs[j] # None /\ f \in Lowers(cs[j])
  <2>1. PICK j \in Ids : calls[j] # None /\ f \in Lowers(calls[j])
    BY <1>2 DEF DemoIInv, Held
  <2> QED
    BY <1>1, <1>2, <2>1
<1>3. ASSUME NEW f \in more
      PROVE  \E j \in Ids : cs[j] # None /\ f \in Lowers(cs[j])
  BY <1>1, <1>3
<1> QED
  BY <1>2, <1>3 DEF Held, cs

\* A page without a report waits as long as none of its loads comes to its end
\* without bringing one.
LEMMA AwakeAfter ==
  ASSUME DemoIInv, NEW i \in Ids, OfPage(calls[i]), NEW next, NEW fl, NEW r,
         r = None => report = None /\ ~ Loads(calls[i], tab),
         Awake(calls, flags, report, tab)
  PROVE  Awake([calls EXCEPT ![i] = next], fl, r, tab)
<1> SUFFICES ASSUME r = None
             PROVE  Awake([calls EXCEPT ![i] = next], fl, r, tab)
  BY DEF Awake
<1> DEFINE cs == [calls EXCEPT ![i] = next]
<1>1. \A j \in Ids : j # i => cs[j] = calls[j]
  BY DEF DemoIInv, CallsOK
<1> HIDE DEF cs
<1>2. ~ PageOf(tab).view.trusts
  BY DEF Awake
<1>3. \E j \in Ids : Loads(cs[j], tab)
  BY <1>1 DEF Awake
<1> QED
  BY <1>2, <1>3 DEF Awake, cs

\* A page goes on following the brand when one of its handlers gives way to another
\* for the same brand.
LEMMA FollowingAfter ==
  ASSUME DemoIInv, NEW i \in Ids, OfPage(calls[i]), NEW next, NEW r, NEW b,
         OfPage(next) => next.brand = calls[i].brand /\ next.base \in {None, calls[i].base},
         Current(r, b) \/ (r = report /\ ~ Loads(calls[i], tab)),
         Following(calls, report, b, tab)
  PROVE  Following([calls EXCEPT ![i] = next], r, b, tab)
<1> DEFINE cs == [calls EXCEPT ![i] = next]
<1>1. cs[i] = next /\ \A j \in Ids : j # i => cs[j] = calls[j]
  BY DEF DemoIInv, CallsOK
<1> HIDE DEF cs
<1>2. ASSUME NEW j \in Ids, OfPage(cs[j])
      PROVE  cs[j].brand = b /\ (cs[j].base # None => Current(cs[j].base, b))
  BY <1>1, <1>2 DEF Following
<1>3. Current(r, b) \/ \E j \in Ids : Loads(cs[j], tab)
  BY <1>1 DEF Following
<1> QED
  BY <1>2, <1>3 DEF Following, cs

\* The flags a handler of the page lowers are none of another's own.
LEMMA LowersApart ==
  ASSUME NEW t, NEW c \in CallRecords, CallOK(c, t), OfPage(c),
         NEW n \in Guarded(PageOf(t)), n # c.name
  PROVE  OwnFlags(PageOf(t), n) \cap Lowers(c) = {}
<1> DEFINE h == PageOf(t).handlers[c.name]
<1>1. /\ HandlerOf(c) = h /\ c.name \in DOMAIN PageOf(t).handlers
      /\ \A k \in 1..c.step : k \in DOMAIN h.steps
  BY CallFacts DEF HandlerOf, CallOK, OfPage
<1> HIDE DEF h
<1>2. \A f \in Lowers(c) : Touches(h, f)
  BY <1>1 DEF Lowers, Raised, Touches
<1> QED
  BY <1>1, <1>2 DEF OwnFlags, h

\* A handler of the page goes on to its next step, or ends and lowers its flags.
LEMMA SoloAfter ==
  ASSUME DemoIInv, NEW i \in Ids, OfPage(calls[i]), NEW next, NEW fl,
         \/ next.name = calls[i].name /\ flags \subseteq fl
         \/ /\ OfPage(next) => next.name \in Started(PageOf(tab))
            /\ flags \ Lowers(calls[i]) \subseteq fl
  PROVE  Solo([calls EXCEPT ![i] = next], fl, tab)
<1> DEFINE cs == [calls EXCEPT ![i] = next]
<1>1. /\ cs[i] = next /\ \A j \in Ids : j # i => cs[j] = calls[j]
      /\ calls[i] \in CallRecords /\ CallOK(calls[i], tab)
  BY DEF DemoIInv, CallsOK, OfPage
<1> HIDE DEF cs
<1> SUFFICES ASSUME NEW n \in Guarded(PageOf(tab))
             PROVE  /\ \A j, k \in Ids : Runs(cs[j], n) /\ Runs(cs[k], n) => j = k
                    /\ (\E j \in Ids : Runs(cs[j], n)) => OwnFlags(PageOf(tab), n) \subseteq fl
  BY DEF Solo, cs
<1>2. /\ \A j, k \in Ids : Runs(calls[j], n) /\ Runs(calls[k], n) => j = k
      /\ (\E j \in Ids : Runs(calls[j], n)) => OwnFlags(PageOf(tab), n) \subseteq flags
  BY DEF DemoIInv, Solo
<1>3. CASE next.name = calls[i].name /\ flags \subseteq fl
  <2>1. \A j \in Ids : Runs(cs[j], n) => Runs(calls[j], n)
    BY <1>1, <1>3 DEF Runs
  <2> QED
    BY <1>2, <1>3, <2>1
<1>4. CASE /\ OfPage(next) => next.name \in Started(PageOf(tab))
           /\ flags \ Lowers(calls[i]) \subseteq fl
  <2>1. n \notin Started(PageOf(tab))
    BY OwnFlagsApart
  <2>2. \A j \in Ids : Runs(cs[j], n) => j # i /\ Runs(calls[j], n)
    BY <1>1, <1>4, <2>1 DEF Runs
  <2>3. ASSUME NEW j \in Ids, Runs(cs[j], n)
        PROVE  OwnFlags(PageOf(tab), n) \subseteq fl
    <3>1. j # i /\ Runs(calls[j], n)
      BY <2>2, <2>3
    <3>2. calls[i].name # n
      BY <1>2, <3>1 DEF Runs
    <3>3. OwnFlags(PageOf(tab), n) \cap Lowers(calls[i]) = {}
      BY <1>1, <3>2, LowersApart
    <3> QED
      BY <1>2, <1>4, <3>1, <3>3
  <2> QED
    BY <1>2, <2>2, <2>3
<1> QED
  BY <1>3, <1>4

(* Brands *)

\* The effect of a render with another brand: the load it begins is of that brand.
LEMMA BrandEffectOK ==
  ASSUME DemoIInv, NEW b \in Brands, NEW cs, CallsOK(cs, tab), Held(flags, cs),
         Solo(cs, flags, tab),
         Awake(calls, flags, report, tab) => Awake(cs, flags, report, tab),
         Following(calls, report, activeBrand, tab) => Following(cs, report, activeBrand, tab),
         \A i \in Ids : OfPage(cs[i]) => OfPage(calls[i]),
         BrandEffect(b, cs), tab' = tab, activeBrand' = b, dashboard' \in Dashboards
  PROVE  DemoIInv'
<1> DEFINE page == PageOf(tab)
           load == page.brand
<1>1. NamesOK(page)
  BY EveryPageOK DEF PageOK
<1>2. CASE load = "none" \/ b = activeBrand
  <2>1. calls' = cs /\ UNCHANGED <<flags, report, loadFailed, crossed>>
    BY <1>2 DEF BrandEffect, LoadsOnBrand, CurrentPage, pageVars
  <2>2. loadFailed' \in BOOLEAN /\ crossed' \in BOOLEAN
    BY <2>1 DEF DemoIInv
  <2>3. ~ loadFailed' /\ page.mount # "none" => Awake(cs, flags, report, tab)
    BY <2>1 DEF DemoIInv
  <2>4. ~ loadFailed' /\ ~ crossed' /\ page.brand # "none" => Following(cs, report, b, tab)
    BY <1>2, <2>1 DEF DemoIInv
  <2> QED
    BY <2>1, <2>2, <2>3, <2>4 DEF DemoIInv
<1>3. CASE load # "none" /\ b # activeBrand
  <2> DEFINE c == PageCall(load, tab, b, None)
             first == page.handlers[load].steps[1]
  <2>1. load = page.mount /\ load \in DOMAIN page.handlers
    BY <1>1, <1>3 DEF NamesOK
  <2>2. /\ Free(cs) # {} /\ calls' = With(cs, c) /\ flags' = flags \cup first.raises
        /\ UNCHANGED <<report, loadFailed>>
    BY <1>3, <2>1, NamesOfCalls DEF BrandEffect, LoadsOnBrand, CurrentPage
  <2>3. crossed' = (crossed \/ \E i \in Ids : OnPage(i))
    BY <1>3 DEF BrandEffect, LoadsOnBrand, CurrentPage
  <2>4. /\ c \in CallRecords /\ CallOK(c, tab) /\ OfPage(c) /\ c.name = load /\ c.step = 1
        /\ c.brand = b /\ c.base = None
        /\ first.raises \subseteq Lowers(c) /\ first.raises \subseteq PageFlags(tab)
    <3>1. tab \in VisitedTabs
      BY DEF DemoIInv
    <3> QED
      BY <2>1, <3>1, NewPageCall
  <2> HIDE DEF c
  <2>5. CallsOK(calls', tab)
    BY <2>2, <2>4, WithCallsOK
  <2>6. Held(flags', calls')
    BY <2>2, <2>4, WithHeld DEF OfPage
  <2>7. Loads(c, tab)
    BY <2>1, <2>4 DEF Loads
  <2>8. Solo(calls', flags', tab) /\ (Awake(cs, flags, report, tab) =>
                                        Awake(calls', flags', report, tab))
    BY <2>2, <2>7, LoadBegins
  <2>9. ASSUME ~ crossed'
        PROVE  Following(calls', report, b, tab)
    <3>1. \A i \in Ids : ~ OfPage(cs[i])
      BY <2>3, <2>9 DEF OnPage, OfPage
    <3>2. PICK i \in Ids : calls'[i] = c /\ \A j \in Ids : j # i => calls'[j] = cs[j]
      BY <2>2, WithPlace
    <3> QED
      BY <2>4, <2>7, <3>1, <3>2 DEF Following
  <2>10. crossed' \in BOOLEAN /\ loadFailed' \in BOOLEAN
    BY <2>2, <2>3 DEF DemoIInv
  <2>11. ~ loadFailed' /\ page.mount # "none" => Awake(calls', flags', report, tab)
    BY <2>2, <2>8 DEF DemoIInv
  <2>12. flags' \subseteq AppFlags \cup PageFlags(tab)
    BY <2>2, <2>4 DEF DemoIInv
  <2> QED
    BY <2>2, <2>5, <2>6, <2>8, <2>9, <2>10, <2>11, <2>12 DEF DemoIInv
<1> QED
  BY <1>2, <1>3

(* Steps *)

\* A handler of the application begins, and may raise flags it lowers.
LEMMA BeginAppOK ==
  ASSUME DemoIInv, Free(calls) # {}, NEW name \in AppHandlers, NEW b \in Brands
  PROVE  LET cs == With(calls, AppCall(name, b))
             raised == AppHandler(name).steps[1].raises IN
         /\ CallsOK(cs, tab)
         /\ \A i \in Ids : OfPage(cs[i]) => OfPage(calls[i])
         /\ flags \cup raised \subseteq AppFlags \cup PageFlags(tab)
         /\ \A fl \in {flags, flags \cup raised} :
              /\ Held(fl, cs) /\ Solo(cs, fl, tab)
              /\ Awake(calls, flags, report, tab) => Awake(cs, fl, report, tab)
              /\ Following(calls, report, activeBrand, tab) =>
                   Following(cs, report, activeBrand, tab)
<1> DEFINE c == AppCall(name, b)
           raised == AppHandler(name).steps[1].raises
           cs == With(calls, c)
<1>1. /\ c \in CallRecords /\ CallOK(c, tab) /\ c # None /\ c.owner = "app"
      /\ Raised(c) = raised
  BY NewAppCall
<1>2. raised \subseteq AppFlags
  BY AppHandlersOK
<1>3. raised \subseteq Lowers(c)
  BY <1>1 DEF Lowers
<1> HIDE DEF c, raised
<1>4. /\ CallsOK(calls, tab) /\ Held(flags, calls) /\ Solo(calls, flags, tab)
      /\ flags \subseteq AppFlags \cup PageFlags(tab)
  BY DEF DemoIInv
<1>5. CallsOK(cs, tab)
  BY <1>1, <1>4, WithCallsOK
<1>6. Held(flags, cs) /\ Held(flags \cup raised, cs)
  <2>1. Held(flags \cup {}, cs) /\ Held(flags \cup raised, cs)
    BY <1>1, <1>3, <1>4, WithHeld
  <2> QED
    BY <2>1 DEF Held
<1>7. \A i \in Ids : OfPage(calls[i]) \/ OfPage(cs[i]) => cs[i] = calls[i]
  BY <1>1, <1>4, WithSamePages
<1> HIDE DEF cs
<1>8. ASSUME NEW fl \in {flags, flags \cup raised}
      PROVE  /\ Held(fl, cs) /\ Solo(cs, fl, tab)
             /\ Awake(calls, flags, report, tab) => Awake(cs, fl, report, tab)
             /\ Following(calls, report, activeBrand, tab) =>
                  Following(cs, report, activeBrand, tab)
  <2>1. flags \ AppFlags \subseteq fl
    OBVIOUS
  <2>2. Solo(cs, fl, tab)
    BY <1>4, <1>7, <2>1, SamePages
  <2>3. Awake(calls, flags, report, tab) => Awake(cs, fl, report, tab)
    BY <1>7, <2>1, SamePages
  <2>4. Following(calls, report, activeBrand, tab) =>
          Following(cs, report, activeBrand, tab)
    BY <1>7, <2>1, SamePages
  <2> QED
    BY <1>6, <2>2, <2>3, <2>4
<1> QED
  BY <1>2, <1>4, <1>5, <1>7, <1>8 DEF c, raised, cs

LEMMA SelectTabOK ==
  ASSUME DemoIInv, NEW t \in Tabs, SelectTab(t)
  PROVE  DemoIInv'
<1>1. t \in VisitedTabs
  BY DEF VisitedTabs
<1>2. /\ Mounted(t, activeBrand, Detached) /\ activeBrand' = activeBrand /\ activeBrand \in Brands
      /\ dashboard' \in Dashboards
  BY DEF SelectTab, appVars, DemoIInv
<1> QED
  BY <1>1, <1>2, DetachedOK, MountedOK

LEMMA ChangeBrandOK ==
  ASSUME DemoIInv, NEW b \in Brands, ChangeBrand(b)
  PROVE  DemoIInv'
<1> DEFINE cs == With(calls, AppCall("handleBrandChange", b))
<1>1. "handleBrandChange" \in AppHandlers
  BY DEF AppHandlers
<1>2. /\ CallsOK(cs, tab) /\ Held(flags, cs) /\ Solo(cs, flags, tab)
      /\ Awake(calls, flags, report, tab) => Awake(cs, flags, report, tab)
      /\ Following(calls, report, activeBrand, tab) =>
           Following(cs, report, activeBrand, tab)
      /\ \A i \in Ids : OfPage(cs[i]) => OfPage(calls[i])
  BY <1>1, BeginAppOK DEF ChangeBrand
<1>3. BrandEffect(b, cs) /\ tab' = tab /\ activeBrand' = b /\ dashboard' \in Dashboards
  BY DashboardOK DEF ChangeBrand
<1> HIDE DEF cs
<1> QED
  BY <1>2, <1>3, BrandEffectOK

LEMMA SwitchBrandOK ==
  ASSUME DemoIInv, NEW b \in Brands, SwitchBrand(b)
  PROVE  DemoIInv'
BY BrandEffectOK DEF SwitchBrand, DemoIInv

LEMMA PromoteBrandOK ==
  ASSUME DemoIInv, NEW b \in Brands, PromoteBrand(b)
  PROVE  DemoIInv'
<1> DEFINE c == AppCall("handleBrandChange", b)
           cs == With(Detached, c)
<1>1. "handleBrandChange" \in AppHandlers /\ "overview" \in VisitedTabs
  BY DEF AppHandlers, VisitedTabs
<1>2. c \in CallRecords /\ CallOK(c, "overview") /\ c # None /\ c.owner = "app"
  BY <1>1, NewAppCall
<1>3. /\ CallsOK(Detached, "overview") /\ Held(flags \cap AppFlags, Detached)
      /\ \A i \in Ids : ~ OfPage(Detached[i])
  BY DetachedOK
<1>4. /\ Free(Detached) # {} /\ Mounted("overview", b, cs) /\ activeBrand' = b
      /\ dashboard' \in Dashboards
  BY DashboardOK DEF PromoteBrand
<1> HIDE DEF c
<1>5. CallsOK(cs, "overview")
  BY <1>2, <1>3, WithCallsOK
<1>6. Held(flags \cap AppFlags, cs)
  <2>1. Held((flags \cap AppFlags) \cup {}, cs)
    BY <1>2, <1>3, <1>4, WithHeld
  <2> QED
    BY <2>1 DEF Held
<1>7. \A i \in Ids : ~ OfPage(cs[i])
  BY <1>2, <1>3, <1>4, WithSamePages
<1> QED
  BY <1>1, <1>4, <1>5, <1>6, <1>7, MountedOK

LEMMA TriggerAuditOK ==
  ASSUME DemoIInv, TriggerAudit
  PROVE  DemoIInv'
<1>1. "handleTriggerAudit" \in AppHandlers /\ activeBrand \in Brands
  BY DEF AppHandlers, DemoIInv
<1>2. AppHandler("handleTriggerAudit").steps[1].raises = {"isAuditing"}
  BY DEF AppHandler, SimulatedAudit, Handler, Await, Step
<1>3. /\ calls' = With(calls, AppCall("handleTriggerAudit", activeBrand))
      /\ flags' = flags \cup {"isAuditing"}
      /\ UNCHANGED <<tab, activeBrand, dashboard, report, loadFailed, crossed>>
      /\ Free(calls) # {}
  BY DEF TriggerAudit, appVars
<1>4. /\ CallsOK(calls', tab) /\ Held(flags', calls') /\ Solo(calls', flags', tab)
      /\ flags' \subseteq AppFlags \cup PageFlags(tab)
      /\ Awake(calls, flags, report, tab) => Awake(calls', flags', report, tab)
      /\ Following(calls, report, activeBrand, tab) =>
           Following(calls', report, activeBrand, tab)
  BY <1>1, <1>2, <1>3, BeginAppOK
<1> QED
  BY <1>3, <1>4 DEF DemoIInv

LEMMA PublishOK ==
  ASSUME DemoIInv, Publish
  PROVE  DemoIInv'
<1>1. "handleConfirmPublish" \in AppHandlers /\ activeBrand \in Brands
  BY DEF AppHandlers, DemoIInv
<1>2. /\ calls' = With(calls, AppCall("handleConfirmPublish", activeBrand))
      /\ UNCHANGED <<tab, activeBrand, dashboard, flags, report, loadFailed, crossed>>
      /\ Free(calls) # {}
  BY DEF Publish, appVars, pageVars
<1>3. /\ CallsOK(calls', tab) /\ Held(flags, calls') /\ Solo(calls', flags, tab)
      /\ Awake(calls, flags, report, tab) => Awake(calls', flags, report, tab)
      /\ Following(calls, report, activeBrand, tab) =>
           Following(calls', report, activeBrand, tab)
  BY <1>1, <1>2, BeginAppOK
<1> QED
  BY <1>2, <1>3 DEF DemoIInv

\* A button of the page is pressed: a guarded handler does not run yet, since a flag
\* of its own would be up.
LEMMA ClickOK ==
  ASSUME DemoIInv, NEW name \in DOMAIN CurrentPage.view.buttons, Click(name)
  PROVE  DemoIInv'
<1> DEFINE c == Call(name, tab, activeBrand, report)
           page == PageOf(tab)
<1>1. NamesOK(page) /\ ViewOK(page)
  BY EveryPageOK DEF PageOK
<1>2. name \in AppHandlers \/ name \in DOMAIN page.handlers
  BY <1>1 DEF NamesOK, CurrentPage
<1>3. /\ Free(calls) # {} /\ calls' = With(calls, c) /\ flags' = flags \cup Raised(c)
      /\ UNCHANGED <<tab, activeBrand, dashboard, report, loadFailed>>
  BY DEF Click, appVars
<1>4. crossed' = (crossed \/ Outdated(c))
  BY DEF Click
<1>5. crossed' \in BOOLEAN
  BY <1>4 DEF DemoIInv
<1>6. ~ crossed' => ~ crossed /\ ~ Outdated(c)
  BY <1>4
<1>7. /\ activeBrand \in Brands /\ tab \in VisitedTabs /\ report \in Reports \cup {None}
      /\ CallsOK(calls, tab) /\ Held(flags, calls)
  BY DEF DemoIInv
<1>8. CASE name \in AppHandlers
  <2>1. c = AppCall(name, activeBrand)
    BY <1>8, NamesOfCalls
  <2>2. Raised(c) = AppHandler(name).steps[1].raises
    BY <1>7, <1>8, <2>1, NewAppCall
  <2>3. /\ CallsOK(calls', tab) /\ Held(flags', calls') /\ Solo(calls', flags', tab)
        /\ flags' \subseteq AppFlags \cup PageFlags(tab)
        /\ Awake(calls, flags, report, tab) => Awake(calls', flags', report, tab)
        /\ Following(calls, report, activeBrand, tab) =>
             Following(calls', report, activeBrand, tab)
    BY <1>3, <1>7, <1>8, <2>1, <2>2, BeginAppOK
  <2> QED
    BY <1>3, <1>5, <1>6, <2>3 DEF DemoIInv
<1>9. CASE name \in DOMAIN page.handlers
  <2> DEFINE first == page.handlers[name].steps[1]
  <2>1. c = PageCall(name, tab, activeBrand, report)
    BY <1>9, NamesOfCalls
  <2>2. /\ c \in CallRecords /\ CallOK(c, tab) /\ OfPage(c) /\ c.brand = activeBrand
        /\ c.name = name /\ (c.base # None => c.base = report)
        /\ Raised(c) = first.raises
        /\ Raised(c) \subseteq Lowers(c) /\ Raised(c) \subseteq PageFlags(tab)
    BY <1>7, <1>9, <2>1, NewPageCall
  <2> HIDE DEF c
  <2>3. CallsOK(calls', tab) /\ Held(flags', calls')
    BY <1>3, <1>7, <2>2, WithCallsOK, WithHeld DEF OfPage
  <2>4. PICK i \in Ids : /\ calls[i] = None /\ calls'[i] = c
                         /\ \A j \in Ids : j # i => calls'[j] = calls[j]
    BY <1>3, <1>7, WithPlace
  <2>5. ASSUME NEW n \in Guarded(page)
        PROVE  /\ \A j, k \in Ids : Runs(calls'[j], n) /\ Runs(calls'[k], n) => j = k
               /\ (\E j \in Ids : Runs(calls'[j], n)) => OwnFlags(page, n) \subseteq flags'
    <3>1. /\ \A j, k \in Ids : Runs(calls[j], n) /\ Runs(calls[k], n) => j = k
          /\ (\E j \in Ids : Runs(calls[j], n)) => OwnFlags(page, n) \subseteq flags
      BY DEF DemoIInv, Solo
    <3>2. CASE n = name
      <4>1. page.view.buttons[n] \cap flags = {}
        BY <3>2 DEF Click, Enabled, CurrentPage
      <4>2. OwnFlags(page, n) # {} /\ OwnFlags(page, n) \subseteq page.view.buttons[n]
        BY OwnFlagsApart DEF OwnFlags
      <4>3. \A j \in Ids : ~ Runs(calls[j], n)
        BY <3>1, <4>1, <4>2
      <4>4. OwnFlags(page, n) \subseteq Raised(c)
        BY <2>2, <3>2 DEF OwnFlags
      <4> QED
        BY <1>3, <2>4, <4>3, <4>4 DEF Runs
    <3>3. CASE n # name
      <4>1. \A j \in Ids : Runs(calls'[j], n) => Runs(calls[j], n)
        BY <2>2, <2>4, <3>3 DEF Runs
      <4> QED
        BY <1>3, <3>1, <4>1
    <3> QED
      BY <3>2, <3>3
  <2>6. Solo(calls', flags', tab)
    BY <2>5 DEF Solo
  <2>7. ASSUME Awake(calls, flags, report, tab)
        PROVE  Awake(calls', flags', report, tab)
    <3> SUFFICES ASSUME report = None PROVE Awake(calls', flags', report, tab)
      BY DEF Awake
    <3>1. ~ Spinner
      BY DEF Click
    <3>2. ~ page.view.trusts
      BY <1>1, <2>7, <3>1 DEF Awake, ViewOK, Spinner, CurrentPage
    <3>3. PICK j \in Ids : Loads(calls[j], tab)
      BY <2>7 DEF Awake
    <3>4. calls'[j] = calls[j]
      BY <2>4, <3>3 DEF Loads, OfPage
    <3> QED
      BY <3>2, <3>3, <3>4 DEF Awake
  <2>8. ASSUME Following(calls, report, activeBrand, tab), ~ Outdated(c), page.brand # "none"
        PROVE  Following(calls', report, activeBrand, tab)
    <3>1. c.base # None => Current(c.base, activeBrand)
      BY <2>8 DEF Outdated, Current, CurrentPage
    <3>2. ASSUME NEW j \in Ids, OfPage(calls'[j])
          PROVE  /\ calls'[j].brand = activeBrand
                 /\ calls'[j].base # None => Current(calls'[j].base, activeBrand)
      BY <2>2, <2>4, <2>8, <3>1, <3>2 DEF Following
    <3>3. \A j \in Ids : Loads(calls[j], tab) => calls'[j] = calls[j]
      BY <2>4 DEF Loads, OfPage
    <3>4. Current(report, activeBrand) \/ \E j \in Ids : Loads(calls'[j], tab)
      BY <2>8, <3>3 DEF Following
    <3> QED
      BY <3>2, <3>4 DEF Following
  <2>9. ~ loadFailed' /\ page.mount # "none" => Awake(calls', flags', report, tab)
    BY <1>3, <2>7 DEF DemoIInv
  <2>10. ~ loadFailed' /\ ~ crossed' /\ page.brand # "none" =>
           Following(calls', report, activeBrand, tab)
    BY <1>3, <1>6, <2>8 DEF DemoIInv
  <2>11. flags' \subseteq AppFlags \cup PageFlags(tab)
    BY <1>3, <2>2 DEF DemoIInv
  <2> QED
    BY <1>3, <1>5, <2>3, <2>6, <2>9, <2>10, <2>11 DEF DemoIInv
<1> QED
  BY <1>2, <1>8, <1>9

\* What a handler that ends begins: none of what it calls works on a report, nor is
\* begun by a button only.
LEMMA SuccessorsOK ==
  ASSUME DemoIInv, NEW i \in Ids, calls[i] # None, NEW next \in Successors(calls[i]), next # None
  PROVE  /\ next \in CallRecords /\ CallOK(next, tab)
         /\ Raised(next) \subseteq AppFlags \cup PageFlags(tab)
         /\ OfPage(next) => /\ OfPage(calls[i]) /\ next.brand = calls[i].brand
                            /\ next.base = None /\ next.name \in Started(PageOf(tab))
<1> DEFINE c == calls[i]
           h == HandlerOf(c)
           Harmless(d) ==
             /\ d \in CallRecords /\ CallOK(d, tab)
             /\ Raised(d) \subseteq AppFlags \cup PageFlags(tab)
             /\ OfPage(d) => /\ OfPage(c) /\ d.brand = c.brand
                             /\ d.base = None /\ d.name \in Started(PageOf(tab))
<1>1. c \in CallRecords /\ CallOK(c, tab) /\ report \in Reports \cup {None} /\ tab \in VisitedTabs
  BY DEF DemoIInv, CallsOK
<1>2. NamesOK(PageOf(tab))
  BY EveryPageOK DEF PageOK
<1>3. ASSUME NEW name \in AppHandlers, NEW b \in Brands \cup {"all"}, NEW t
      PROVE  Harmless(Call(name, t, b, report))
  <2>1. Call(name, t, b, report) = AppCall(name, b)
    BY <1>3, NamesOfCalls
  <2> QED
    BY <2>1, NewAppCall, AppHandlersOK DEF OfPage
<1>4. ASSUME c.owner = "page", NEW name \in DOMAIN PageOf(tab).handlers,
             PageOf(tab).handlers[name].steps[1].kind # "mark", name \in Started(PageOf(tab))
      PROVE  Harmless(Call(name, tab, c.brand, report))
  <2>1. Call(name, tab, c.brand, report) = PageCall(name, tab, c.brand, report)
    BY <1>4, NamesOfCalls
  <2>2. c.brand \in Brands
    BY <1>1, <1>4 DEF CallOK
  <2> QED
    BY <1>1, <1>4, <2>1, <2>2, NewPageCall DEF OfPage
<1> HIDE DEF Harmless
<1>5. CASE c.owner = "app"
  <2>1. h.after \in {"none"} \cup AppHandlers /\ c.brand \in Brands \cup {"all"}
    BY <1>1, <1>5, AppHandlersOK DEF HandlerOf, CallOK, CallRecords
  <2>2. h.after # "none" /\ next = Call(h.after, c.tab, c.brand, report)
    BY <1>5 DEF Successors
  <2> QED
    BY <1>3, <2>1, <2>2 DEF Harmless
<1>6. CASE c.owner = "page"
  <2>1. /\ h = PageOf(tab).handlers[c.name] /\ c.name \in DOMAIN PageOf(tab).handlers
        /\ c.tab = tab /\ c.brand \in Brands \cup {"all"}
    BY <1>1, <1>6 DEF HandlerOf, CallOK
  <2>2. CASE h.after # "none"
    <3>1. next = Call(h.after, tab, c.brand, report)
      BY <2>1, <2>2 DEF Successors
    <3>2. CASE h.after \in AppHandlers
      BY <1>3, <2>1, <3>1, <3>2 DEF Harmless
    <3>3. CASE h.after \in DOMAIN PageOf(tab).handlers
      <4>1. PageOf(tab).handlers[h.after].steps[1].kind # "mark"
        BY <1>2, <2>1, <3>3 DEF NamesOK
      <4>2. h.after \in Started(PageOf(tab))
        BY <2>1 DEF Started
      <4> QED
        BY <1>4, <1>6, <3>1, <3>3, <4>1, <4>2 DEF Harmless
    <3> QED
      BY <1>2, <2>1, <2>2, <3>2, <3>3 DEF NamesOK
  <2>3. CASE h.after = "none"
    <3>1. /\ PageOf(tab).reported # "none"
          /\ next = Call(PageOf(tab).reported, tab, c.brand, report)
      BY <2>3 DEF Successors, CurrentPage
    <3>2. /\ PageOf(tab).reported \in DOMAIN PageOf(tab).handlers
          /\ PageOf(tab).handlers[PageOf(tab).reported].steps[1].kind # "mark"
      BY <1>2, <3>1 DEF NamesOK
    <3>3. PageOf(tab).reported \in Started(PageOf(tab))
      BY DEF Started
    <3> QED
      BY <1>4, <1>6, <3>1, <3>2, <3>3 DEF Harmless
  <2> QED
    BY <2>2, <2>3
<1> QED
  BY <1>1, <1>5, <1>6 DEF CallRecords

\* A suspended handler gives way to another, or to none, and the rest of the page
\* stays as the invariant has it.
LEMMA GivesWay ==
  ASSUME DemoIInv, NEW i \in Ids, calls[i] # None, NEW next, NEW fl, NEW r,
         OfPage(next) => /\ OfPage(calls[i]) /\ next.brand = calls[i].brand
                         /\ next.base \in {None, calls[i].base},
         \/ next.name = calls[i].name /\ flags \subseteq fl
         \/ /\ OfPage(next) => next.name \in Started(PageOf(tab))
            /\ flags \ Lowers(calls[i]) \subseteq fl,
         ~ OfPage(calls[i]) => r = report
  PROVE  LET cs == [calls EXCEPT ![i] = next] IN
         /\ Solo(cs, fl, tab)
         /\ /\ OfPage(calls[i]) /\ r = None => report = None /\ ~ Loads(calls[i], tab)
            /\ Awake(calls, flags, report, tab)
            => Awake(cs, fl, r, tab)
         /\ \A b : /\ OfPage(calls[i]) =>
                        Current(r, b) \/ (r = report /\ ~ Loads(calls[i], tab))
                   /\ Following(calls, report, b, tab)
                   => Following(cs, r, b, tab)
<1> DEFINE cs == [calls EXCEPT ![i] = next]
<1>1. CASE OfPage(calls[i])
  <2>1. Solo(cs, fl, tab)
    BY <1>1, SoloAfter
  <2>2. ASSUME r = None => report = None /\ ~ Loads(calls[i], tab),
               Awake(calls, flags, report, tab)
        PROVE  Awake(cs, fl, r, tab)
    BY <1>1, <2>2, AwakeAfter
  <2>3. ASSUME NEW b, Current(r, b) \/ (r = report /\ ~ Loads(calls[i], tab)),
               Following(calls, report, b, tab)
        PROVE  Following(cs, r, b, tab)
    BY <1>1, <2>3, FollowingAfter
  <2> HIDE DEF cs
  <2> QED
    BY <1>1, <2>1, <2>2, <2>3 DEF cs
<1>2. CASE ~ OfPage(calls[i])
  <2>1. /\ cs[i] = next /\ \A j \in Ids : j # i => cs[j] = calls[j]
        /\ calls[i] \in CallRecords /\ CallOK(calls[i], tab)
    BY DEF DemoIInv, CallsOK
  <2> HIDE DEF cs
  <2>2. \A j \in Ids : OfPage(calls[j]) \/ OfPage(cs[j]) => cs[j] = calls[j]
    BY <1>2, <2>1
  <2>3. Lowers(calls[i]) \subseteq AppFlags
    BY <1>2, <2>1, CallFacts DEF OfPage, CallRecords
  <2>4. flags \ AppFlags \subseteq fl
    BY <2>3
  <2>5. /\ Solo(cs, fl, tab)
        /\ Awake(calls, flags, report, tab) => Awake(cs, fl, report, tab)
        /\ \A b : Following(calls, report, b, tab) => Following(cs, report, b, tab)
    <3>1. Solo(calls, flags, tab)
      BY DEF DemoIInv
    <3> QED
      BY <2>2, <2>4, <3>1, SamePages
  <2> QED
    BY <1>2, <2>5 DEF cs
<1> QED
  BY <1>1, <1>2

LEMMA StepAnsweredOK ==
  ASSUME DemoIInv, NEW i \in Ids, StepAnswered(i)
  PROVE  DemoIInv'
<1> DEFINE c == calls[i]
           next == [c EXCEPT !.step = @ + 1]
<1>1. /\ c # None /\ c.step < Len(HandlerOf(c).steps) /\ Shown(c)
      /\ calls' = [calls EXCEPT ![i] = next] /\ flags' = flags \cup CurrentStep(next).raises
      /\ UNCHANGED <<tab, activeBrand, loadFailed, crossed>>
  BY DEF StepAnswered
<1>2. c \in CallRecords /\ CallOK(c, tab)
  BY <1>1 DEF DemoIInv, CallsOK
<1>3. /\ next \in CallRecords /\ CallOK(next, tab) /\ next # None
      /\ next.owner = c.owner /\ next.name = c.name
      /\ next.brand = c.brand /\ next.base = c.base
      /\ Lowers(c) \subseteq Lowers(next) /\ CurrentStep(next).raises \subseteq Raised(next)
  BY <1>1, <1>2, NextStep
<1> HIDE DEF next
<1>4. CallsOK(calls', tab)
  BY <1>1, <1>3 DEF DemoIInv, CallsOK
<1>5. Held(flags', calls')
  <2>1. flags' = (flags \ Lowers(c)) \cup ((flags \cap Lowers(c)) \cup CurrentStep(next).raises)
    BY <1>1
  <2>2. (flags \cap Lowers(c)) \cup CurrentStep(next).raises \subseteq Lowers(next)
    BY <1>3 DEF Lowers
  <2> QED
    BY <1>1, <1>3, <2>1, <2>2, HeldAfter
<1>6. flags' \subseteq AppFlags \cup PageFlags(tab)
  <2>1. next.owner = "app" => Raised(next) \subseteq AppFlags
    BY <1>3, CallFacts DEF Lowers
  <2>2. next.owner = "page" => Raised(next) \subseteq PageFlags(tab)
    BY <1>3, CallFacts
  <2>3. next.owner \in {"app", "page"}
    BY <1>3 DEF CallRecords
  <2> QED
    BY <1>1, <1>3, <2>1, <2>2, <2>3 DEF DemoIInv
<1>7. /\ report' \in Reports \cup {None} /\ dashboard' \in Dashboards
      /\ ~ OfPage(c) => report' = report
      /\ OfPage(c) /\ PageOf(tab).mount # "none" /\ report' = None =>
           report = None /\ ~ Loads(c, tab)
      /\ OfPage(c) /\ PageOf(tab).brand # "none"
           /\ Following(calls, report, activeBrand, tab) =>
           Current(report', activeBrand) \/ (report' = report /\ ~ Loads(c, tab))
  BY <1>1, ShownOK
<1>8. OfPage(next) => OfPage(c) /\ next.brand = c.brand /\ next.base \in {None, c.base}
  BY <1>1, <1>3 DEF OfPage
<1>9. next.name = c.name /\ flags \subseteq flags'
  BY <1>1, <1>3
<1>10. /\ Solo(calls', flags', tab)
       /\ PageOf(tab).mount # "none" /\ Awake(calls, flags, report, tab) =>
            Awake(calls', flags', report', tab)
       /\ PageOf(tab).brand # "none" /\ Following(calls, report, activeBrand, tab) =>
            Following(calls', report', activeBrand, tab)
  BY <1>1, <1>7, <1>8, <1>9, GivesWay
<1> QED
  BY <1>1, <1>4, <1>5, <1>6, <1>7, <1>10 DEF DemoIInv

LEMMA HandlerDoneOK ==
  ASSUME DemoIInv, NEW i \in Ids, HandlerDone(i)
  PROVE  DemoIInv'
<1> DEFINE c == calls[i]
<1>1. PICK next \in Successors(c) :
        calls' = [calls EXCEPT ![i] = next] /\ flags' = FlagsAfter(c, next)
  BY DEF HandlerDone
<1> DEFINE more == IF next = None THEN {} ELSE Raised(next)
<1>2. /\ c # None /\ Shown(c) /\ flags' = (flags \ Lowers(c)) \cup more
      /\ UNCHANGED <<tab, activeBrand, loadFailed, crossed>>
  BY <1>1 DEF HandlerDone, FlagsAfter
<1>3. next # None =>
        /\ next \in CallRecords /\ CallOK(next, tab)
        /\ Raised(next) \subseteq AppFlags \cup PageFlags(tab)
        /\ OfPage(next) => /\ OfPage(c) /\ next.brand = c.brand
                           /\ next.base = None /\ next.name \in Started(PageOf(tab))
  BY <1>2, SuccessorsOK
<1>4. more = {} \/ (next # None /\ more \subseteq Lowers(next))
  BY DEF Lowers
<1>5. more \subseteq AppFlags \cup PageFlags(tab)
  BY <1>3
<1> HIDE DEF more
<1>6. CallsOK(calls', tab)
  BY <1>1, <1>3 DEF DemoIInv, CallsOK
<1>7. Held(flags', calls')
  BY <1>1, <1>2, <1>4, HeldAfter
<1>8. flags' \subseteq AppFlags \cup PageFlags(tab)
  BY <1>2, <1>5 DEF DemoIInv
<1>9. /\ report' \in Reports \cup {None} /\ dashboard' \in Dashboards
      /\ ~ OfPage(c) => report' = report
      /\ OfPage(c) /\ PageOf(tab).mount # "none" /\ report' = None =>
           report = None /\ ~ Loads(c, tab)
      /\ OfPage(c) /\ PageOf(tab).brand # "none"
           /\ Following(calls, report, activeBrand, tab) =>
           Current(report', activeBrand) \/ (report' = report /\ ~ Loads(c, tab))
  BY <1>2, ShownOK
<1>10. OfPage(next) => /\ OfPage(c) /\ next.brand = c.brand /\ next.base \in {None, c.base}
                       /\ next.name \in Started(PageOf(tab))
  BY <1>3 DEF OfPage
<1>11. flags \ Lowers(c) \subseteq flags'
  BY <1>2
<1>12. /\ Solo(calls', flags', tab)
       /\ PageOf(tab).mount # "none" /\ Awake(calls, flags, report, tab) =>
            Awake(calls', flags', report', tab)
       /\ PageOf(tab).brand # "none" /\ Following(calls, report, activeBrand, tab) =>
            Following(calls', report', activeBrand, tab)
  BY <1>1, <1>2, <1>9, <1>10, <1>11, GivesWay
<1> QED
  BY <1>2, <1>6, <1>7, <1>8, <1>9, <1>12 DEF DemoIInv

LEMMA HandlerFailedOK ==
  ASSUME DemoIInv, NEW i \in Ids, HandlerFailed(i)
  PROVE  DemoIInv'
<1> DEFINE c == calls[i]
<1>1. /\ c # None /\ calls' = [calls EXCEPT ![i] = None] /\ flags' = flags \ Lowers(c)
      /\ UNCHANGED <<tab, activeBrand, dashboard, report, crossed>>
  BY DEF HandlerFailed, LoweredOnFailure, appVars
<1>2. loadFailed' = (loadFailed \/ Loading(c))
  BY DEF HandlerFailed
<1>3. loadFailed' \in BOOLEAN /\ crossed' \in BOOLEAN
  BY <1>1, <1>2 DEF DemoIInv
<1>4. ~ loadFailed' => ~ loadFailed /\ ~ Loads(c, tab)
  BY <1>1, <1>2 DEF Loading, Loads, OfPage, CurrentPage
<1>5. CallsOK(calls', tab)
  BY <1>1 DEF DemoIInv, CallsOK
<1>6. Held(flags', calls')
  <2>1. flags' = (flags \ Lowers(c)) \cup {}
    BY <1>1
  <2> QED
    BY <1>1, <2>1, HeldAfter
<1>7. ~ OfPage(None) /\ flags \ Lowers(c) \subseteq flags'
  BY <1>1 DEF OfPage
<1>8. /\ Solo(calls', flags', tab)
      /\ ~ Loads(c, tab) /\ Awake(calls, flags, report, tab) =>
           Awake(calls', flags', report, tab)
      /\ ~ Loads(c, tab) /\ Following(calls, report, activeBrand, tab) =>
           Following(calls', report, activeBrand, tab)
  <2>1. /\ Solo(calls', flags', tab)
        /\ /\ OfPage(c) /\ report = None => report = None /\ ~ Loads(c, tab)
           /\ Awake(calls, flags, report, tab)
           => Awake(calls', flags', report, tab)
        /\ /\ OfPage(c) => Current(report, activeBrand) \/ (report = report /\ ~ Loads(c, tab))
           /\ Following(calls, report, activeBrand, tab)
           => Following(calls', report, activeBrand, tab)
    BY <1>1, <1>7, GivesWay
  <2> QED
    BY <2>1
<1>9. ~ loadFailed' /\ PageOf(tab).mount # "none" => Awake(calls', flags', report, tab)
  BY <1>4, <1>8 DEF DemoIInv
<1>10. ~ loadFailed' /\ ~ crossed' /\ PageOf(tab).brand # "none" =>
         Following(calls', report, activeBrand, tab)
  BY <1>1, <1>4, <1>8 DEF DemoIInv
<1>11. flags' \subseteq AppFlags \cup PageFlags(tab)
  BY <1>1 DEF DemoIInv
<1> QED
  BY <1>1, <1>3, <1>5, <1>6, <1>8, <1>9, <1>10, <1>11 DEF DemoIInv

(* The invariant *)

\* The application's two first handlers are under way, on the overview.
LEMMA BeginningOK ==
  LET none == [i \in Ids |-> None]
      first == With(none, AppCall("refreshOperationsData", InitialBrand))
      cs == With(first, AppCall("hydrate", InitialBrand)) IN
  CallsOK(cs, "overview") /\ Solo(cs, {}, "overview")
<1> DEFINE none == [i \in Ids |-> None]
           first == With(none, AppCall("refreshOperationsData", InitialBrand))
           cs == With(first, AppCall("hydrate", InitialBrand))
<1>1. {"refreshOperationsData", "hydrate"} \subseteq AppHandlers
      /\ InitialBrand \in Brands \cup {"all"}
  BY DemoAssumption DEF AppHandlers
<1>2. CallsOK(none, "overview") /\ \A i \in Ids : ~ OfPage(none[i])
  BY DEF CallsOK, OfPage
<1>3. /\ AppCall("refreshOperationsData", InitialBrand) \in CallRecords
      /\ CallOK(AppCall("refreshOperationsData", InitialBrand), "overview")
      /\ AppCall("refreshOperationsData", InitialBrand).owner = "app"
      /\ AppCall("hydrate", InitialBrand) \in CallRecords
      /\ CallOK(AppCall("hydrate", InitialBrand), "overview")
      /\ AppCall("hydrate", InitialBrand).owner = "app"
  BY <1>1, NewAppCall
<1>4. CallsOK(first, "overview") /\ CallsOK(cs, "overview")
  BY <1>2, <1>3, WithCallsOK
<1>5. \A i \in Ids : ~ OfPage(cs[i])
  <2>1. ASSUME NEW ds, CallsOK(ds, "overview"), \A i \in Ids : ~ OfPage(ds[i]),
               NEW c, c.owner = "app"
        PROVE  \A i \in Ids : ~ OfPage(With(ds, c)[i])
    BY <2>1 DEF With, CallsOK, OfPage
  <2> QED
    BY <1>2, <1>3, <1>4, <2>1
<1>6. Solo(cs, {}, "overview")
  BY <1>5 DEF Solo, Runs
<1> QED
  BY <1>4, <1>6

\* The overview asks for nothing.
LEMMA OverviewStill == PageOf("overview").mount = "none" /\ PageOf("overview").brand = "none"
BY DEF PageOf, StillPage, MountedPage, PageRecord

LEMMA InitOK == Init => DemoIInv
<1> SUFFICES ASSUME Init PROVE DemoIInv
  OBVIOUS
<1>1. CallsOK(calls, "overview") /\ Solo(calls, {}, "overview")
  BY BeginningOK DEF Init
<1>2. dashboard \in Dashboards
  BY DashboardOK, DemoAssumption DEF Init
<1>3. loadFailed \in BOOLEAN /\ crossed \in BOOLEAN
  BY DEF Init
<1> QED
  BY <1>1, <1>2, <1>3, DemoAssumption, OverviewStill DEF Init, DemoIInv, VisitedTabs, Held

LEMMA ReloadOK ==
  ASSUME DemoIInv, Reload
  PROVE  DemoIInv'
<1>1. CallsOK(calls', "overview") /\ Solo(calls', {}, "overview")
  BY BeginningOK DEF Reload
<1>2. dashboard' \in Dashboards
  BY DashboardOK, DemoAssumption DEF Reload
<1>3. loadFailed' \in BOOLEAN /\ crossed' \in BOOLEAN
  BY DEF Reload
<1> QED
  BY <1>1, <1>2, <1>3, DemoAssumption, OverviewStill DEF Reload, DemoIInv, VisitedTabs, Held

\* No step leaves the invariant.
LEMMA DemoIInvStep == DemoIInv /\ [Next]_vars => DemoIInv'
<1> SUFFICES ASSUME DemoIInv, [Next]_vars PROVE DemoIInv'
  OBVIOUS
<1>1. CASE Next
  BY <1>1, SelectTabOK, ChangeBrandOK, SwitchBrandOK, PromoteBrandOK, TriggerAuditOK, PublishOK,
     ClickOK, StepAnsweredOK, HandlerDoneOK, HandlerFailedOK, ReloadOK DEF Next
<1>2. CASE UNCHANGED vars
  BY <1>2 DEF vars, appVars, pageVars, DemoIInv
<1> QED
  BY <1>1, <1>2

\* The inductive invariant.
THEOREM DemoInvariant == Spec => []DemoIInv
<1>1. Init => DemoIInv
  BY InitOK
<1>2. DemoIInv /\ [Next]_vars => DemoIInv'
  BY DemoIInvStep
<1> QED
  BY <1>1, <1>2, PTL DEF Spec

\* Every variable keeps its type (App.tsx and the pages' useState).
THEOREM Typing == Spec => []TypeOK
<1>1. DemoIInv => TypeOK
  <2> SUFFICES ASSUME DemoIInv PROVE TypeOK
    OBVIOUS
  <2>1. flags \subseteq AppFlags \cup PageFlags(tab)
    BY DEF DemoIInv
  <2>2. \A i \in Ids : calls[i] # None =>
          /\ calls[i].owner = "page" => calls[i].tab = tab
          /\ calls[i].step \in DOMAIN HandlerOf(calls[i]).steps
    BY DEF DemoIInv, CallsOK, CallOK
  <2>3. calls \in [Ids -> CallRecords \cup {None}] /\ report \in Reports \cup {None}
    BY DEF DemoIInv, CallsOK
  <2>4. loadFailed \in BOOLEAN /\ crossed \in BOOLEAN
    BY DEF DemoIInv
  <2>5. tab \in VisitedTabs /\ activeBrand \in Brands /\ dashboard \in Dashboards
    BY DEF DemoIInv
  <2> QED
    BY <2>1, <2>2, <2>3, <2>4, <2>5 DEF TypeOK, PageFlags, CurrentPage
<1> QED
  BY <1>1, DemoInvariant, PTL

\* No flag is up that no suspended handler lowers (setLoading and its like).
THEOREM FlagsPending == Spec => []FlagsArePending
<1>1. DemoIInv => FlagsArePending
  BY DEF DemoIInv, Held, FlagsArePending
<1> QED
  BY <1>1, DemoInvariant, PTL

\* No handler that a flag guards is under way twice on the page that is mounted
\* (disabled={isDispatching} and its like, with finally { setIsDispatching(false) }).
THEOREM SubmittedAtMostOnce == Spec => []SubmittedOnce
<1>1. DemoIInv => SubmittedOnce
  BY DEF DemoIInv, Solo, Runs, OfPage, OnPage, SubmittedOnce, CurrentPage
<1> QED
  BY <1>1, DemoInvariant, PTL

\* A quiet page shows a report, and one that follows the brand shows that of the
\* brand that is chosen (the effects on activeBrand).
THEOREM QuietPages == Spec => []QuietPageIsCurrent
<1>1. DemoIInv => QuietPageIsCurrent
  BY DEF DemoIInv, Awake, Following, Current, Loads, OfPage, OnPage, QuietPageIsCurrent,
         CurrentPage
<1> QED
  BY <1>1, DemoInvariant, PTL

\* A page no load of which has failed is neither blank (report!) nor behind its
\* spinner for nothing (if (loading && !report)).
THEOREM PagesUp == Spec => []PageIsUp
<1>1. DemoIInv => PageIsUp
  <2> SUFFICES ASSUME DemoIInv, ~ loadFailed
               PROVE  ~ Blank /\ (Spinner => \E i \in Ids : OnPage(i))
    BY DEF PageIsUp
  <2> DEFINE v == PageOf(tab).view
  <2>1. ViewOK(PageOf(tab))
    BY EveryPageOK DEF PageOK
  <2>2. CASE PageOf(tab).mount = "none"
    <3>1. v.hides = "never" /\ ~ v.trusts
      BY <2>1, <2>2 DEF ViewOK
    <3> QED
      BY <3>1 DEF Blank, Spinner, CurrentPage
  <2>3. CASE PageOf(tab).mount # "none"
    <3>1. Awake(calls, flags, report, tab)
      BY <2>3 DEF DemoIInv
    <3>2. CASE report # None
      <4>1. ASSUME Spinner
            PROVE  \E i \in Ids : OnPage(i)
        <5>1. v.hides # "never" /\ v.flag \in flags /\ v.flag \notin AppFlags
          BY <2>1, <3>2, <4>1 DEF Spinner, ViewOK, CurrentPage
        <5>2. PICK i \in Ids : calls[i] # None /\ v.flag \in Lowers(calls[i])
          BY <5>1 DEF DemoIInv, Held
        <5>3. calls[i] \in CallRecords /\ CallOK(calls[i], tab)
          BY <5>2 DEF DemoIInv, CallsOK
        <5>4. calls[i].owner # "app"
          BY <5>1, <5>2, <5>3, CallFacts
        <5> QED
          BY <5>2, <5>3, <5>4 DEF OnPage, CallRecords
      <4> QED
        BY <3>2, <4>1 DEF Blank
    <3>3. CASE report = None
      BY <2>1, <3>1, <3>3 DEF Awake, Loads, OfPage, OnPage, Blank, Spinner, ViewOK, CurrentPage
    <3> QED
      BY <3>2, <3>3
  <2> QED
    BY <2>2, <2>3
<1> QED
  BY <1>1, DemoInvariant, PTL
=============================================================================
