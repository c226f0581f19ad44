------------------------------- MODULE Handlers ------------------------------
(***************************************************************************)
(* How the pages of the demonstration front end are written down.  Every   *)
(* handler of theirs is a list of awaits:                                  *)
(*                                                                         *)
(*    setFlag(true); try { await ...; setX(...); ... }                     *)
(*    catch { log } finally { setFlag(false) }                             *)
(*                                                                         *)
(* A step names the operations awaited together and what is done with      *)
(* their answers.  A failure at any step ends the handler: it lowers the   *)
(* flags it has raised and leaves the rest as it was.                      *)
(***************************************************************************)
EXTENDS Sequences

CONSTANT None

(* Steps *)

\* A step raises flags, awaits operations and does something with their answers.
Step(kind, flags, ops) == [kind |-> kind, ops |-> ops, raises |-> flags, optional |-> FALSE]

\* The answer is not shown, or only in a notice.
Await(flags, ops) == Step("await", flags, ops)

Timer == Await({}, {})

\* setReport(answer).
Show(flags, ops) == Step("show", flags, ops)

\* setReport(answer) for a brand or a site the user has picked.
Pick(flags, ops) == Step("pick", flags, ops)

\* setReport(answer) for the platform's own brand, whichever is chosen.
ShowOwn(flags, ops) == Step("own", flags, ops)

\* setReport({...report, ...}) over the report of the render the handler began in.
Mark(flags, ops) == Step("mark", flags, ops)

\* The answer goes to a state variable of its own, or into a functional update.
Fill(flags, ops) == Step("fill", flags, ops)

\* A step that is taken or not, depending on the answer before it.
Perhaps(step) == [kind |-> step.kind, ops |-> step.ops, raises |-> step.raises, optional |-> TRUE]

(* Handlers: `await other()` adds the other one's steps. *)

Handler(steps) == [steps |-> steps, clears |-> {}, after |-> "none"]

\* A handler that ends by starting another one without awaiting it.
Then(steps, next) == [steps |-> steps, clears |-> {}, after |-> next]

\* A handler that also lowers flags it has not raised.
Clearing(steps, flags) == [steps |-> steps, clears |-> flags, after |-> "none"]

(* Views: which buttons a page has, the flags that disable each, those that *)
(* are there without a report, and when a spinner takes the page's place.   *)

View(hides, flag, buttons, bare, trusts) ==
  [hides |-> hides, flag |-> flag, buttons |-> buttons, bare |-> bare, trusts |-> trusts]

\* No spinner.
Open(buttons, bare) == View("never", "none", buttons, bare, FALSE)

\* if (loading && !report) return <Spinner/>
FirstBehind(flag, buttons, bare) == View("first", flag, buttons, bare, FALSE)

\* The same, and then the report is read without looking: `report!`.
TrustingBehind(flag, buttons) == View("first", flag, buttons, {}, TRUE)

\* if (loading || !report) return <Spinner/>
Behind(flag, buttons) == View("empty", flag, buttons, {}, FALSE)

(* Pages: the loads its effects begin when it is mounted, when its brand changes *)
(* and when it has a new report, and what its state is before that.             *)

PageRecord(handlers, view, mount, brand, reported, flags, report) ==
  [handlers |-> handlers, view |-> view, mount |-> mount, brand |-> brand,
   reported |-> reported, flags |-> flags, report |-> report]

\* A page that loads when it is mounted and whenever its brand changes.
Page(handlers, view, load, flags) ==
  PageRecord(handlers, view, load, load, "none", flags, None)

\* A page whose effect has no dependencies.
MountedPage(handlers, view, load, flags) ==
  PageRecord(handlers, view, load, "none", "none", flags, None)

\* A page with an effect on its report besides.
ReportPage(handlers, view, load, reported, flags) ==
  PageRecord(handlers, view, load, load, reported, flags, None)

\* A page that begins with sample data.
SamplePage(handlers, view, load, sample) ==
  PageRecord(handlers, view, load, "none", "none", {}, sample)

\* A page without requests of its own.
StillPage == MountedPage(<<>>, Open(<<>>, {}), "none", {})
=============================================================================
