------------------------------- MODULE Sessions -------------------------------
(***************************************************************************)
(* Recorded sessions: run_store.py, the recorder and the runs API of        *)
(* main.py, and useRuns.ts under the runs tab of analytics/page.tsx.        *)
(*                                                                         *)
(* A handler's awaits are threads that run one SQLite statement each (the   *)
(* connection commits every statement by itself); the active run lives in   *)
(* the bridge's memory.  The page polls the list and the selected run.      *)
(***************************************************************************)
EXTENDS Integers, FiniteSets, FiniteSetsExt

CONSTANTS
  MaxRuns,      \* bound: rows ever created
  NumRequests,  \* bound: buttons pressed
  MaxSamples,   \* bound: samples recorded
  MaxChoices,   \* bound: runs clicked in the list
  MaxRestarts,  \* bound: restarts of the bridge
  MaxEvents     \* bound: buttons, samples, clicks and restarts together

ASSUME SessionsAssumption ==
  /\ MaxRuns \in Nat \ {0} /\ NumRequests \in Nat
  /\ MaxSamples \in Nat /\ MaxRestarts \in Nat /\ MaxChoices \in Nat
  /\ MaxEvents \in Nat

Ids == 1 .. MaxRuns
NoRun == 0
Requests == 1 .. NumRequests

VARIABLES
  rows,       \* the runs table: what each id is and how many samples it has
  created,    \* the last id given out (AUTOINCREMENT)
  active,     \* _active_run_id, or NoRun
  picked,     \* the run the recorder is writing a sample for, or NoRun
  req,        \* the requests: [op, id, pc, sel], sel the selection when pressed
  pressed, samples, choices, restarts,
  crossed,    \* history: two requests were once under way together
  list,       \* what the page knows: [ids, active]
  lists,      \* the lists on their way to the page: [stage, ids, active]
  sel,        \* selectedId, or NoRun
  detail,     \* the run shown: [id, status, n], or Blank
  polling,    \* what the interval of useRunDetail captured: it asks again
  gets        \* the answers for a run's detail on their way, by slot

table == <<rows, created, active>>
page == <<list, lists, sel, detail, polling, gets>>
events == <<pressed, samples, choices, restarts>>
sessionsVars == <<table, picked, req, crossed, page, events>>

\* The n-th button pressed counts for n events.
EventsLeft(n) ==
  (pressed * (pressed + 1)) \div 2 + samples + choices + restarts + n <= MaxEvents

\* A row: "none" before it is created and after it is deleted.
Row(status, n) == [status |-> status, n |-> n]
OpenRuns == {i \in Ids : rows[i].status = "open"}
Existing == {i \in Ids : rows[i].status # "none"}

NoRequest == [op |-> "none", id |-> NoRun, pc |-> "idle", sel |-> NoRun]
Running == {r \in Requests : req[r].pc \notin {"idle", "answered", "listing", "done"}}
NoList == [stage |-> "none", ids |-> {}, active |-> NoRun]
Blank == [id |-> NoRun, status |-> "none", n |-> 0]
NoGet == [stage |-> "none", got |-> Blank]
Slots == {"timer", "late"}
ListSlots == 0 .. NumRequests   \* the list's timer, and a request's own refresh
NoLists == [s \in ListSlots |-> NoList]

\* lifespan(): every open run is ended and a new one started and made active.
SessionsInit ==
  /\ rows = [i \in Ids |-> IF i = 1 THEN Row("open", 0) ELSE Row("none", 0)]
  /\ created = 1 /\ active = 1 /\ picked = NoRun
  /\ req = [r \in Requests |-> NoRequest]
  /\ pressed = 0 /\ samples = 0 /\ choices = 0 /\ restarts = 0
  /\ crossed = FALSE
  /\ list = [ids |-> {}, active |-> NoRun] /\ lists = NoLists
  /\ sel = NoRun /\ detail = Blank /\ polling = FALSE
  /\ gets = [s \in Slots |-> NoGet]

-----------------------------------------------------------------------------
(* The table and the recorder                                                *)

EndAll(f) == [i \in Ids |-> IF f[i].status = "open" THEN Row("ended", f[i].n) ELSE f[i]]

\* _recorder_loop(): the active run is read, a thread writes the sample.
Record ==
  /\ EventsLeft(1) /\ samples < MaxSamples /\ picked = NoRun /\ active # NoRun
  /\ samples' = samples + 1
  /\ picked' = active
  /\ UNCHANGED <<table, req, pressed, choices, restarts, crossed, page>>

\* append_sample(): a row that is gone violates the foreign key, which is
\* swallowed; a run that ended meanwhile still gets the sample.
AppendSample ==
  /\ picked # NoRun
  /\ picked' = NoRun
  /\ rows' = [rows EXCEPT ![picked].n = IF rows[picked].status = "none" THEN @ ELSE @ + 1]
  /\ UNCHANGED <<created, active, req, crossed, page, events>>

\* The bridge ends, in whatever way, and comes up again: requests and the
\* recorder's thread are gone, and so are the answers to the page.  A request
\* that fails is over; where it had been answered, the answer or the refresh
\* after it may be lost too.
Restart ==
  /\ EventsLeft(1) /\ restarts < MaxRestarts /\ created < MaxRuns
  /\ restarts' = restarts + 1
  /\ rows' = [EndAll(rows) EXCEPT ![created + 1] = Row("open", 0)]
  /\ created' = created + 1 /\ active' = created + 1
  /\ picked' = NoRun
  /\ \E answered \in {"answered", "listing", "done"} :
       req' = [r \in Requests |->
                 [req[r] EXCEPT !.pc = IF r \in Running THEN "done"
                                       ELSE IF @ = "answered" THEN answered ELSE @]]
  /\ lists' = NoLists /\ gets' = [s \in Slots |-> NoGet]
  /\ UNCHANGED <<pressed, samples, choices, crossed, list, sel, detail, polling>>

-----------------------------------------------------------------------------
(* The runs API                                                              *)

ReqGoto(r, pc) == req' = [req EXCEPT ![r].pc = pc]
Answer(r) == ReqGoto(r, "answered")
Refuse(r) == ReqGoto(r, "done")
ReqAt(r, pc) == req[r].pc = pc /\ UNCHANGED <<picked, crossed, page, events>>

\* create_run(): UPDATE, then INSERT.
NewEndOthers(r) ==
  /\ ReqAt(r, "new")
  /\ rows' = EndAll(rows)
  /\ ReqGoto(r, "insert")
  /\ UNCHANGED <<created, active>>

NewInsert(r) ==
  /\ ReqAt(r, "insert")
  /\ created < MaxRuns
  /\ rows' = [rows EXCEPT ![created + 1] = Row("open", 0)]
  /\ created' = created + 1
  /\ req' = [req EXCEPT ![r].pc = "activate", ![r].id = created + 1]
  /\ UNCHANGED active

NewActivate(r) ==
  /\ ReqAt(r, "activate")
  /\ active' = req[r].id
  /\ Answer(r)
  /\ UNCHANGED <<rows, created>>

\* runs_end(): a run that is not open is answered with 404.
EndRow(r) ==
  /\ ReqAt(r, "end")
  /\ IF req[r].id \in OpenRuns
       THEN /\ rows' = [rows EXCEPT ![req[r].id].status = "ended"]
            /\ ReqGoto(r, "deactivate")
       ELSE Refuse(r) /\ UNCHANGED rows
  /\ UNCHANGED <<created, active>>

\* Mutant: the bridge keeps the run active.
EndDeactivate_Keep(r) ==
  /\ ReqAt(r, "deactivate")
  /\ Answer(r)
  /\ UNCHANGED <<rows, created, active>>

EndDeactivate(r) ==
  /\ ReqAt(r, "deactivate")
  /\ active' = IF active = req[r].id THEN NoRun ELSE active
  /\ Answer(r)
  /\ UNCHANGED <<rows, created>>

\* runs_delete(): 409 for the active run, decided before the thread deletes.
DeleteCheck(r) ==
  /\ ReqAt(r, "delete")
  /\ IF active = req[r].id THEN Refuse(r) ELSE ReqGoto(r, "remove")
  /\ UNCHANGED table

DeleteRow(r) ==
  /\ ReqAt(r, "remove")
  /\ rows' = [rows EXCEPT ![req[r].id] = Row("none", 0)]
  /\ IF req[r].id \in Existing THEN Answer(r) ELSE Refuse(r)
  /\ UNCHANGED <<created, active>>

Serve(r) ==
  \/ NewEndOthers(r) \/ NewInsert(r) \/ NewActivate(r)
  \/ EndRow(r) \/ EndDeactivate(r) \/ DeleteCheck(r) \/ DeleteRow(r)

-----------------------------------------------------------------------------
(* The page                                                                  *)

\* effectiveSelected: the run chosen while it is listed, else the active one,
\* else the newest.
Effective(s, l) ==
  IF s # NoRun /\ s \in l.ids THEN s
  ELSE IF l.active # NoRun THEN l.active
  ELSE IF l.ids # {} THEN Max(l.ids) ELSE NoRun

Selected == Effective(sel, list)

\* The effect on [runId]: ask for the run, and set an interval whose closure has
\* the detail shown at this moment, of whatever run it is.  Without a run the
\* detail is cleared.
Select(s, l, shown) ==
  LET id == Effective(s, l) IN
  IF id = Selected THEN UNCHANGED <<polling, gets>> /\ detail' = shown
  ELSE IF id = NoRun
    THEN /\ polling' = FALSE /\ detail' = Blank
         /\ gets["late"].stage = "none"
         /\ gets' = [gets EXCEPT !["late"] = gets["timer"], !["timer"] = NoGet]
    ELSE /\ polling' = (shown.status # "ended") /\ detail' = shown
         /\ gets["late"].stage = "none"
         /\ gets' = [gets EXCEPT !["late"] = gets["timer"],
                                 !["timer"] = [stage |-> "sent", got |-> [Blank EXCEPT !.id = id]]]

\* A run in the list is clicked.
Choose(id) ==
  /\ EventsLeft(1) /\ choices < MaxChoices /\ choices' = choices + 1
  /\ id \in list.ids /\ sel' = id /\ id # sel
  /\ Select(id, list, detail)
  /\ UNCHANGED <<table, picked, req, crossed, list, lists, pressed, samples, restarts>>

\* Start, end and delete; the last two on the selected run, which is drawn with
\* a stop button when it is the active one and with a bin when it is not.
\* Nothing disables a button while its request is under way.
PressRun(op) ==
  /\ EventsLeft(pressed + 1) /\ pressed < NumRequests /\ pressed' = pressed + 1
  /\ op # "new" => Selected \in list.ids
  /\ op = "end" => Selected = list.active
  /\ op = "delete" => Selected # list.active
  /\ req' = [req EXCEPT ![pressed + 1] =
               [op |-> op, id |-> IF op = "new" THEN NoRun ELSE Selected, pc |-> op, sel |-> sel]]
  /\ crossed' = (crossed \/ Running # {})
  /\ UNCHANGED <<table, picked, samples, choices, restarts, page>>

\* GET /api/runs, of the list's timer or after an answer (bound: one of those at
\* a time, and the timer's not started during it, only before): the rows in a
\* thread, then the active id.
ListRows(s) ==
  /\ lists[s].stage = "none"
  /\ s # 0 => req[s].pc = "answered" /\ \A t \in Requests : req[t].pc # "listing"
  /\ s = 0 => \A t \in Requests : req[t].pc \notin {"answered", "listing"}
  /\ lists' = [lists EXCEPT ![s] = [NoList EXCEPT !.stage = "rows", !.ids = Existing]]
  /\ IF s = 0 THEN UNCHANGED req ELSE ReqGoto(s, "listing")
  /\ UNCHANGED <<table, picked, crossed, list, sel, detail, polling, gets, events>>

ListActive(s) ==
  /\ lists[s].stage = "rows"
  /\ lists' = [lists EXCEPT ![s].stage = "answered", ![s].active = active]
  /\ UNCHANGED <<table, picked, req, crossed, list, sel, detail, polling, gets, events>>

\* refresh(): the list is replaced, and with it possibly the selected run.
ListShown(s) ==
  /\ lists[s].stage = "answered"
  /\ lists' = [lists EXCEPT ![s] = NoList]
  /\ list' = [ids |-> lists[s].ids, active |-> lists[s].active]
  /\ Select(sel, list', detail)
  /\ UNCHANGED <<table, picked, req, crossed, sel, events>>

\* onStartNew(), onEnd(), onDelete() after their refresh, which may have failed:
\* a new run is selected, and a deleted one that was selected at the press
\* clears the selection, whatever was selected meanwhile.
Finish(r) ==
  /\ req[r].pc = "listing" /\ lists[r].stage = "none"
  /\ ReqGoto(r, "done")
  /\ sel' = CASE req[r].op = "new" -> req[r].id
            [] req[r].op = "delete" /\ req[r].sel = req[r].id -> NoRun
            [] OTHER -> sel
  /\ Select(sel', list, detail)
  /\ UNCHANGED <<table, picked, crossed, list, lists, events>>

\* Mutant: the interval asks for the run that is shown.
Tick_Shown ==
  /\ polling /\ detail.id # NoRun
  /\ gets["timer"].stage = "none"
  /\ gets' = [gets EXCEPT !["timer"] = [stage |-> "sent", got |-> [Blank EXCEPT !.id = detail.id]]]
  /\ UNCHANGED <<table, picked, req, crossed, list, lists, sel, detail, polling, events>>

\* The interval of useRunDetail.
Tick ==
  /\ polling /\ Selected # NoRun
  /\ gets["timer"].stage = "none"
  /\ gets' = [gets EXCEPT !["timer"] = [stage |-> "sent", got |-> [Blank EXCEPT !.id = Selected]]]
  /\ UNCHANGED <<table, picked, req, crossed, list, lists, sel, detail, polling, events>>

\* GET /api/runs/{id} and its samples; a run that is gone is answered with 404,
\* which leaves the detail as it is.
GetDetail(s) ==
  /\ gets[s].stage = "sent"
  /\ LET id == gets[s].got.id IN
       gets' = [gets EXCEPT ![s] =
                  IF id \in Existing
                  THEN [stage |-> "answered",
                        got |-> [id |-> id, status |-> rows[id].status, n |-> rows[id].n]]
                  ELSE NoGet]
  /\ UNCHANGED <<table, picked, req, crossed, list, lists, sel, detail, polling, events>>

\* refresh(): the answer is shown, for whatever run it was asked.
ShowDetail(s) ==
  /\ gets[s].stage = "answered"
  /\ detail' = gets[s].got
  /\ gets' = [gets EXCEPT ![s] = NoGet]
  /\ UNCHANGED <<table, picked, req, crossed, list, lists, sel, polling, events>>

SessionsNext ==
  \/ Record \/ AppendSample \/ Restart
  \/ \E r \in Requests : Serve(r)
  \/ \E op \in {"new", "end", "delete"} : PressRun(op)
  \/ \E id \in Ids : Choose(id)
  \/ \E s \in ListSlots : ListRows(s) \/ ListActive(s) \/ ListShown(s)
  \/ \E r \in Requests : Finish(r)
  \/ Tick
  \/ \E s \in Slots : GetDetail(s) \/ ShowDetail(s)

SessionsSpec == SessionsInit /\ [][SessionsNext]_sessionsVars

\* Threads return, timers fire, answers arrive.
SessionsFairness ==
  /\ WF_sessionsVars(AppendSample) /\ WF_sessionsVars(Tick)
  /\ \A r \in Requests : WF_sessionsVars(Serve(r)) /\ WF_sessionsVars(Finish(r))
  /\ \A s \in ListSlots : WF_sessionsVars(ListRows(s)) /\ WF_sessionsVars(ListActive(s)) /\ WF_sessionsVars(ListShown(s))
  /\ \A s \in Slots : WF_sessionsVars(GetDetail(s)) /\ WF_sessionsVars(ShowDetail(s))

SessionsFairSpec == SessionsSpec /\ SessionsFairness

-----------------------------------------------------------------------------
\* fieldHints.ts's "If set, the bridge is sampling telemetry to SQLite at 1 Hz
\* under this run ID": as long as no button is pressed while a request is under
\* way, the run that is open in the table and the active one are the same
\* whenever no request is, through restarts at any point.
ActiveIsOpen ==
  ~crossed /\ Running = {} => OpenRuns = (IF active = NoRun THEN {} ELSE {active})

\* When everything else is over the page's list is the table's; and the run
\* shown is the selected one, with all its samples, as long as the interval's
\* closure lets it ask, whatever answers for other runs come in.
PageFollows ==
  <>[](/\ list = [ids |-> Existing, active |-> active]
       /\ polling /\ Selected \in Existing
            => detail = [id |-> Selected, status |-> rows[Selected].status, n |-> rows[Selected].n])
=============================================================================
