------------------------------- MODULE Channel -------------------------------
(***************************************************************************)
(* The channel impairment page: useChannel.ts, channel/page.tsx and the     *)
(* bridge's /api/channel/netem over channel.py, which runs tc in threads.   *)
(*                                                                         *)
(* The page's text field renames the interface at every key; the hook asks  *)
(* again for each name and lets answers for an earlier one in.  An apply is *)
(* two tc commands, with nothing held between them: what keeps another one  *)
(* out is the page's busy flag, which a page left and opened again has lost *)
(* and another client of the bridge does not know.                          *)
(***************************************************************************)
EXTENDS Integers, FiniteSets

CONSTANTS
  Ifaces,     \* the names that can stand in the text field
  First,      \* the one it starts with
  Models,     \* loss models: what is true of the good state, and lossPct
  FirstModel, \* where the sliders start
  MaxNames,   \* bound: renamings, openings of the page again and POSTs of others
  MaxPosts,   \* bound: POSTs, of the page and of others
  MaxFaults   \* bound: lost answers and failing tc commands

VARIABLES
  qdisc,      \* the loss model the kernel has on each interface, or Clean
  iface, sliders, busy,   \* the page
  shown,      \* ch.state: [iface, model]; iface NoIface before the first answer
  gets,       \* the refreshes under way, by slot
  jobs,       \* the POSTs: [iface, model, stage]
  waiting,    \* the POST the page waits for, or 0
  apart,      \* history: a POST came beside one under way that its sender did not make
  names, posts, faults

page == <<iface, sliders, busy, shown>>
requests == <<gets, jobs, waiting>>
bounds == <<names, posts, faults>>
vars == <<qdisc, page, requests, apart, bounds>>

Clean == <<>>
NoIface == "none"

\* A refresh of the timer or of a renaming, one it left behind, and the one
\* that apply() and clear() await.
Slots == {"timer", "late", "own"}
None == [iface |-> NoIface, stage |-> "none", model |-> Clean]

Init ==
  /\ qdisc \in [Ifaces -> {Clean} \cup Models]
  /\ iface = First /\ sliders = FirstModel /\ busy = FALSE
  /\ shown = [iface |-> NoIface, model |-> Clean]
  /\ gets = [s \in Slots |-> None]
  /\ jobs = [n \in 1 .. MaxPosts |-> None] /\ waiting = 0
  /\ apart = FALSE
  /\ names = 0 /\ posts = 0 /\ faults = 0

Fault == faults < MaxFaults /\ faults' = faults + 1

-----------------------------------------------------------------------------
(* The hook                                                                  *)

Sent(i, m) == [iface |-> i, stage |-> "sent", model |-> m]

\* The interval of the current name, set up anew by the effect on [refresh].
Tick ==
  /\ gets["timer"].stage = "none"
  /\ gets' = [gets EXCEPT !["timer"] = Sent(iface, Clean)]
  /\ UNCHANGED <<qdisc, page, jobs, waiting, apart, bounds>>

\* Another name: a refresh under way goes on, one for the new name is sent.
\* mounted is true again by the time the old one is answered.
Rename(i) ==
  /\ names < MaxNames /\ names' = names + 1
  /\ i # iface /\ gets["late"].stage = "none"
  /\ iface' = i
  /\ gets' = [gets EXCEPT !["late"] = gets["timer"], !["timer"] = Sent(i, Clean)]
  /\ UNCHANGED <<qdisc, sliders, busy, shown, jobs, waiting, apart, posts, faults>>

\* The page is left and opened again: a new mount, which knows nothing of what the
\* old one asked.  The bridge goes on with its POST, and nobody waits for it.
Revisit ==
  /\ names < MaxNames /\ names' = names + 1
  /\ iface' = First /\ sliders' = FirstModel /\ busy' = FALSE
  /\ shown' = [iface |-> NoIface, model |-> Clean]
  /\ gets' = [s \in Slots |-> None] /\ waiting' = 0
  /\ UNCHANGED <<qdisc, jobs, apart, posts, faults>>

\* The effect on [active, lossPct]: the sliders follow the channel when these
\* change, and stay when netem is gone.
LossPct(m) == IF m = Clean THEN 0 ELSE m[2]
Sync(m) ==
  sliders' = IF m # Clean /\ (shown.model = Clean \/ LossPct(m) # LossPct(shown.model))
             THEN m ELSE sliders

\* Mutant: only the first name is ever shown.
Refresh_FirstName(slot) ==
  /\ gets[slot].stage = "answered"
  /\ shown' = [iface |-> First, model |-> gets[slot].model]
  /\ Sync(gets[slot].model)
  /\ busy' = (busy /\ slot # "own")
  /\ gets' = [gets EXCEPT ![slot] = None]
  /\ UNCHANGED <<qdisc, iface, jobs, waiting, apart, bounds>>

\* refresh() is answered: the answer is shown, for whatever name it was asked.
\* The one that apply() or clear() awaits also frees the buttons.
Refresh(slot) ==
  /\ gets[slot].stage = "answered"
  /\ shown' = [iface |-> gets[slot].iface, model |-> gets[slot].model]
  /\ Sync(gets[slot].model)
  /\ busy' = (busy /\ slot # "own")
  /\ gets' = [gets EXCEPT ![slot] = None]
  /\ UNCHANGED <<qdisc, iface, jobs, waiting, apart, bounds>>

\* The fetch fails: refresh() swallows it, so apply() goes on all the same.
RefreshFails(slot) ==
  /\ Fault
  /\ gets[slot].stage # "none"
  /\ gets' = [gets EXCEPT ![slot] = None]
  /\ busy' = (busy /\ slot # "own")
  /\ UNCHANGED <<qdisc, iface, sliders, shown, jobs, waiting, apart, names, posts>>

\* A slider is moved or a preset chosen.
Choose(m) ==
  /\ sliders' = m
  /\ UNCHANGED <<qdisc, iface, busy, shown, requests, apart, bounds>>

\* Mutant: nothing disables the buttons while a request is under way.
CanPost_Always == TRUE

CanPost == ~busy

UnderWay(n) == jobs[n].stage \in {"sent", "deleted"}

\* Another POST for the bridge, whose sender waits for the POST "own", or for none
Ask(i, m, own) ==
  /\ posts < MaxPosts /\ posts' = posts + 1
  /\ jobs' = [jobs EXCEPT ![posts + 1] = Sent(i, m)]
  /\ apart' = (apart \/ \E n \in 1 .. MaxPosts : UnderWay(n) /\ n # own)

\* A button posts for the name in the field, whatever name it shows.
Post(m) ==
  /\ CanPost
  /\ Ask(iface, m, waiting)
  /\ busy' = TRUE
  /\ waiting' = posts + 1
  /\ UNCHANGED <<qdisc, iface, sliders, shown, gets, names, faults>>

Apply == Post(sliders)
Clear == Post(Clean)

\* A second tab, or a script, posts to the same bridge.
Elsewhere(i, m) ==
  /\ names < MaxNames /\ names' = names + 1
  /\ Ask(i, m, 0)
  /\ UNCHANGED <<qdisc, page, gets, waiting, faults>>

\* The POST's answer, ok or not, is followed by a refresh of the same name.
Posted ==
  /\ waiting # 0 /\ jobs[waiting].stage = "answered"
  /\ waiting' = 0
  /\ gets' = [gets EXCEPT !["own"] = Sent(jobs[waiting].iface, Clean)]
  /\ UNCHANGED <<qdisc, page, jobs, apart, bounds>>

\* The POST fails, before, after or while the bridge runs it: no refresh, the
\* buttons come back, and what the bridge runs goes on.
PostFails ==
  /\ Fault
  /\ waiting # 0
  /\ waiting' = 0 /\ busy' = FALSE
  /\ \/ UNCHANGED jobs
     \/ /\ jobs[waiting].stage = "sent"
        /\ jobs' = [jobs EXCEPT ![waiting] = None]
  /\ UNCHANGED <<qdisc, iface, sliders, shown, gets, apart, names, posts>>

-----------------------------------------------------------------------------
(* The bridge                                                                *)

\* show(): tc qdisc show.
Show(slot) ==
  /\ gets[slot].stage = "sent"
  /\ gets' = [gets EXCEPT ![slot].stage = "answered", ![slot].model = qdisc[gets[slot].iface]]
  /\ UNCHANGED <<qdisc, page, jobs, waiting, apart, bounds>>

\* A tc that fails, or is not there, is answered as inactive.
ShowFails(slot) ==
  /\ Fault
  /\ gets[slot].stage = "sent"
  /\ gets' = [gets EXCEPT ![slot].stage = "answered"]
  /\ UNCHANGED <<qdisc, page, jobs, waiting, apart, names, posts>>

Advance(n) ==
  jobs' = [jobs EXCEPT ![n].stage = IF jobs[n].model = Clean THEN "answered" ELSE "deleted"]

\* clear(): tc qdisc del, which may find nothing to delete.  apply_gemodel() does
\* it first.
Delete(n) ==
  /\ jobs[n].stage = "sent"
  /\ qdisc' = [qdisc EXCEPT ![jobs[n].iface] = Clean]
  /\ Advance(n)
  /\ UNCHANGED <<page, gets, waiting, apart, bounds>>

\* Any error of tc is taken for that: the qdisc stays, the answer is "ok".
DeleteFails(n) ==
  /\ Fault
  /\ jobs[n].stage = "sent"
  /\ Advance(n)
  /\ UNCHANGED <<qdisc, page, gets, waiting, apart, names, posts>>

\* tc qdisc add, which needs the root to be free, and is not tried again.
Add(n) ==
  /\ jobs[n].stage = "deleted"
  /\ qdisc' = [qdisc EXCEPT ![jobs[n].iface] = IF @ = Clean THEN jobs[n].model ELSE @]
  /\ jobs' = [jobs EXCEPT ![n].stage = "answered"]
  /\ UNCHANGED <<page, gets, waiting, apart, bounds>>

\* The add fails: the interface stays clear, and the page ignores "ok: false".
AddFails(n) ==
  /\ Fault
  /\ jobs[n].stage = "deleted"
  /\ jobs' = [jobs EXCEPT ![n].stage = "answered"]
  /\ UNCHANGED <<qdisc, page, gets, waiting, apart, names, posts>>

Next ==
  \/ Tick \/ Apply \/ Clear \/ Posted \/ PostFails \/ Revisit
  \/ \E i \in Ifaces : Rename(i)
  \/ \E m \in Models : Choose(m)
  \/ \E i \in Ifaces, m \in Models \cup {Clean} : Elsewhere(i, m)
  \/ \E s \in Slots : Refresh(s) \/ RefreshFails(s) \/ Show(s) \/ ShowFails(s)
  \/ \E n \in 1 .. MaxPosts : Delete(n) \/ DeleteFails(n) \/ Add(n) \/ AddFails(n)

Spec == Init /\ [][Next]_vars

\* The timer ticks, tc returns, and an answer that is not lost arrives.
Fairness ==
  /\ WF_vars(Tick) /\ WF_vars(Posted)
  /\ \A s \in Slots : WF_vars(Show(s)) /\ WF_vars(Refresh(s))
  /\ \A n \in 1 .. MaxPosts : WF_vars(Delete(n)) /\ WF_vars(Add(n))

FairSpec == Spec /\ Fairness

-----------------------------------------------------------------------------
\* The delete and the add of an apply are two commands of a thread, and "callers
\* don't have to worry about replace-vs-add": when every POST was made with none of
\* another page, mount or client under way, and nothing failed, each interface has
\* the loss model of the last POST for it that was answered.
LastOn(n) == \A m \in n + 1 .. posts : jobs[m].iface # jobs[n].iface
LastPostHolds ==
  faults = 0 /\ ~apart =>
    \A n \in 1 .. posts :
      jobs[n].stage = "answered" /\ LastOn(n) => qdisc[jobs[n].iface] = jobs[n].model

\* When renaming, pressing and faults are over, the buttons are free again and
\* the page shows the loss model the kernel has on the interface in the field,
\* though answers for earlier names are let in, applies are answered before,
\* between or after the timer's refreshes, the page is left and opened again, and
\* other clients change the channel.
ChannelShown == ~busy /\ shown = [iface |-> iface, model |-> qdisc[iface]]
ShowsTheChannel == <>[]ChannelShown
=============================================================================
