----------------------------- MODULE Experiments -----------------------------
(***************************************************************************)
(* The experiment files of the analytics page: useExperiments.ts, the       *)
(* ExperimentsView of analytics/page.tsx, and the bridge's list and read    *)
(* over experiments.py.                                                    *)
(*                                                                         *)
(* A file is written once, by a script, and may be removed; files are       *)
(* numbered by age.  A fetch is answered by what is there when the bridge   *)
(* runs it, and nothing orders two of them.                                 *)
(***************************************************************************)
EXTENDS Integers, FiniteSets, FiniteSetsExt

CONSTANTS
  MaxFiles,   \* bound: files written
  MaxFetches  \* bound: details fetched

VARIABLES
  files,      \* the files that are there
  written,
  list,       \* the files listed; the page draws them newest first
  selected,   \* a file, or Nothing
  timers,     \* the auto-selections scheduled: the file each one would select
  fetches,    \* useExperimentDetail(): [name, stage] by number
  asked,
  detail, loading,
  disturbed   \* history: a fetch failed, or was sent with another under way

disk == <<files, written>>
page == <<list, selected, timers>>
hook == <<fetches, asked, detail, loading, disturbed>>
vars == <<disk, page, hook>>

Nothing == 0
Files == 1 .. MaxFiles
NoFetch == [name |-> Nothing, stage |-> "none"]

Init ==
  /\ written \in 0 .. 1 /\ files = 1 .. written
  /\ list = {} /\ selected = Nothing /\ timers = {}
  /\ fetches = [n \in 1 .. MaxFetches |-> NoFetch] /\ asked = 0
  /\ detail = Nothing /\ loading = FALSE /\ disturbed = FALSE

-----------------------------------------------------------------------------
(* The script, external                                                      *)

Write ==
  /\ written < MaxFiles
  /\ written' = written + 1 /\ files' = files \cup {written + 1}
  /\ UNCHANGED <<page, hook>>

Remove ==
  /\ \E f \in files : files' = files \ {f}
  /\ UNCHANGED <<written, page, hook>>

-----------------------------------------------------------------------------
\* refresh(): at mount and every ten seconds; a failure keeps the list.  What is
\* drawn with nothing selected schedules a selection of the newest file.
Newest(set) == IF set = {} THEN {} ELSE {Max(set)}

Refresh ==
  /\ list' = files
  /\ timers' = IF selected = Nothing THEN timers \cup Newest(files) ELSE timers
  /\ UNCHANGED <<disk, selected, hook>>

\* Mutant: what was fetched before is taken for loaded.
Fetch_Quiet(name) ==
  /\ asked < MaxFetches
  /\ asked' = asked + 1
  /\ fetches' = [fetches EXCEPT ![asked + 1] = [name |-> name, stage |-> "sent"]]
  /\ loading' = (detail = Nothing)
  /\ disturbed' = (disturbed \/ \E n \in 1 .. asked : fetches[n].stage # "none")
  /\ UNCHANGED detail

\* The effect on [name].  A fetch for another name goes on: mounted is true
\* again before it is answered.
Fetch(name) ==
  /\ asked < MaxFetches
  /\ asked' = asked + 1
  /\ fetches' = [fetches EXCEPT ![asked + 1] = [name |-> name, stage |-> "sent"]]
  /\ loading' = TRUE
  /\ disturbed' = (disturbed \/ \E n \in 1 .. asked : fetches[n].stage # "none")
  /\ UNCHANGED detail

Choose(name) ==
  /\ selected' = name
  /\ IF name = selected THEN UNCHANGED hook ELSE Fetch(name)

\* A file is clicked, or a scheduled selection is run, whatever was clicked since.
Click ==
  /\ \E name \in list : Choose(name)
  /\ UNCHANGED <<disk, list, timers>>

AutoSelect ==
  /\ \E name \in timers : Choose(name) /\ timers' = timers \ {name}
  /\ UNCHANGED <<disk, list>>

\* read_experiment(), or a 404, or an answer that is lost.
Serve(n) ==
  /\ fetches[n].stage = "sent"
  /\ fetches' = [fetches EXCEPT ![n].stage = IF fetches[n].name \in files THEN "ok" ELSE "failed"]
  /\ UNCHANGED <<disk, page, asked, detail, loading, disturbed>>

Lose(n) ==
  /\ fetches[n].stage = "sent"
  /\ fetches' = [fetches EXCEPT ![n].stage = "failed"]
  /\ UNCHANGED <<disk, page, asked, detail, loading, disturbed>>

\* The answer is shown, for whatever name it was asked; a failure leaves the
\* detail alone; either way nothing is loading any more.
Answered(n) ==
  /\ fetches[n].stage \in {"ok", "failed"}
  /\ detail' = IF fetches[n].stage = "ok" THEN fetches[n].name ELSE detail
  /\ disturbed' = (disturbed \/ fetches[n].stage = "failed")
  /\ loading' = FALSE
  /\ fetches' = [fetches EXCEPT ![n] = NoFetch]
  /\ UNCHANGED <<disk, page, asked>>

Next ==
  \/ Write \/ Remove \/ Refresh \/ Click \/ AutoSelect
  \/ \E n \in 1 .. MaxFetches : Serve(n) \/ Lose(n) \/ Answered(n)

Spec == Init /\ [][Next]_vars

\* The report the right-hand side draws: none with "Loading" or an invitation to pick.
Drawn == IF loading THEN {} ELSE {detail} \ {Nothing}

-----------------------------------------------------------------------------
\* The report drawn is that of the file highlighted in the list, until a fetch
\* fails or overtakes another one, though the selection may come from a click or
\* from a timer set before it.
DetailIsSelected == ~disturbed => Drawn \subseteq {selected}
=============================================================================
