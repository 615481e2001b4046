----------------------------- MODULE ConfigEditor -----------------------------
(***************************************************************************)
(* The configuration form: useConfig.ts, the form of configuration/page.tsx *)
(* with its controls (Slider, TextField, Toggle), and the bridge's          *)
(* GET/POST /api/config over config_store.py.                              *)
(*                                                                         *)
(* An event handler runs with what was last drawn.  An answer replaces both *)
(* the persisted configuration and the draft; nothing orders two requests.  *)
(* One field stands for each kind of control: k for the sliders, lan_iface  *)
(* for the text fields, internal_symbol_crc for the toggle.                 *)
(***************************************************************************)
EXTENDS Integers, FiniteSets

CONSTANTS
  KMin, KMax,   \* CONFIG_BOUNDS.k, and BOUNDS["k"] of the bridge
  Typed,        \* numbers typed into a slider's editor; an empty text is 0
  PresetK,      \* the k of the preset that is offered
  MaxEdits,     \* bound: events that change the draft
  MaxSaves,     \* bound: saves
  MaxLost       \* bound: requests or answers the network loses

VARIABLES
  persisted, draft,    \* configurations, or NoConfig
  status, error, requiresRestart,
  reqs,       \* requests by number: 0 is the GET at mount, the others saves
  saves, edits, lost,
  stored,     \* the configuration on disk
  meant,      \* history: what the user last chose for each field
  raced       \* history: an edit or a save was made with a request under way

view == <<persisted, draft, status, error, requiresRestart>>
history == <<meant, raced>>
vars == <<view, reqs, saves, edits, lost, stored, history>>

Names == {"eth0", "eth1", "eth1 ", ""}
NoConfig == [k |-> 0, lan_iface |-> "none", internal_symbol_crc |-> FALSE]
Absent == [stage |-> "none", config |-> NoConfig]

-----------------------------------------------------------------------------
(* The bridge                                                                *)

\* _ensure_str(): surrounding blanks are stripped.
Strip(name) == IF name = "eth1 " THEN "eth1" ELSE name
Clean(cfg) == [cfg EXCEPT !.lan_iface = Strip(@)]

\* validate(): a number in its bounds, a name that is not blank.
Valid(cfg) == cfg.k \in KMin .. KMax /\ Strip(cfg.lan_iface) # ""

\* The file may hold anything the bridge accepts; load() falls back to defaults.
Init ==
  /\ stored \in {c \in [k : {KMin, KMax}, lan_iface : {"eth0"},
                        internal_symbol_crc : {TRUE}] : Valid(c)}
  /\ persisted = NoConfig /\ draft = NoConfig
  /\ status = "loading" /\ error = FALSE /\ requiresRestart = FALSE
  /\ reqs = [n \in 0 .. MaxSaves |->
               IF n = 0 THEN [stage |-> "sent", config |-> NoConfig] ELSE Absent]
  /\ saves = 0 /\ edits = 0 /\ lost = 0
  /\ meant = NoConfig /\ raced = FALSE

InFlight == {n \in 0 .. MaxSaves : reqs[n].stage # "none"}

\* GET /api/config and POST /api/config, each in one step of the event loop.
ServeGet ==
  /\ reqs[0].stage = "sent"
  /\ reqs' = [reqs EXCEPT ![0] = [stage |-> "ok", config |-> stored]]
  /\ UNCHANGED <<view, saves, edits, lost, stored, history>>

\* Mutant: the names are answered as they were sent and stored stripped.
ServeSave_Echo(n) ==
  /\ n # 0 /\ reqs[n].stage = "sent"
  /\ IF Valid(reqs[n].config)
       THEN /\ stored' = Clean(reqs[n].config)
            /\ reqs' = [reqs EXCEPT ![n].stage = "ok"]
       ELSE reqs' = [reqs EXCEPT ![n].stage = "rejected"] /\ UNCHANGED stored
  /\ UNCHANGED <<view, saves, edits, lost, history>>

ServeSave(n) ==
  /\ n # 0 /\ reqs[n].stage = "sent"
  /\ LET cfg == Clean(reqs[n].config) IN
       IF Valid(cfg)
         THEN /\ stored' = cfg
              /\ reqs' = [reqs EXCEPT ![n] = [stage |-> "ok", config |-> cfg]]
         ELSE reqs' = [reqs EXCEPT ![n].stage = "rejected"] /\ UNCHANGED stored
  /\ UNCHANGED <<view, saves, edits, lost, history>>

\* The network loses a request or an answer: fetch() rejects.
Lose(n) ==
  /\ lost < MaxLost /\ lost' = lost + 1
  /\ reqs[n].stage \in {"sent", "ok"}
  /\ reqs' = [reqs EXCEPT ![n].stage = "rejected"]
  /\ UNCHANGED <<view, saves, edits, stored, history>>

-----------------------------------------------------------------------------
(* useConfig                                                                 *)

\* refresh() and save() with a good answer: persisted and draft are replaced.
Answer(n) ==
  /\ reqs[n].stage = "ok"
  /\ persisted' = reqs[n].config /\ draft' = reqs[n].config
  /\ status' = "idle"
  /\ requiresRestart' = (requiresRestart \/ n # 0)
  /\ reqs' = [reqs EXCEPT ![n] = Absent]
  /\ meant' = IF n = 0 THEN reqs[n].config ELSE meant
  /\ UNCHANGED <<error, saves, edits, lost, stored, raced>>

AnswerBad(n) ==
  /\ reqs[n].stage = "rejected"
  /\ status' = "error" /\ error' = TRUE
  /\ reqs' = [reqs EXCEPT ![n] = Absent]
  /\ UNCHANGED <<persisted, draft, requiresRestart, saves, edits, lost, stored, history>>

\* The form is drawn once a draft is there.
FormShown == status # "loading" /\ draft # NoConfig
Dirty == persisted # draft

Racing == raced' = (raced \/ InFlight # {})

\* The handler of an event that changes the draft of one field.
Edit(field, value) ==
  /\ FormShown /\ edits < MaxEdits
  /\ edits' = edits + 1
  /\ draft' = [draft EXCEPT ![field] = value]
  /\ meant' = [meant EXCEPT ![field] = value]
  /\ Racing
  /\ UNCHANGED <<persisted, status, error, requiresRestart, reqs, saves, lost, stored>>

\* Mutant: save() posts the draft as it was last drawn.
Post_NoOverride(payload) ==
  /\ FormShown /\ saves < MaxSaves
  /\ saves' = saves + 1
  /\ draft' = payload
  /\ reqs' = [reqs EXCEPT ![saves + 1] = [stage |-> "sent", config |-> draft]]
  /\ status' = "saving" /\ error' = FALSE

\* save(): the draft last drawn with the override over it is shown and posted.
Post(payload) ==
  /\ FormShown /\ saves < MaxSaves
  /\ saves' = saves + 1
  /\ draft' = payload
  /\ reqs' = [reqs EXCEPT ![saves + 1] = [stage |-> "sent", config |-> payload]]
  /\ status' = "saving" /\ error' = FALSE

\* Enter in a control: its onCommit saves the draft with the field's new value,
\* which the draft need not have yet.
Commit(field, value) ==
  /\ Post([draft EXCEPT ![field] = value])
  /\ meant' = [meant EXCEPT ![field] = value]
  /\ Racing
  /\ UNCHANGED <<persisted, requiresRestart, edits, lost, stored>>

\* "Apply Changes" is disabled without changes and while a save is shown.
Apply ==
  /\ FormShown /\ Dirty /\ status # "saving"
  /\ Post(draft)
  /\ Racing
  /\ UNCHANGED <<persisted, requiresRestart, edits, lost, stored, meant>>

Revert ==
  /\ FormShown /\ Dirty
  /\ edits < MaxEdits /\ edits' = edits + 1
  /\ draft' = persisted /\ error' = FALSE
  /\ meant' = persisted
  /\ Racing
  /\ UNCHANGED <<persisted, status, requiresRestart, reqs, saves, lost, stored>>

-----------------------------------------------------------------------------
(* The controls                                                              *)

\* commitDraft(): rounded to a step of one, within min and max.
Clamp(n) == IF n < KMin THEN KMin ELSE IF n > KMax THEN KMax ELSE n

Slide == \E n \in KMin .. KMax : Edit("k", n)

\* The number editor: blur and Enter change the value; Enter also commits.
TypeNumber ==
  \E n \in Typed : /\ Clamp(n) # draft.k
                   /\ Edit("k", Clamp(n))
TypeNumberEnter == \E n \in Typed : Commit("k", Clamp(n))

\* Enter on the range input commits the value it shows; a TextField likewise.
SlideEnter == Commit("k", draft.k)
TypeName == \E s \in Names : Edit("lan_iface", s)
NameEnter == Commit("lan_iface", draft.lan_iface)

\* The toggle only changes the draft; a preset sets its own fields of it.
Toggle == Edit("internal_symbol_crc", ~draft.internal_symbol_crc)
Preset == Edit("k", PresetK)

Controls ==
  \/ Slide \/ TypeNumber \/ TypeNumberEnter \/ SlideEnter
  \/ TypeName \/ NameEnter \/ Toggle \/ Preset \/ Apply \/ Revert

Next ==
  \/ Controls \/ ServeGet
  \/ \E n \in 0 .. MaxSaves : ServeSave(n) \/ Lose(n) \/ Answer(n) \/ AnswerBad(n)

Spec == Init /\ [][Next]_vars

\* What the action panel says.
Label ==
  CASE status = "saving" -> "Saving"
    [] status # "saving" /\ error -> "Error"
    [] status # "saving" /\ ~error /\ Dirty -> "Unsaved changes"
    [] status # "saving" /\ ~error /\ ~Dirty /\ requiresRestart -> "Saved"
    [] OTHER -> "In sync with bridge"

\* StatusDotFor: its colour, which looks at the error first
Dot ==
  CASE error -> "danger"
    [] ~error /\ status = "saving" -> "warning"
    [] ~error /\ status # "saving" /\ Dirty -> "cyan"
    [] ~error /\ status # "saving" /\ ~Dirty /\ requiresRestart -> "warning"
    [] OTHER -> "success"

-----------------------------------------------------------------------------
\* As long as the user waits for each answer and the network loses nothing,
\* "Saved" and "In sync" are said only of the configuration on disk, and that
\* is the one the user chose, field by field, whichever control it came from.
\* The dot and the label, which look at error and status in different orders,
\* never disagree, whatever races.
LabelIsTrue ==
  /\ ~raced /\ lost = 0 /\ FormShown /\ Label \in {"Saved", "In sync with bridge"}
       => persisted = stored /\ Clean(meant) = stored
  /\ FormShown => /\ (Dot = "danger") = (Label = "Error")
                  /\ (Dot = "success") = (Label = "In sync with bridge")

\* Waiting for each answer also means that no edit is lost, whatever is
\* rejected or lost on the way: the draft is what the user chose.
DraftIsMeant == ~raced /\ FormShown => Clean(draft) = Clean(meant)
=============================================================================
