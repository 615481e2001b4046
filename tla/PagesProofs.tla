----------------------------- MODULE PagesProofs -----------------------------
(***************************************************************************)
(* Of the pages of the GUI, each over what it talks to, for any number of  *)
(* events: acknowledgements outlive a reload, the alerts of the ring are in*)
(* the list, the report drawn is that of the file selected, the form says  *)
(* the truth about the configuration, an interface has the loss model that *)
(* was last applied to it, the console shows the last lines that reached   *)
(* it, in order, and the FEC page lists the newest ends of blocks the      *)
(* bridge took.                                                            *)
(***************************************************************************)
EXTENDS Pages, DataLemmas, FiniteSetTheorems

-----------------------------------------------------------------------------
(* Alerts                                                                    *)

\* Nothing is stored before a button is pressed; the only page whose buttons
\* were pressed has what is stored, and a page that was reloaded had it too.
AcksInv ==
  /\ acked = [h \in Hooks |-> acked[h]]
  /\ pressers = {} => storage = {} /\ \A h \in Hooks : acked[h] = {}
  /\ \A h \in Hooks : pressers = {h} => acked[h] = storage

LEMMA AcksInit == Alarms!Init => AcksInv
<1> SUFFICES ASSUME Alarms!Init PROVE AcksInv
  OBVIOUS
<1>1. acked = [h \in Hooks |-> {}] /\ storage = {} /\ pressers = {}
  BY DEF Alarms!Init
<1> QED BY <1>1 DEF AcksInv

\* The hook's whole set goes to the storage.
LEMMA SetKeepsAcks ==
  ASSUME AcksInv, NEW h \in Hooks, NEW set, Alarms!SetAcked(h, set)
  PROVE  AcksInv'
<1>1. /\ acked' = [acked EXCEPT ![h] = set] /\ storage' = set
      /\ pressers' = pressers \cup {h}
  BY DEF Alarms!SetAcked
<1>2. acked = [i \in Hooks |-> acked[i]]
  BY DEF AcksInv
<1>3. acked' = [i \in Hooks |-> acked'[i]] /\ acked'[h] = set
  BY <1>1, <1>2
<1>4. ASSUME NEW i \in Hooks, pressers' = {i} PROVE acked'[i] = storage'
  <2>1. i = h
    BY <1>1, <1>4
  <2> QED BY <1>1, <1>3, <2>1
<1>5. pressers' # {}
  BY <1>1
<1> QED BY <1>3, <1>4, <1>5 DEF AcksInv

\* What a reload loads is what the page had, or nothing was stored.
LEMMA ReloadKeepsAcks ==
  ASSUME AcksInv, NEW h \in Hooks, Alarms!Reload(h)
  PROVE  AcksInv'
<1>1. /\ acked' = [acked EXCEPT ![h] = storage]
      /\ storage' = storage /\ pressers' = pressers
  BY DEF Alarms!Reload
<1>2. acked = [i \in Hooks |-> acked[i]]
  BY DEF AcksInv
<1>3. /\ acked' = [i \in Hooks |-> acked'[i]]
      /\ \A i \in Hooks : acked'[i] = IF i = h THEN storage ELSE acked[i]
  BY <1>1, <1>2
<1> QED BY <1>1, <1>3 DEF AcksInv

LEMMA AcksStep == AcksInv /\ [Alarms!Next]_(Alarms!vars) => AcksInv'
<1> SUFFICES ASSUME AcksInv, [Alarms!Next]_(Alarms!vars) PROVE AcksInv'
  OBVIOUS
<1>1. ASSUME UNCHANGED <<acked, storage, pressers>> PROVE AcksInv'
  BY <1>1 DEF AcksInv
<1>2. ASSUME \/ \E crossed : Alarms!Detect(crossed)
             \/ \E kind : Alarms!Simulate(kind)
             \/ Alarms!Switch
      PROVE  AcksInv'
  BY <1>1, <1>2 DEF Alarms!Detect, Alarms!Simulate, Alarms!Alarm, Alarms!Switch, Alarms!ackVars
<1>3. ASSUME NEW h \in Hooks, Alarms!Show(h) \/ Alarms!ClearHistory(h) PROVE AcksInv'
  BY <1>1, <1>3 DEF Alarms!Show, Alarms!ClearHistory, Alarms!ackVars
<1>4. ASSUME NEW h \in Hooks,
             \/ Alarms!Acknowledge(h) \/ Alarms!AcknowledgeAll(h)
             \/ Alarms!Unacknowledge(h) \/ Alarms!ClearAcks(h)
      PROVE  AcksInv'
  <2>1. \E set : Alarms!SetAcked(h, set)
    BY <1>4 DEF Alarms!Acknowledge, Alarms!AcknowledgeAll, Alarms!Unacknowledge, Alarms!ClearAcks
  <2> QED BY <2>1, SetKeepsAcks
<1>5. ASSUME NEW h \in Hooks, Alarms!Reload(h) PROVE AcksInv'
  BY <1>5, ReloadKeepsAcks
<1>6. CASE UNCHANGED Alarms!vars
  BY <1>1, <1>6 DEF Alarms!vars
<1> QED BY <1>2, <1>3, <1>4, <1>5, <1>6 DEF Alarms!Next

\* As long as the buttons of one page are used, what it shows as acknowledged is
\* what a reload would show, for any pages and any alerts.
THEOREM ReloadKeepsAcknowledged == Alarms!Spec => []AcksSurvive
<1>1. AcksInv => AcksSurvive
  BY DEF AcksInv, AcksSurvive, Alarms!AcksSurvive
<1> QED BY <1>1, AcksInit, AcksStep, PTL DEF Alarms!Spec

-----------------------------------------------------------------------------
(* Experiments                                                               *)

UnderWay(n) == fetches[n].stage # "none"

FetchesTyped ==
  /\ asked \in 0 .. MaxFetches
  /\ fetches = [n \in 1 .. MaxFetches |-> [name |-> fetches[n].name, stage |-> fetches[n].stage]]
  /\ \A n \in 1 .. MaxFetches : UnderWay(n) => n <= asked

\* Undisturbed, one fetch at most is under way; it is for the file selected, and
\* the page says "Loading" meanwhile.  With none the detail is that file's.
OneFetch ==
  /\ \A n, i \in 1 .. MaxFetches : UnderWay(n) /\ UnderWay(i) => n = i
  /\ \A n \in 1 .. MaxFetches : UnderWay(n) => loading /\ fetches[n].name = selected
  /\ ~loading => detail = selected

DetailInv == FetchesTyped /\ (~disturbed => OneFetch)

LEMMA DetailInit ==
  ASSUME MaxFetches \in Nat
  PROVE  Artefacts!Init => DetailInv
<1> SUFFICES ASSUME Artefacts!Init PROVE DetailInv
  OBVIOUS
<1>1. /\ asked = 0 /\ detail = selected
      /\ fetches = [n \in 1 .. MaxFetches |-> [name |-> Artefacts!Nothing, stage |-> "none"]]
  BY DEF Artefacts!Init, Artefacts!NoFetch
<1>2. \A n \in 1 .. MaxFetches : ~UnderWay(n)
  BY <1>1 DEF UnderWay
<1> QED BY <1>1, <1>2 DEF DetailInv, FetchesTyped, OneFetch

\* Another file is selected and its report asked for.
LEMMA FetchKeeps ==
  ASSUME MaxFetches \in Nat, DetailInv, NEW name, Artefacts!Fetch(name), selected' = name
  PROVE  DetailInv'
<1> DEFINE f == [name |-> name, stage |-> "sent"]
<1>1. /\ asked < MaxFetches /\ asked' = asked + 1 /\ loading' = TRUE
      /\ fetches' = [fetches EXCEPT ![asked + 1] = f]
      /\ disturbed' = (disturbed \/ \E n \in 1 .. asked : UnderWay(n))
  BY DEF Artefacts!Fetch, UnderWay
<1>2. /\ asked \in 0 .. MaxFetches
      /\ fetches = [n \in 1 .. MaxFetches |-> [name |-> fetches[n].name, stage |-> fetches[n].stage]]
  BY DEF DetailInv, FetchesTyped
<1>3. f = [name |-> f.name, stage |-> f.stage] /\ f.name = name /\ f.stage # "none"
  OBVIOUS
<1> HIDE DEF f
<1>4. \A n \in 1 .. MaxFetches : fetches'[n] = IF n = asked + 1 THEN f ELSE fetches[n]
  BY <1>1, <1>2
<1>5. asked' \in 0 .. MaxFetches
  BY <1>1, <1>2
<1>6. fetches' = [n \in 1 .. MaxFetches |-> [name |-> fetches'[n].name, stage |-> fetches'[n].stage]]
  <2>1. fetches' = [n \in 1 .. MaxFetches |-> fetches'[n]]
    BY <1>1, <1>2
  <2>2. \A n \in 1 .. MaxFetches : fetches'[n] = [name |-> fetches'[n].name, stage |-> fetches'[n].stage]
    BY <1>2, <1>3, <1>4
  <2> QED BY <2>1, <2>2
<1>7. \A n \in 1 .. MaxFetches : UnderWay(n)' => n = asked + 1 \/ (UnderWay(n) /\ n <= asked)
  BY <1>4 DEF UnderWay, DetailInv, FetchesTyped
<1>8. FetchesTyped'
  <2>1. \A n \in 1 .. MaxFetches : UnderWay(n)' => n <= asked'
    BY <1>1, <1>2, <1>7
  <2> QED BY <1>5, <1>6, <2>1 DEF FetchesTyped
<1>9. ASSUME ~disturbed' PROVE OneFetch'
  <2>1. \A n \in 1 .. MaxFetches : UnderWay(n)' => n = asked + 1
    <3>1. \A n \in 1 .. asked : ~UnderWay(n)
      BY <1>1, <1>9, Zenon
    <3>2. \A n \in 1 .. MaxFetches : n <= asked => n \in 1 .. asked
      BY <1>2
    <3> QED BY <1>7, <3>1, <3>2, Zenon
  <2>2. \A n \in 1 .. MaxFetches : UnderWay(n)' => fetches'[n].name = selected'
    BY <2>1, <1>3, <1>4
  <2> QED BY <2>1, <2>2, <1>1 DEF OneFetch
<1> QED BY <1>8, <1>9 DEF DetailInv

\* A fetch changes its stage, and its name if it is over.
LEMMA FetchMoves ==
  ASSUME DetailInv, NEW n \in 1 .. MaxFetches, UnderWay(n), NEW f,
         fetches' = [fetches EXCEPT ![n] = f],
         f = [name |-> f.name, stage |-> f.stage], asked' = asked
  PROVE  /\ FetchesTyped'
         /\ \A i \in 1 .. MaxFetches : fetches'[i] = IF i = n THEN f ELSE fetches[i]
<1>1. fetches = [i \in 1 .. MaxFetches |-> [name |-> fetches[i].name, stage |-> fetches[i].stage]]
  BY DEF DetailInv, FetchesTyped
<1>2. \A i \in 1 .. MaxFetches : fetches'[i] = IF i = n THEN f ELSE fetches[i]
  BY <1>1
<1>3. fetches' = [i \in 1 .. MaxFetches |-> [name |-> fetches'[i].name, stage |-> fetches'[i].stage]]
  <2>1. fetches' = [i \in 1 .. MaxFetches |-> fetches'[i]]
    BY <1>1
  <2>2. \A i \in 1 .. MaxFetches : fetches'[i] = [name |-> fetches'[i].name, stage |-> fetches'[i].stage]
    BY <1>1, <1>2
  <2> QED BY <2>1, <2>2
<1>4. \A i \in 1 .. MaxFetches : UnderWay(i)' => i <= asked'
  BY <1>2 DEF UnderWay, DetailInv, FetchesTyped
<1> QED BY <1>2, <1>3, <1>4 DEF DetailInv, FetchesTyped

LEMMA ServedKeeps ==
  ASSUME DetailInv, NEW n \in 1 .. MaxFetches, Artefacts!Serve(n) \/ Artefacts!Lose(n)
  PROVE  DetailInv'
<1>1. PICK stage \in {"ok", "failed"} : fetches' = [fetches EXCEPT ![n].stage = stage]
  BY DEF Artefacts!Serve, Artefacts!Lose
<1>2. /\ UnderWay(n) /\ asked' = asked /\ selected' = selected
      /\ detail' = detail /\ loading' = loading /\ disturbed' = disturbed
  BY DEF Artefacts!Serve, Artefacts!Lose, Artefacts!page, UnderWay
<1> DEFINE f == [name |-> fetches[n].name, stage |-> stage]
<1>3. fetches' = [fetches EXCEPT ![n] = f]
  <2>1. fetches[n] = [name |-> fetches[n].name, stage |-> fetches[n].stage]
    BY DEF DetailInv, FetchesTyped
  <2>2. [fetches[n] EXCEPT !.stage = stage] = f
    BY <2>1
  <2>3. fetches' = [fetches EXCEPT ![n] = [fetches[n] EXCEPT !.stage = stage]]
    BY <1>1
  <2> QED BY <2>2, <2>3
<1>4. f = [name |-> f.name, stage |-> f.stage] /\ f.name = fetches[n].name
  OBVIOUS
<1> HIDE DEF f
<1>5. /\ FetchesTyped'
      /\ \A i \in 1 .. MaxFetches : fetches'[i] = IF i = n THEN f ELSE fetches[i]
  BY <1>2, <1>3, <1>4, FetchMoves
<1>6. \A i \in 1 .. MaxFetches : (UnderWay(i)' => UnderWay(i)) /\ fetches'[i].name = fetches[i].name
  BY <1>2, <1>4, <1>5 DEF UnderWay
<1>7. ASSUME OneFetch PROVE OneFetch'
  BY <1>2, <1>6, <1>7 DEF OneFetch
<1> QED BY <1>2, <1>5, <1>7 DEF DetailInv

LEMMA AnsweredKeeps ==
  ASSUME DetailInv, NEW n \in 1 .. MaxFetches, Artefacts!Answered(n)
  PROVE  DetailInv'
<1> DEFINE f == [name |-> Artefacts!Nothing, stage |-> "none"]
<1>1. /\ UnderWay(n) /\ asked' = asked /\ selected' = selected /\ loading' = FALSE
      /\ fetches' = [fetches EXCEPT ![n] = f]
      /\ detail' = IF fetches[n].stage = "ok" THEN fetches[n].name ELSE detail
      /\ disturbed' = (disturbed \/ fetches[n].stage = "failed")
      /\ fetches[n].stage \in {"ok", "failed"}
  BY DEF Artefacts!Answered, Artefacts!page, Artefacts!NoFetch, UnderWay
<1>2. f = [name |-> f.name, stage |-> f.stage] /\ f.stage = "none"
  OBVIOUS
<1> HIDE DEF f
<1>3. /\ FetchesTyped'
      /\ \A i \in 1 .. MaxFetches : fetches'[i] = IF i = n THEN f ELSE fetches[i]
  BY <1>1, <1>2, FetchMoves
<1>4. ASSUME ~disturbed' PROVE OneFetch'
  <2>1. OneFetch /\ fetches[n].stage = "ok"
    BY <1>1, <1>4 DEF DetailInv
  <2>2. \A i \in 1 .. MaxFetches : ~UnderWay(i)'
    BY <1>1, <1>2, <1>3, <2>1 DEF OneFetch, UnderWay
  <2>3. detail' = selected'
    BY <1>1, <2>1 DEF OneFetch
  <2> QED BY <2>2, <2>3 DEF OneFetch
<1> QED BY <1>3, <1>4 DEF DetailInv

LEMMA DetailStep ==
  ASSUME MaxFetches \in Nat
  PROVE  DetailInv /\ [Artefacts!Next]_(Artefacts!vars) => DetailInv'
<1> SUFFICES ASSUME DetailInv, [Artefacts!Next]_(Artefacts!vars) PROVE DetailInv'
  OBVIOUS
<1>1. ASSUME UNCHANGED <<selected, fetches, asked, detail, loading, disturbed>> PROVE DetailInv'
  BY <1>1 DEF DetailInv, FetchesTyped, OneFetch, UnderWay
<1>2. ASSUME Artefacts!Write \/ Artefacts!Remove \/ Artefacts!Refresh PROVE DetailInv'
  BY <1>1, <1>2 DEF Artefacts!Write, Artefacts!Remove, Artefacts!Refresh, Artefacts!page, Artefacts!hook
<1>3. ASSUME NEW name, Artefacts!Choose(name) PROVE DetailInv'
  <2>1. CASE name = selected
    BY <1>1, <1>3, <2>1 DEF Artefacts!Choose, Artefacts!hook
  <2>2. CASE name # selected
    BY <1>3, <2>2, FetchKeeps DEF Artefacts!Choose
  <2> QED BY <2>1, <2>2
<1>4. ASSUME Artefacts!Click \/ Artefacts!AutoSelect PROVE DetailInv'
  BY <1>3, <1>4 DEF Artefacts!Click, Artefacts!AutoSelect
<1>5. ASSUME NEW n \in 1 .. MaxFetches, Artefacts!Serve(n) \/ Artefacts!Lose(n) \/ Artefacts!Answered(n)
      PROVE  DetailInv'
  BY <1>5, ServedKeeps, AnsweredKeeps
<1>6. CASE UNCHANGED Artefacts!vars
  BY <1>1, <1>6 DEF Artefacts!vars, Artefacts!page, Artefacts!hook
<1> QED BY <1>2, <1>4, <1>5, <1>6 DEF Artefacts!Next

\* Until a fetch fails or overtakes another, the report drawn is that of the file
\* highlighted, for any number of files and of fetches.
THEOREM ReportIsSelected == Artefacts!Spec => []DetailIsSelected
<1>0. MaxFetches \in Nat
  BY PagesAssumption DEF PagesAssumption
<1>1. DetailInv => DetailIsSelected
  BY DEF DetailInv, OneFetch, DetailIsSelected, Artefacts!DetailIsSelected, Artefacts!Drawn
<1>2. Artefacts!Init => DetailInv
  BY <1>0, DetailInit
<1>3. DetailInv /\ [Artefacts!Next]_(Artefacts!vars) => DetailInv'
  BY <1>0, DetailStep
<1> QED BY <1>1, <1>2, <1>3, PTL DEF Artefacts!Spec

-----------------------------------------------------------------------------
(* The configuration form                                                    *)

\* A configuration the user or the file can have chosen
Chosen(c) ==
  /\ c = [k |-> c.k, lan_iface |-> c.lan_iface, internal_symbol_crc |-> c.internal_symbol_crc]
  /\ c.lan_iface \in Form!Names

LEMMA ChosenIsConfig ==
  ASSUME NEW c, Chosen(c)
  PROVE  c # Form!NoConfig
<1>1. c.lan_iface # "none"
  BY DEF Chosen, Form!Names
<1> QED BY <1>1 DEF Form!NoConfig

LEMMA SetField ==
  ASSUME NEW c, Chosen(c), NEW v
  PROVE  /\ [c EXCEPT !["k"] = v] =
              [k |-> v, lan_iface |-> c.lan_iface, internal_symbol_crc |-> c.internal_symbol_crc]
         /\ [c EXCEPT !["lan_iface"] = v] =
              [k |-> c.k, lan_iface |-> v, internal_symbol_crc |-> c.internal_symbol_crc]
         /\ [c EXCEPT !["internal_symbol_crc"] = v] =
              [k |-> c.k, lan_iface |-> c.lan_iface, internal_symbol_crc |-> v]
<1>1. c = [k |-> c.k, lan_iface |-> c.lan_iface, internal_symbol_crc |-> c.internal_symbol_crc]
  BY DEF Chosen
<1>2. ASSUME NEW x, NEW y, NEW z, c = [k |-> x, lan_iface |-> y, internal_symbol_crc |-> z]
      PROVE  /\ [c EXCEPT !["k"] = v] = [k |-> v, lan_iface |-> y, internal_symbol_crc |-> z]
             /\ [c EXCEPT !["lan_iface"] = v] = [k |-> x, lan_iface |-> v, internal_symbol_crc |-> z]
             /\ [c EXCEPT !["internal_symbol_crc"] = v] = [k |-> x, lan_iface |-> y, internal_symbol_crc |-> v]
  <2>1. [c EXCEPT !["k"] = v] = [k |-> v, lan_iface |-> y, internal_symbol_crc |-> z]
    BY <1>2
  <2>2. [c EXCEPT !["lan_iface"] = v] = [k |-> x, lan_iface |-> v, internal_symbol_crc |-> z]
    BY <1>2
  <2>3. [c EXCEPT !["internal_symbol_crc"] = v] = [k |-> x, lan_iface |-> y, internal_symbol_crc |-> v]
    BY <1>2
  <2> QED BY <2>1, <2>2, <2>3
<1> QED BY <1>1, <1>2

LEMMA CleanIs ==
  ASSUME NEW c, Chosen(c)
  PROVE  /\ Form!Clean(c) = [k |-> c.k, lan_iface |-> Form!Strip(c.lan_iface),
                             internal_symbol_crc |-> c.internal_symbol_crc]
         /\ Chosen(Form!Clean(c)) /\ Form!Clean(Form!Clean(c)) = Form!Clean(c)
<1>1. c = [k |-> c.k, lan_iface |-> c.lan_iface, internal_symbol_crc |-> c.internal_symbol_crc]
      /\ c.lan_iface \in Form!Names
  BY DEF Chosen
<1>2. Form!Clean(c) = [k |-> c.k, lan_iface |-> Form!Strip(c.lan_iface),
                       internal_symbol_crc |-> c.internal_symbol_crc]
  BY <1>1 DEF Form!Clean
<1>3. Form!Strip(c.lan_iface) \in Form!Names
      /\ Form!Strip(Form!Strip(c.lan_iface)) = Form!Strip(c.lan_iface)
  BY <1>1 DEF Form!Strip, Form!Names
<1>4. Chosen(Form!Clean(c))
  BY <1>2, <1>3 DEF Chosen
<1>5. Form!Clean(Form!Clean(c)) = Form!Clean(c)
  BY <1>2, <1>3 DEF Form!Clean
<1> QED BY <1>2, <1>4, <1>5

\* The same field of two configurations that are stripped alike is changed alike.
LEMMA FieldsAlike ==
  ASSUME NEW c, Chosen(c), NEW d, Chosen(d), Form!Clean(c) = Form!Clean(d),
         NEW f \in {"k", "lan_iface", "internal_symbol_crc"}, NEW v,
         f = "lan_iface" => v \in Form!Names
  PROVE  /\ Chosen([c EXCEPT ![f] = v]) /\ Chosen([d EXCEPT ![f] = v])
         /\ Form!Clean([c EXCEPT ![f] = v]) = Form!Clean([d EXCEPT ![f] = v])
<1>1. c.k = d.k /\ c.internal_symbol_crc = d.internal_symbol_crc
      /\ Form!Strip(c.lan_iface) = Form!Strip(d.lan_iface)
      /\ c.lan_iface \in Form!Names /\ d.lan_iface \in Form!Names
  <2>1. Form!Clean(c).k = Form!Clean(d).k
        /\ Form!Clean(c).internal_symbol_crc = Form!Clean(d).internal_symbol_crc
        /\ Form!Clean(c).lan_iface = Form!Clean(d).lan_iface
    OBVIOUS
  <2> QED BY <2>1, CleanIs DEF Chosen
<1>2. CASE f = "k"
  <2> DEFINE cc == [k |-> v, lan_iface |-> c.lan_iface, internal_symbol_crc |-> c.internal_symbol_crc]
             dd == [k |-> v, lan_iface |-> d.lan_iface, internal_symbol_crc |-> d.internal_symbol_crc]
  <2>1. [c EXCEPT ![f] = v] = cc /\ [d EXCEPT ![f] = v] = dd
    BY <1>2, SetField
  <2>2. Chosen(cc) /\ Chosen(dd)
    BY <1>1 DEF Chosen
  <2>3. Form!Clean(cc) = Form!Clean(dd)
    BY <1>1, <2>2, CleanIs
  <2> QED BY <2>1, <2>2, <2>3
<1>3. CASE f = "lan_iface"
  <2> DEFINE cc == [k |-> c.k, lan_iface |-> v, internal_symbol_crc |-> c.internal_symbol_crc]
             dd == [k |-> d.k, lan_iface |-> v, internal_symbol_crc |-> d.internal_symbol_crc]
  <2>1. [c EXCEPT ![f] = v] = cc /\ [d EXCEPT ![f] = v] = dd
    BY <1>3, SetField
  <2>2. Chosen(cc) /\ Chosen(dd)
    BY <1>3 DEF Chosen
  <2>3. Form!Clean(cc) = Form!Clean(dd)
    BY <1>1, <2>2, CleanIs
  <2> QED BY <2>1, <2>2, <2>3
<1>4. CASE f = "internal_symbol_crc"
  <2> DEFINE cc == [k |-> c.k, lan_iface |-> c.lan_iface, internal_symbol_crc |-> v]
             dd == [k |-> d.k, lan_iface |-> d.lan_iface, internal_symbol_crc |-> v]
  <2>1. [c EXCEPT ![f] = v] = cc /\ [d EXCEPT ![f] = v] = dd
    BY <1>4, SetField
  <2>2. Chosen(cc) /\ Chosen(dd)
    BY <1>1 DEF Chosen
  <2>3. Form!Clean(cc) = Form!Clean(dd)
    BY <1>1, <2>2, CleanIs
  <2> QED BY <2>1, <2>2, <2>3
<1> QED BY <1>2, <1>3, <1>4

Sending(n) == reqs[n].stage # "none"

\* The requests made so far, and what they can carry
ReqsTyped ==
  /\ saves \in 0 .. MaxSaves
  /\ reqs = [n \in 0 .. MaxSaves |-> [stage |-> reqs[n].stage, config |-> reqs[n].config]]
  /\ \A n \in 0 .. MaxSaves : reqs[n].stage \in {"none", "sent", "ok", "rejected"}
  /\ \A n \in 0 .. MaxSaves : Sending(n) => n <= saves
  /\ \A n \in 0 .. MaxSaves :
       (Sending(n) /\ n # 0) \/ reqs[n].stage = "ok" => Chosen(reqs[n].config)

\* The GET of the mount comes before the form, and the form before any save.
FormTyped ==
  /\ lost \in Nat
  /\ error \in BOOLEAN /\ requiresRestart \in BOOLEAN
  /\ Chosen(stored) /\ Form!Clean(stored) = stored
  /\ draft # Form!NoConfig => Chosen(draft) /\ Chosen(persisted) /\ Chosen(meant)
  /\ saves # 0 => draft # Form!NoConfig
  /\ Sending(0) => draft = Form!NoConfig
  /\ status = "saving" => ~error

\* While the user waits for each answer, one request at most is under way: the
\* draft is what it carries, up to blanks, and what was chosen.
Waiting ==
  /\ \A n, i \in 0 .. MaxSaves : Sending(n) /\ Sending(i) => n = i
  /\ \A n \in 0 .. MaxSaves : Sending(n) /\ n # 0 =>
       status = "saving" /\ Form!Clean(reqs[n].config) = Form!Clean(draft)
  /\ draft # Form!NoConfig => Form!Clean(draft) = Form!Clean(meant)

\* With nothing lost, a good answer on its way has what is on disk, and without
\* one it is persisted.
OnDisk ==
  /\ \A n \in 0 .. MaxSaves : reqs[n].stage = "ok" => reqs[n].config = stored
  /\ draft # Form!NoConfig /\ (\A n \in 0 .. MaxSaves : reqs[n].stage # "ok")
       => persisted = stored

FormInv == ReqsTyped /\ FormTyped /\ (~raced => Waiting) /\ (~raced /\ lost = 0 => OnDisk)

LEMMA FormInit ==
  ASSUME MaxSaves \in Nat
  PROVE  Form!Init => FormInv
<1> SUFFICES ASSUME Form!Init PROVE FormInv
  OBVIOUS
<1> USE DEF Sending
<1>1. /\ draft = Form!NoConfig /\ status = "loading" /\ error = FALSE /\ requiresRestart = FALSE
      /\ saves = 0 /\ lost = 0
      /\ reqs = [n \in 0 .. MaxSaves |->
                   IF n = 0 THEN [stage |-> "sent", config |-> Form!NoConfig]
                            ELSE [stage |-> "none", config |-> Form!NoConfig]]
  BY DEF Form!Init, Form!Absent
<1>2. Chosen(stored) /\ Form!Clean(stored) = stored
  <2>1. stored \in [k : {KMin, KMax}, lan_iface : {"eth0"}, internal_symbol_crc : {TRUE}]
    BY DEF Form!Init
  <2>2. Chosen(stored) /\ stored.lan_iface = "eth0"
    BY <2>1 DEF Chosen, Form!Names
  <2>3. Form!Clean(stored) = stored
    <3>1. Form!Strip(stored.lan_iface) = stored.lan_iface
      BY <2>2 DEF Form!Strip
    <3> QED BY <2>2, <3>1, CleanIs DEF Chosen
  <2> QED BY <2>2, <2>3
<1>3. \A n \in 0 .. MaxSaves : /\ reqs[n].stage = IF n = 0 THEN "sent" ELSE "none"
                               /\ reqs[n].config = Form!NoConfig
  BY <1>1
<1>4. reqs = [n \in 0 .. MaxSaves |-> [stage |-> reqs[n].stage, config |-> reqs[n].config]]
  BY <1>1
<1>5. ReqsTyped /\ FormTyped
  <2>1. \A n \in 0 .. MaxSaves : reqs[n].stage \in {"none", "sent", "ok", "rejected"}
    BY <1>3
  <2>2. \A n \in 0 .. MaxSaves : Sending(n) => n = 0 /\ reqs[n].stage # "ok"
    BY <1>3
  <2>3. \A n \in 0 .. MaxSaves : reqs[n].stage = "ok" => Sending(n)
    OBVIOUS
  <2>4. saves \in 0 .. MaxSaves /\ lost \in Nat
    BY <1>1
  <2>7. error \in BOOLEAN /\ requiresRestart \in BOOLEAN
    BY <1>1, Zenon
  <2>5. status # "saving"
    BY <1>1
  <2> HIDE DEF Sending
  <2>6. /\ \A n \in 0 .. MaxSaves : Sending(n) => n <= saves
        /\ \A n \in 0 .. MaxSaves :
             (Sending(n) /\ n # 0) \/ reqs[n].stage = "ok" => Chosen(reqs[n].config)
    BY <1>1, <2>2, <2>3
  <2> QED BY <1>1, <1>2, <1>4, <2>1, <2>4, <2>5, <2>6, <2>7, Zenon DEF ReqsTyped, FormTyped
<1>6. Waiting /\ OnDisk
  BY <1>1, <1>3 DEF Waiting, OnDisk
<1> QED BY <1>5, <1>6 DEF FormInv

\* One request changes.
LEMMA RequestIs ==
  ASSUME MaxSaves \in Nat, ReqsTyped, NEW n \in 0 .. MaxSaves, NEW r,
         r = [stage |-> r.stage, config |-> r.config],
         r.stage \in {"none", "sent", "ok", "rejected"},
         r.stage # "none" => n <= saves' /\ (n # 0 \/ r.stage = "ok" => Chosen(r.config)),
         saves' \in saves .. MaxSaves,
         reqs' = [reqs EXCEPT ![n] = r]
  PROVE  ReqsTyped' /\ \A i \in 0 .. MaxSaves : reqs'[i] = IF i = n THEN r ELSE reqs[i]
<1>1. reqs = [i \in 0 .. MaxSaves |-> [stage |-> reqs[i].stage, config |-> reqs[i].config]]
      /\ saves \in 0 .. MaxSaves
  BY DEF ReqsTyped
<1>2. reqs' = [i \in 0 .. MaxSaves |-> reqs'[i]]
      /\ \A i \in 0 .. MaxSaves : reqs'[i] = IF i = n THEN r ELSE reqs[i]
  BY <1>1
<1>3. \A i \in 0 .. MaxSaves : reqs'[i] = [stage |-> reqs'[i].stage, config |-> reqs'[i].config]
  BY <1>1, <1>2
<1>4. reqs' = [i \in 0 .. MaxSaves |-> [stage |-> reqs'[i].stage, config |-> reqs'[i].config]]
  BY <1>2, <1>3
<1>5. \A i \in 0 .. MaxSaves : reqs'[i].stage \in {"none", "sent", "ok", "rejected"}
  BY <1>2 DEF ReqsTyped
<1>6. \A i \in 0 .. MaxSaves : Sending(i)' => i <= saves'
  <2>1. \A i \in 0 .. MaxSaves : i # n => (Sending(i)' => Sending(i))
    BY <1>2 DEF Sending
  <2>2. \A i \in 0 .. MaxSaves : Sending(i) => i <= saves'
    BY <1>1 DEF ReqsTyped
  <2>3. Sending(n)' => n <= saves'
    BY <1>2 DEF Sending
  <2> QED BY <2>1, <2>2, <2>3
<1>7. ASSUME NEW i \in 0 .. MaxSaves, (Sending(i)' /\ i # 0) \/ reqs'[i].stage = "ok"
      PROVE  Chosen(reqs'[i].config)
  <2>1. CASE i = n
    BY <1>2, <1>7, <2>1 DEF Sending
  <2>2. CASE i # n
    BY <1>2, <1>7, <2>2 DEF Sending, ReqsTyped
  <2> QED BY <2>1, <2>2
<1>8. saves' \in 0 .. MaxSaves
  BY <1>1
<1> QED BY <1>2, <1>4, <1>5, <1>6, <1>7, <1>8 DEF ReqsTyped

LEMMA StageIs ==
  ASSUME ReqsTyped, NEW n \in 0 .. MaxSaves, NEW s, reqs' = [reqs EXCEPT ![n].stage = s]
  PROVE  reqs' = [reqs EXCEPT ![n] = [stage |-> s, config |-> reqs[n].config]]
<1>1. reqs[n] = [stage |-> reqs[n].stage, config |-> reqs[n].config]
  BY DEF ReqsTyped
<1>2. [reqs[n] EXCEPT !.stage = s] = [stage |-> s, config |-> reqs[n].config]
  BY <1>1
<1>3. reqs' = [reqs EXCEPT ![n] = [reqs[n] EXCEPT !.stage = s]]
  OBVIOUS
<1> QED BY <1>2, <1>3

\* The answer to the request at mount: what is on disk.
LEMMA ServeGetKeeps == ASSUME MaxSaves \in Nat, FormInv, Form!ServeGet PROVE FormInv'
<1> DEFINE r == [stage |-> "ok", config |-> stored]
<1>1. /\ reqs[0].stage = "sent" /\ reqs' = [reqs EXCEPT ![0] = r]
      /\ UNCHANGED <<persisted, draft, status, error, requiresRestart, saves, lost, stored, meant, raced>>
  BY DEF Form!ServeGet, Form!view, Form!history
<1>2. r = [stage |-> r.stage, config |-> r.config] /\ r.stage = "ok" /\ r.config = stored
  OBVIOUS
<1> HIDE DEF r
<1>3. ReqsTyped /\ FormTyped /\ 0 \in 0 .. MaxSaves
  BY DEF FormInv
<1>4. ReqsTyped' /\ \A i \in 0 .. MaxSaves : reqs'[i] = IF i = 0 THEN r ELSE reqs[i]
  <2>1. saves' \in saves .. MaxSaves /\ 0 <= saves' /\ Chosen(r.config)
    BY <1>1, <1>2, <1>3 DEF ReqsTyped, FormTyped
  <2> QED BY <1>1, <1>2, <1>3, <2>1, RequestIs
<1>5. Sending(0) /\ draft = Form!NoConfig
  BY <1>1, <1>3 DEF Sending, FormTyped
<1>6. FormTyped'
  BY <1>1, <1>3, <1>5 DEF FormTyped, Chosen
<1>7. ASSUME Waiting PROVE Waiting'
  BY <1>1, <1>4, <1>5, <1>7 DEF Waiting, Sending
<1>8. ASSUME OnDisk PROVE OnDisk'
  BY <1>1, <1>2, <1>4, <1>5, <1>8 DEF OnDisk
<1> QED BY <1>1, <1>4, <1>6, <1>7, <1>8 DEF FormInv

\* The bridge takes a configuration stripped, or leaves what it has.
LEMMA ServeSaveKeeps ==
  ASSUME MaxSaves \in Nat, FormInv, NEW n \in 0 .. MaxSaves, Form!ServeSave(n)
  PROVE  FormInv'
<1> DEFINE cfg == Form!Clean(reqs[n].config)
           r == IF Form!Valid(cfg) THEN [stage |-> "ok", config |-> cfg]
                                   ELSE [stage |-> "rejected", config |-> reqs[n].config]
<1>1. /\ n # 0 /\ reqs[n].stage = "sent"
      /\ UNCHANGED <<persisted, draft, status, error, requiresRestart, saves, lost, meant, raced>>
  BY DEF Form!ServeSave, Form!view, Form!history
<1>2. ReqsTyped /\ FormTyped
  BY DEF FormInv
<1>3. /\ reqs' = [reqs EXCEPT ![n] = r]
      /\ stored' = IF Form!Valid(cfg) THEN cfg ELSE stored
  <2>1. CASE Form!Valid(cfg)
    BY <2>1 DEF Form!ServeSave
  <2>2. CASE ~Form!Valid(cfg)
    BY <1>2, <2>2, StageIs DEF Form!ServeSave
  <2> QED BY <2>1, <2>2
<1>4. Sending(n) /\ n <= saves /\ Chosen(reqs[n].config)
  BY <1>1, <1>2 DEF Sending, ReqsTyped
<1>5. Chosen(cfg) /\ Form!Clean(cfg) = cfg
  BY <1>4, CleanIs
<1>6. /\ r = [stage |-> r.stage, config |-> r.config] /\ r.stage \in {"ok", "rejected"}
      /\ Chosen(r.config) /\ Form!Clean(r.config) = cfg
      /\ r.stage = "ok" => r.config = stored'
      /\ r.stage = "rejected" => stored' = stored
  BY <1>3, <1>4, <1>5
<1> HIDE DEF r, cfg
<1>7. ReqsTyped' /\ \A i \in 0 .. MaxSaves : reqs'[i] = IF i = n THEN r ELSE reqs[i]
  <2>1. saves' \in saves .. MaxSaves /\ n <= saves'
    BY <1>1, <1>2, <1>4 DEF ReqsTyped
  <2>2. /\ r.stage \in {"none", "sent", "ok", "rejected"}
        /\ r.stage # "none" => n <= saves' /\ (n # 0 \/ r.stage = "ok" => Chosen(r.config))
    BY <1>6, <2>1
  <2> QED BY <1>2, <1>3, <1>6, <2>1, <2>2, RequestIs
<1>8. FormTyped'
  <2>1. Chosen(stored') /\ Form!Clean(stored') = stored'
    BY <1>2, <1>3, <1>5 DEF FormTyped
  <2>2. Sending(0)' => Sending(0)
    BY <1>1, <1>7 DEF Sending
  <2> QED BY <1>1, <1>2, <2>1, <2>2 DEF FormTyped, Chosen
<1>9. \A i \in 0 .. MaxSaves : Sending(i)' => Sending(i)
  BY <1>4, <1>7 DEF Sending
<1>10. ASSUME Waiting PROVE Waiting'
  <2>1. \A i, j \in 0 .. MaxSaves : Sending(i)' /\ Sending(j)' => i = j
    BY <1>9, <1>10 DEF Waiting
  <2>2. ASSUME NEW i \in 0 .. MaxSaves, Sending(i)', i # 0
        PROVE  status' = "saving" /\ Form!Clean(reqs'[i].config) = Form!Clean(draft')
    <3>1. i = n
      BY <1>4, <1>9, <1>10, <2>2 DEF Waiting
    <3>2. Form!Clean(r.config) = Form!Clean(draft) /\ status = "saving"
      BY <1>1, <1>4, <1>6, <1>10 DEF Waiting, cfg
    <3> QED BY <1>1, <1>7, <3>1, <3>2
  <2>3. draft' # Form!NoConfig => Form!Clean(draft') = Form!Clean(meant')
    BY <1>1, <1>10 DEF Waiting
  <2> QED BY <2>1, <2>2, <2>3 DEF Waiting
<1>11. ASSUME Waiting, OnDisk PROVE OnDisk'
  <2>1. \A i \in 0 .. MaxSaves : reqs'[i].stage = "ok" => i = n
    BY <1>4, <1>7, <1>11 DEF Waiting, Sending
  <2>2. \A i \in 0 .. MaxSaves : reqs'[i].stage = "ok" => reqs'[i].config = stored'
    BY <1>6, <1>7, <2>1
  <2>3. ASSUME draft' # Form!NoConfig, \A i \in 0 .. MaxSaves : reqs'[i].stage # "ok"
        PROVE  persisted' = stored'
    <3>1. r.stage = "rejected" /\ stored' = stored
      BY <1>6, <1>7, <2>3
    <3>2. \A i \in 0 .. MaxSaves : reqs[i].stage # "ok"
      BY <1>1, <1>7, <2>3
    <3> QED BY <1>1, <1>11, <2>3, <3>1, <3>2 DEF OnDisk
  <2> QED BY <2>2, <2>3 DEF OnDisk
<1> QED BY <1>1, <1>7, <1>8, <1>10, <1>11 DEF FormInv

\* From now on something is lost.
LEMMA LoseKeeps ==
  ASSUME MaxSaves \in Nat, FormInv, NEW n \in 0 .. MaxSaves, Form!Lose(n)
  PROVE  FormInv'
<1> DEFINE r == [stage |-> "rejected", config |-> reqs[n].config]
<1>1. /\ reqs[n].stage \in {"sent", "ok"} /\ lost' = lost + 1
      /\ UNCHANGED <<persisted, draft, status, error, requiresRestart, saves, stored, meant, raced>>
  BY DEF Form!Lose, Form!view, Form!history
<1>2. ReqsTyped /\ FormTyped
  BY DEF FormInv
<1>3. reqs' = [reqs EXCEPT ![n] = r]
  BY <1>2, StageIs DEF Form!Lose
<1>4. r = [stage |-> r.stage, config |-> r.config] /\ r.stage = "rejected" /\ r.config = reqs[n].config
  OBVIOUS
<1> HIDE DEF r
<1>5. Sending(n) /\ n <= saves /\ (n # 0 => Chosen(reqs[n].config))
  BY <1>1, <1>2 DEF Sending, ReqsTyped
<1>6. ReqsTyped' /\ \A i \in 0 .. MaxSaves : reqs'[i] = IF i = n THEN r ELSE reqs[i]
  <2>1. saves' \in saves .. MaxSaves /\ n <= saves'
    BY <1>1, <1>2, <1>5 DEF ReqsTyped
  <2> QED BY <1>2, <1>3, <1>4, <1>5, <2>1, RequestIs
<1>7. \A i \in 0 .. MaxSaves : (Sending(i)' => Sending(i)) /\ reqs'[i].config = reqs[i].config
  BY <1>4, <1>5, <1>6 DEF Sending
<1>8. lost' \in Nat /\ lost' # 0
  BY <1>1, <1>2 DEF FormTyped
<1>9. FormTyped'
  <2>1. Sending(0)' => Sending(0)
    BY <1>7
  <2> QED BY <1>1, <1>2, <1>8, <2>1 DEF FormTyped, Chosen
<1>10. ASSUME Waiting PROVE Waiting'
  BY <1>1, <1>7, <1>10 DEF Waiting
<1> QED BY <1>1, <1>6, <1>8, <1>9, <1>10 DEF FormInv

\* A request is over.
LEMMA OverIs ==
  ASSUME MaxSaves \in Nat, ReqsTyped, NEW n \in 0 .. MaxSaves,
         reqs' = [reqs EXCEPT ![n] = Form!Absent], saves' = saves
  PROVE  /\ ReqsTyped'
         /\ \A i \in 0 .. MaxSaves : reqs'[i] = IF i = n THEN Form!Absent ELSE reqs[i]
         /\ \A i \in 0 .. MaxSaves : (Sending(i)' <=> Sending(i) /\ i # n)
         /\ reqs'[n].stage = "none"
<1> DEFINE r == Form!Absent
<1>1. r = [stage |-> r.stage, config |-> r.config] /\ r.stage = "none"
  BY DEF Form!Absent
<1> HIDE DEF r
<1>2. saves' \in saves .. MaxSaves
  BY DEF ReqsTyped
<1>3. ReqsTyped' /\ \A i \in 0 .. MaxSaves : reqs'[i] = IF i = n THEN r ELSE reqs[i]
  BY <1>1, <1>2, RequestIs DEF r
<1> QED BY <1>1, <1>3 DEF r, Sending

LEMMA AnswerBadKeeps ==
  ASSUME MaxSaves \in Nat, FormInv, NEW n \in 0 .. MaxSaves, Form!AnswerBad(n)
  PROVE  FormInv'
<1>1. /\ reqs[n].stage = "rejected" /\ status' = "error" /\ error' = TRUE
      /\ reqs' = [reqs EXCEPT ![n] = Form!Absent]
      /\ UNCHANGED <<persisted, draft, requiresRestart, saves, lost, stored, meant, raced>>
  BY DEF Form!AnswerBad, Form!history
<1>2. ReqsTyped /\ FormTyped
  BY DEF FormInv
<1>3. /\ ReqsTyped' /\ reqs'[n].stage = "none"
      /\ \A i \in 0 .. MaxSaves : reqs'[i] = IF i = n THEN Form!Absent ELSE reqs[i]
      /\ \A i \in 0 .. MaxSaves : (Sending(i)' <=> Sending(i) /\ i # n)
  BY <1>1, <1>2, OverIs
<1>4. FormTyped'
  <2>1. Sending(0)' => Sending(0)
    BY <1>3
  <2>2. error' \in BOOLEAN /\ status' # "saving"
    BY <1>1
  <2> QED BY <1>1, <1>2, <2>1, <2>2 DEF FormTyped, Chosen
<1>5. ASSUME Waiting PROVE Waiting'
  <2>1. Sending(n)
    BY <1>1 DEF Sending
  <2>2. \A i \in 0 .. MaxSaves : ~Sending(i)'
    BY <1>3, <1>5, <2>1 DEF Waiting
  <2> QED BY <1>1, <1>5, <2>2 DEF Waiting
<1>6. ASSUME OnDisk PROVE OnDisk'
  <2>1. \A i \in 0 .. MaxSaves : i # n => reqs'[i] = reqs[i]
    BY <1>3
  <2>2. \A i \in 0 .. MaxSaves : reqs'[i].stage = "ok" => i # n /\ reqs'[i] = reqs[i]
    BY <1>3, <2>1
  <2>3. (\A i \in 0 .. MaxSaves : reqs'[i].stage # "ok") => \A i \in 0 .. MaxSaves : reqs[i].stage # "ok"
    BY <1>1, <2>1
  <2> QED BY <1>1, <1>6, <2>2, <2>3 DEF OnDisk
<1> QED BY <1>1, <1>3, <1>4, <1>5, <1>6 DEF FormInv

\* What a good answer carries is shown, and was chosen.
LEMMA AnswerKeeps ==
  ASSUME MaxSaves \in Nat, FormInv, NEW n \in 0 .. MaxSaves, Form!Answer(n)
  PROVE  FormInv'
<1> DEFINE c == reqs[n].config
<1>1. /\ reqs[n].stage = "ok" /\ status' = "idle"
      /\ persisted' = c /\ draft' = c /\ meant' = IF n = 0 THEN c ELSE meant
      /\ requiresRestart' = (requiresRestart \/ n # 0)
      /\ reqs' = [reqs EXCEPT ![n] = Form!Absent]
      /\ UNCHANGED <<error, saves, lost, stored, raced>>
  BY DEF Form!Answer
<1>2. ReqsTyped /\ FormTyped
  BY DEF FormInv
<1>3. Sending(n) /\ Chosen(c) /\ n <= saves /\ saves \in 0 .. MaxSaves
  BY <1>1, <1>2 DEF Sending, ReqsTyped
<1> HIDE DEF c
<1>4. /\ ReqsTyped' /\ reqs'[n].stage = "none"
      /\ \A i \in 0 .. MaxSaves : reqs'[i] = IF i = n THEN Form!Absent ELSE reqs[i]
      /\ \A i \in 0 .. MaxSaves : (Sending(i)' <=> Sending(i) /\ i # n)
  BY <1>1, <1>2, OverIs
<1>5. n # 0 => draft # Form!NoConfig
  BY <1>2, <1>3 DEF FormTyped
<1>6. draft' # Form!NoConfig /\ Chosen(draft') /\ Chosen(persisted') /\ Chosen(meant')
  <2>1. n # 0 => Chosen(meant)
    BY <1>2, <1>5 DEF FormTyped
  <2> QED BY <1>1, <1>3, <2>1, ChosenIsConfig
<1>7. FormTyped'
  <2>1. ~Sending(0)'
    <3>1. n # 0 => ~Sending(0)
      BY <1>2, <1>5 DEF FormTyped
    <3> QED BY <1>4, <3>1
  <2>2. error' \in BOOLEAN /\ requiresRestart' \in BOOLEAN
    <3>1. (n # 0) \in BOOLEAN /\ requiresRestart \in BOOLEAN
      BY <1>2 DEF FormTyped
    <3> QED BY <1>1, <1>2, <3>1, Zenon DEF FormTyped
  <2> QED BY <1>1, <1>2, <1>6, <2>1, <2>2 DEF FormTyped
<1>8. ASSUME Waiting PROVE Waiting'
  <2>1. \A i \in 0 .. MaxSaves : ~Sending(i)'
    BY <1>3, <1>4, <1>8 DEF Waiting
  <2>2. Form!Clean(draft') = Form!Clean(meant')
    <3>1. n # 0 => Form!Clean(c) = Form!Clean(draft) /\ Form!Clean(draft) = Form!Clean(meant)
      BY <1>3, <1>5, <1>8 DEF Waiting, c
    <3> QED BY <1>1, <3>1
  <2> QED BY <2>1, <2>2 DEF Waiting
<1>9. ASSUME Waiting, OnDisk PROVE OnDisk'
  <2>1. \A i \in 0 .. MaxSaves : reqs'[i].stage # "ok"
    BY <1>3, <1>4, <1>8, <1>9 DEF Waiting, Sending
  <2>2. persisted' = stored'
    BY <1>1, <1>9 DEF OnDisk, c
  <2> QED BY <2>1, <2>2 DEF OnDisk
<1> QED BY <1>1, <1>4, <1>7, <1>8, <1>9 DEF FormInv

\* Acting with a request under way is a race.
LEMMA RacingIs ==
  ASSUME Form!Racing, ~raced'
  PROVE  ~raced /\ \A n \in 0 .. MaxSaves : ~Sending(n)
BY DEF Form!Racing, Form!InFlight, Sending

\* The draft and what is meant change alike; nothing is sent.
LEMMA DraftKeeps ==
  ASSUME FormInv, Form!FormShown, Form!Racing, Chosen(draft'), Chosen(meant'),
         Form!Clean(draft) = Form!Clean(meant) => Form!Clean(draft') = Form!Clean(meant'),
         UNCHANGED <<persisted, status, requiresRestart, reqs, saves, lost, stored>>,
         error' \in {error, FALSE}
  PROVE  FormInv'
<1>1. ReqsTyped /\ FormTyped /\ draft # Form!NoConfig /\ ~Sending(0)
  BY DEF FormInv, Form!FormShown, FormTyped
<1>2. draft' # Form!NoConfig
  BY ChosenIsConfig
<1>3. ReqsTyped'
  BY <1>1 DEF ReqsTyped, Sending
<1>4. FormTyped'
  <2>1. error' \in BOOLEAN /\ (status' = "saving" => ~error')
    <3>1. error \in BOOLEAN /\ (status = "saving" => ~error) /\ status' = status
      BY <1>1 DEF FormTyped
    <3>2. error' = error \/ error' = FALSE
      OBVIOUS
    <3>3. CASE error' = error
      BY <3>1, <3>3
    <3>4. CASE error' = FALSE
      BY <3>4
    <3> QED BY <3>2, <3>3, <3>4
  <2>2. ~Sending(0)'
    BY <1>1 DEF Sending
  <2> QED BY <1>1, <1>2, <2>1, <2>2 DEF FormTyped, Chosen
<1>5. ASSUME ~raced' PROVE Waiting'
  <2>1. Waiting /\ \A n \in 0 .. MaxSaves : ~Sending(n)
    BY <1>5, RacingIs DEF FormInv
  <2>2. \A n \in 0 .. MaxSaves : ~Sending(n)'
    BY <2>1 DEF Sending
  <2>3. Form!Clean(draft') = Form!Clean(meant')
    BY <1>1, <2>1 DEF Waiting
  <2> QED BY <2>2, <2>3 DEF Waiting
<1>6. ASSUME ~raced', lost' = 0 PROVE OnDisk'
  <2>1. OnDisk
    BY <1>6, RacingIs DEF FormInv
  <2> QED BY <1>1, <2>1 DEF OnDisk
<1> QED BY <1>3, <1>4, <1>5, <1>6 DEF FormInv

LEMMA EditKeeps ==
  ASSUME FormInv, NEW f \in {"k", "lan_iface", "internal_symbol_crc"}, NEW v,
         f = "lan_iface" => v \in Form!Names, Form!Edit(f, v)
  PROVE  FormInv'
<1>1. /\ Form!FormShown /\ Form!Racing
      /\ draft' = [draft EXCEPT ![f] = v] /\ meant' = [meant EXCEPT ![f] = v]
      /\ UNCHANGED <<persisted, status, error, requiresRestart, reqs, saves, lost, stored>>
  BY DEF Form!Edit
<1>2. Chosen(draft) /\ Chosen(meant)
  BY <1>1 DEF FormInv, FormTyped, Form!FormShown
<1>3. Chosen(draft') /\ Chosen(meant')
  <2>1. \A d : Chosen(d) => Chosen([d EXCEPT ![f] = v])
    BY FieldsAlike
  <2> QED BY <1>1, <1>2, <2>1
<1>4. Form!Clean(draft) = Form!Clean(meant) => Form!Clean(draft') = Form!Clean(meant')
  <2>1. ASSUME Form!Clean(draft) = Form!Clean(meant)
        PROVE  Form!Clean([draft EXCEPT ![f] = v]) = Form!Clean([meant EXCEPT ![f] = v])
    <3>1. \A c, d : /\ Chosen(c) /\ Chosen(d) /\ Form!Clean(c) = Form!Clean(d)
                  => Form!Clean([c EXCEPT ![f] = v]) = Form!Clean([d EXCEPT ![f] = v])
      BY FieldsAlike
    <3> QED BY <1>2, <2>1, <3>1
  <2> QED BY <1>1, <2>1
<1> QED BY <1>1, <1>3, <1>4, DraftKeeps

LEMMA RevertKeeps == ASSUME FormInv, Form!Revert PROVE FormInv'
<1>1. /\ Form!FormShown /\ Form!Racing /\ draft' = persisted /\ meant' = persisted /\ error' = FALSE
      /\ UNCHANGED <<persisted, status, requiresRestart, reqs, saves, lost, stored>>
  BY DEF Form!Revert
<1>2. Chosen(persisted)
  BY <1>1 DEF FormInv, FormTyped, Form!FormShown
<1> QED BY <1>1, <1>2, DraftKeeps

\* A configuration is shown and posted.
LEMMA PostKeeps ==
  ASSUME MaxSaves \in Nat, FormInv, NEW payload, Chosen(payload), Form!Post(payload), Form!Racing,
         Chosen(meant'),
         Form!Clean(draft) = Form!Clean(meant) => Form!Clean(payload) = Form!Clean(meant'),
         UNCHANGED <<persisted, requiresRestart, lost, stored>>
  PROVE  FormInv'
<1> DEFINE r == [stage |-> "sent", config |-> payload]
           n == saves + 1
<1>1. /\ Form!FormShown /\ saves < MaxSaves /\ saves' = saves + 1
      /\ draft' = payload /\ reqs' = [reqs EXCEPT ![n] = r]
      /\ status' = "saving" /\ error' = FALSE
  BY DEF Form!Post
<1>2. ReqsTyped /\ FormTyped /\ draft # Form!NoConfig /\ ~Sending(0) /\ saves \in 0 .. MaxSaves
  BY <1>1 DEF FormInv, Form!FormShown, FormTyped, ReqsTyped
<1>3. r = [stage |-> r.stage, config |-> r.config] /\ r.stage = "sent" /\ r.config = payload
  OBVIOUS
<1>4. /\ n \in 0 .. MaxSaves /\ n # 0 /\ saves' \in saves .. MaxSaves /\ n <= saves'
      /\ saves' # 0
  BY <1>1, <1>2
<1> HIDE DEF r, n
<1>5. ReqsTyped' /\ \A i \in 0 .. MaxSaves : reqs'[i] = IF i = n THEN r ELSE reqs[i]
  BY <1>1, <1>2, <1>3, <1>4, RequestIs
<1>6. draft' # Form!NoConfig
  BY <1>1, ChosenIsConfig
<1>7. FormTyped'
  <2>1. ~Sending(0)'
    BY <1>2, <1>4, <1>5 DEF Sending
  <2>2. error' \in BOOLEAN /\ ~error'
    BY <1>1
  <2> QED BY <1>1, <1>2, <1>6, <2>1, <2>2 DEF FormTyped, Chosen
<1>8. ASSUME ~raced' PROVE Waiting'
  <2>1. Waiting /\ \A i \in 0 .. MaxSaves : ~Sending(i)
    BY <1>8, RacingIs DEF FormInv
  <2>2. \A i \in 0 .. MaxSaves : Sending(i)' => i = n
    BY <1>5, <2>1 DEF Sending
  <2>3. Form!Clean(reqs'[n].config) = Form!Clean(draft')
    BY <1>1, <1>3, <1>4, <1>5
  <2>4. Form!Clean(draft') = Form!Clean(meant')
    BY <1>1, <1>2, <2>1 DEF Waiting
  <2> QED BY <1>1, <2>2, <2>3, <2>4 DEF Waiting
<1>9. ASSUME ~raced', lost' = 0 PROVE OnDisk'
  <2>1. OnDisk /\ \A i \in 0 .. MaxSaves : ~Sending(i)
    BY <1>9, RacingIs DEF FormInv
  <2>2. \A i \in 0 .. MaxSaves : reqs'[i].stage # "ok" /\ reqs[i].stage # "ok"
    BY <1>3, <1>5, <2>1 DEF Sending
  <2>3. persisted' = stored'
    BY <1>2, <2>1, <2>2 DEF OnDisk
  <2> QED BY <2>2, <2>3 DEF OnDisk
<1> QED BY <1>5, <1>7, <1>8, <1>9 DEF FormInv

LEMMA CommitKeeps ==
  ASSUME MaxSaves \in Nat, FormInv, NEW f \in {"k", "lan_iface", "internal_symbol_crc"}, NEW v,
         f = "lan_iface" => v \in Form!Names \/ v = draft.lan_iface, Form!Commit(f, v)
  PROVE  FormInv'
<1> DEFINE payload == [draft EXCEPT ![f] = v]
<1>1. /\ Form!Post(payload) /\ Form!Racing /\ meant' = [meant EXCEPT ![f] = v]
      /\ UNCHANGED <<persisted, requiresRestart, lost, stored>>
  BY DEF Form!Commit
<1>2. Chosen(draft) /\ Chosen(meant)
  BY <1>1 DEF FormInv, FormTyped, Form!FormShown, Form!Post
<1>3. f = "lan_iface" => v \in Form!Names
  BY <1>2 DEF Chosen
<1>4. Chosen(payload) /\ Chosen(meant')
  <2>1. \A d : Chosen(d) => Chosen([d EXCEPT ![f] = v])
    BY <1>3, FieldsAlike
  <2> QED BY <1>1, <1>2, <2>1
<1>5. Form!Clean(draft) = Form!Clean(meant) => Form!Clean(payload) = Form!Clean(meant')
  <2>0. \A c, d : Chosen(c) /\ Chosen(d) /\ Form!Clean(c) = Form!Clean(d)
          => Form!Clean([c EXCEPT ![f] = v]) = Form!Clean([d EXCEPT ![f] = v])
    BY <1>3, FieldsAlike
  <2>1. ASSUME Form!Clean(draft) = Form!Clean(meant)
        PROVE  Form!Clean([draft EXCEPT ![f] = v]) = Form!Clean([meant EXCEPT ![f] = v])
    BY <1>2, <2>0, <2>1
  <2> QED BY <1>1, <2>1
<1> HIDE DEF payload
<1> QED BY <1>1, <1>4, <1>5, PostKeeps

LEMMA ApplyKeeps == ASSUME MaxSaves \in Nat, FormInv, Form!Apply PROVE FormInv'
<1>1. /\ Form!Post(draft) /\ Form!Racing
      /\ UNCHANGED <<persisted, requiresRestart, lost, stored, meant>>
  BY DEF Form!Apply
<1>2. Chosen(draft) /\ Chosen(meant)
  BY <1>1 DEF FormInv, FormTyped, Form!FormShown, Form!Post
<1>3. Chosen(meant')
  BY <1>1, <1>2
<1> QED BY <1>1, <1>2, <1>3, PostKeeps

LEMMA FormStep ==
  ASSUME MaxSaves \in Nat
  PROVE  FormInv /\ [Form!Next]_(Form!vars) => FormInv'
<1> SUFFICES ASSUME FormInv, [Form!Next]_(Form!vars) PROVE FormInv'
  OBVIOUS
<1>1. ASSUME Form!ServeGet PROVE FormInv'
  BY <1>1, ServeGetKeeps
<1>2. ASSUME NEW n \in 0 .. MaxSaves,
             Form!ServeSave(n) \/ Form!Lose(n) \/ Form!Answer(n) \/ Form!AnswerBad(n)
      PROVE  FormInv'
  BY <1>2, ServeSaveKeeps, LoseKeeps, AnswerKeeps, AnswerBadKeeps
<1>3. ASSUME Form!Controls PROVE FormInv'
  <2>1. ASSUME NEW v, Form!Edit("k", v) \/ Form!Edit("internal_symbol_crc", v) PROVE FormInv'
    BY <2>1, EditKeeps
  <2>2. ASSUME NEW v \in Form!Names, Form!Edit("lan_iface", v) PROVE FormInv'
    BY <2>2, EditKeeps
  <2>3. ASSUME NEW v, Form!Commit("k", v) PROVE FormInv'
    BY <2>3, CommitKeeps
  <2>4. ASSUME Form!Commit("lan_iface", draft.lan_iface) PROVE FormInv'
    BY <2>4, CommitKeeps
  <2>5. ASSUME Form!Slide \/ Form!TypeNumber \/ Form!Toggle \/ Form!Preset PROVE FormInv'
    BY <2>1, <2>5 DEF Form!Slide, Form!TypeNumber, Form!Toggle, Form!Preset
  <2>6. ASSUME Form!TypeName PROVE FormInv'
    BY <2>2, <2>6 DEF Form!TypeName
  <2>7. ASSUME Form!TypeNumberEnter \/ Form!SlideEnter \/ Form!NameEnter PROVE FormInv'
    BY <2>3, <2>4, <2>7 DEF Form!TypeNumberEnter, Form!SlideEnter, Form!NameEnter
  <2>8. ASSUME Form!Apply \/ Form!Revert PROVE FormInv'
    BY <2>8, ApplyKeeps, RevertKeeps
  <2> QED BY <1>3, <2>5, <2>6, <2>7, <2>8 DEF Form!Controls
<1>4. CASE UNCHANGED Form!vars
  <2>1. UNCHANGED <<persisted, draft, status, error, requiresRestart, reqs, saves, lost, stored, meant, raced>>
    BY <1>4 DEF Form!vars, Form!view, Form!history
  <2> QED BY <2>1 DEF FormInv, ReqsTyped, FormTyped, Waiting, OnDisk, Sending, Chosen
<1> QED BY <1>1, <1>2, <1>3, <1>4 DEF Form!Next

LEMMA FormHolds == Form!Spec => []FormInv
<1>0. MaxSaves \in Nat
  BY PagesAssumption DEF PagesAssumption
<1>1. Form!Init => FormInv
  BY <1>0, FormInit
<1>2. FormInv /\ [Form!Next]_(Form!vars) => FormInv'
  BY <1>0, FormStep
<1> QED BY <1>1, <1>2, PTL DEF Form!Spec

\* While the user waits for each answer no edit is lost, whichever control it
\* came from and whatever is rejected or lost, for any bounds and any number of
\* saves.
THEOREM NoEditIsLost == Form!Spec => []DraftIsMeant
<1>1. FormInv => DraftIsMeant
  BY DEF FormInv, Waiting, DraftIsMeant, Form!DraftIsMeant, Form!FormShown
<1>2. Form!Spec => []FormInv
  BY FormHolds
<1> QED BY <1>1, <1>2, PTL

\* "Saved" and "In sync" are said of what is on disk and was chosen, and the dot
\* never contradicts the label.
THEOREM LabelTellsTheTruth == Form!Spec => []LabelIsTrue
<1>1. FormInv => LabelIsTrue
  <2> SUFFICES ASSUME FormInv, Form!FormShown PROVE LabelIsTrue
    BY DEF LabelIsTrue, Form!LabelIsTrue
  <2>1. /\ draft # Form!NoConfig /\ error \in BOOLEAN /\ requiresRestart \in BOOLEAN
        /\ status = "saving" => ~error
    BY DEF FormInv, FormTyped, Form!FormShown
  <2>2. /\ Form!Label = "Error" <=> error
        /\ Form!Label \in {"Saved", "In sync with bridge"} => status # "saving" /\ persisted = draft
        /\ Form!Dot = "danger" <=> error
        /\ Form!Label = "In sync with bridge" <=>
             status # "saving" /\ ~error /\ persisted = draft /\ ~requiresRestart
        /\ Form!Dot = "success" <=>
             status # "saving" /\ ~error /\ persisted = draft /\ ~requiresRestart
    BY <2>1 DEF Form!Label, Form!Dot, Form!Dirty
  <2>3. ASSUME ~raced, lost = 0, status # "saving", persisted = draft
        PROVE  persisted = stored /\ Form!Clean(meant) = stored
    <3>1. ReqsTyped /\ FormTyped /\ Waiting /\ OnDisk
      BY <2>3 DEF FormInv
    <3>2. \A n \in 0 .. MaxSaves : ~Sending(n)
      BY <2>1, <2>3, <3>1 DEF Waiting, FormTyped
    <3>3. persisted = stored
      BY <2>1, <3>1, <3>2 DEF OnDisk, Sending
    <3> QED BY <2>1, <2>3, <3>1, <3>3 DEF Waiting, FormTyped
  <2> QED BY <2>2, <2>3 DEF LabelIsTrue, Form!LabelIsTrue
<1>2. Form!Spec => []FormInv
  BY FormHolds
<1> QED BY <1>1, <1>2, PTL

-----------------------------------------------------------------------------
(* The channel impairment page                                               *)

Asks(r) == r = [iface |-> r.iface, stage |-> r.stage, model |-> r.model]

ChannelTyped ==
  /\ faults \in Nat /\ posts \in 0 .. MaxPosts /\ waiting \in 0 .. MaxPosts
  /\ qdisc = [i \in Ifaces |-> qdisc[i]] /\ iface \in Ifaces
  /\ gets = [s \in Emulation!Slots |-> gets[s]] /\ \A s \in Emulation!Slots : Asks(gets[s])
  /\ jobs = [n \in 1 .. MaxPosts |-> jobs[n]] /\ \A n \in 1 .. MaxPosts : Asks(jobs[n])
  /\ \A n \in 1 .. MaxPosts : jobs[n].stage # "none" => jobs[n].iface \in Ifaces

\* The page is busy until the refresh that follows its POST is answered.
PageBusy ==
  /\ waiting # 0 \/ gets["own"].stage # "none" => busy
  /\ waiting # 0 => gets["own"].stage = "none"

\* The bridge is at most at the last POST: what that has deleted is deleted, and
\* what earlier ones have left is what they asked for.
OneByOne ==
  /\ \A n \in 1 .. MaxPosts : jobs[n].stage \in {"sent", "deleted"} => n = posts
  /\ \A n \in 1 .. MaxPosts :
       jobs[n].stage = "deleted" => qdisc[jobs[n].iface] = Emulation!Clean
  /\ \A n \in 1 .. posts :
       jobs[n].stage = "answered" /\ (\A m \in n + 1 .. posts : jobs[m].iface # jobs[n].iface)
         => qdisc[jobs[n].iface] = jobs[n].model

OnePost == PageBusy /\ OneByOne

ChannelInv == ChannelTyped /\ (faults = 0 /\ ~apart => OnePost)

LEMMA SentAsks ==
  ASSUME NEW i, NEW m
  PROVE  /\ Asks(Emulation!Sent(i, m)) /\ Emulation!Sent(i, m).stage = "sent"
         /\ Emulation!Sent(i, m).iface = i
         /\ Asks(Emulation!None) /\ Emulation!None.stage = "none"
BY DEF Asks, Emulation!Sent, Emulation!None

\* One refresh changes.
LEMMA GetIs ==
  ASSUME ChannelTyped, NEW s \in Emulation!Slots, NEW r, Asks(r), gets' = [gets EXCEPT ![s] = r]
  PROVE  /\ gets' = [i \in Emulation!Slots |-> gets'[i]]
         /\ \A i \in Emulation!Slots : Asks(gets'[i])
         /\ \A i \in Emulation!Slots : gets'[i] = IF i = s THEN r ELSE gets[i]
<1>1. gets = [i \in Emulation!Slots |-> gets[i]] /\ \A i \in Emulation!Slots : Asks(gets[i])
  BY DEF ChannelTyped
<1>2. /\ gets' = [i \in Emulation!Slots |-> gets'[i]]
      /\ \A i \in Emulation!Slots : gets'[i] = IF i = s THEN r ELSE gets[i]
  BY <1>1
<1> QED BY <1>1, <1>2

\* One POST changes.
LEMMA JobIs ==
  ASSUME ChannelTyped, NEW n \in 1 .. MaxPosts, NEW r, Asks(r),
         r.stage # "none" => r.iface \in Ifaces,
         jobs' = [jobs EXCEPT ![n] = r]
  PROVE  /\ jobs' = [i \in 1 .. MaxPosts |-> jobs'[i]]
         /\ \A i \in 1 .. MaxPosts : Asks(jobs'[i])
         /\ \A i \in 1 .. MaxPosts : jobs'[i] = IF i = n THEN r ELSE jobs[i]
         /\ \A i \in 1 .. MaxPosts : jobs'[i].stage # "none" => jobs'[i].iface \in Ifaces
<1>1. /\ jobs = [i \in 1 .. MaxPosts |-> jobs[i]] /\ \A i \in 1 .. MaxPosts : Asks(jobs[i])
      /\ \A i \in 1 .. MaxPosts : jobs[i].stage # "none" => jobs[i].iface \in Ifaces
  BY DEF ChannelTyped
<1>2. /\ jobs' = [i \in 1 .. MaxPosts |-> jobs'[i]]
      /\ \A i \in 1 .. MaxPosts : jobs'[i] = IF i = n THEN r ELSE jobs[i]
  BY <1>1
<1> QED BY <1>1, <1>2

LEMMA GetStageIs ==
  ASSUME ChannelTyped, NEW n \in Emulation!Slots, NEW s, gets' = [gets EXCEPT ![n].stage = s]
  PROVE  gets' = [gets EXCEPT ![n] = [iface |-> gets[n].iface, stage |-> s, model |-> gets[n].model]]
<1>1. gets[n] = [iface |-> gets[n].iface, stage |-> gets[n].stage, model |-> gets[n].model]
  BY DEF Asks, ChannelTyped
<1>2. [gets[n] EXCEPT !.stage = s] = [iface |-> gets[n].iface, stage |-> s, model |-> gets[n].model]
  BY <1>1
<1>3. gets' = [gets EXCEPT ![n] = [gets[n] EXCEPT !.stage = s]]
  OBVIOUS
<1> QED BY <1>2, <1>3

LEMMA ShowIs ==
  ASSUME ChannelTyped, NEW n \in Emulation!Slots, Emulation!Show(n)
  PROVE  gets' = [gets EXCEPT ![n] = [iface |-> gets[n].iface, stage |-> "answered",
                                      model |-> qdisc[gets[n].iface]]]
<1> DEFINE s == "answered"
           m == qdisc[gets[n].iface]
<1>0. gets' = [gets EXCEPT ![n].stage = s, ![n].model = m]
  BY DEF Emulation!Show
<1> HIDE DEF s, m
<1> DEFINE a == [iface |-> gets[n].iface, stage |-> s, model |-> gets[n].model]
           b == [iface |-> gets[n].iface, stage |-> s, model |-> m]
           h == [gets EXCEPT ![n] = a]
<1>1. gets[n] = [iface |-> gets[n].iface, stage |-> gets[n].stage, model |-> gets[n].model]
      /\ gets = [i \in Emulation!Slots |-> gets[i]]
  BY DEF Asks, ChannelTyped
<1>2. [gets EXCEPT ![n].stage = s] = h
  <2>1. [gets[n] EXCEPT !.stage = s] = a
    BY <1>1
  <2>2. [gets EXCEPT ![n].stage = s] = [gets EXCEPT ![n] = [gets[n] EXCEPT !.stage = s]]
    OBVIOUS
  <2> QED BY <2>1, <2>2
<1>3. h = [i \in Emulation!Slots |-> h[i]] /\ h[n] = a
      /\ \A i \in Emulation!Slots : i # n => h[i] = gets[i]
  BY <1>1
<1>4. gets' = [h EXCEPT ![n].model = m]
  BY <1>0, <1>2
<1> HIDE DEF h
<1>5. [h EXCEPT ![n].model = m] = [h EXCEPT ![n] = [h[n] EXCEPT !.model = m]]
  OBVIOUS
<1>6. [h[n] EXCEPT !.model = m] = b
  BY <1>3
<1> HIDE DEF b
<1>7. [h EXCEPT ![n] = b] = [i \in Emulation!Slots |-> IF i = n THEN b ELSE gets[i]]
  BY <1>3
<1>8. [gets EXCEPT ![n] = b] = [i \in Emulation!Slots |-> IF i = n THEN b ELSE gets[i]]
  BY <1>1
<1> QED BY <1>4, <1>5, <1>6, <1>7, <1>8 DEF b, s, m

LEMMA JobStageIs ==
  ASSUME ChannelTyped, NEW n \in 1 .. MaxPosts, NEW s, jobs' = [jobs EXCEPT ![n].stage = s]
  PROVE  jobs' = [jobs EXCEPT ![n] = [iface |-> jobs[n].iface, stage |-> s, model |-> jobs[n].model]]
<1>1. jobs[n] = [iface |-> jobs[n].iface, stage |-> jobs[n].stage, model |-> jobs[n].model]
  BY DEF Asks, ChannelTyped
<1>2. [jobs[n] EXCEPT !.stage = s] = [iface |-> jobs[n].iface, stage |-> s, model |-> jobs[n].model]
  BY <1>1
<1>3. jobs' = [jobs EXCEPT ![n] = [jobs[n] EXCEPT !.stage = s]]
  OBVIOUS
<1> QED BY <1>2, <1>3

LEMMA ChannelInit ==
  ASSUME First \in Ifaces, MaxPosts \in Nat
  PROVE  Emulation!Init => ChannelInv
<1> SUFFICES ASSUME Emulation!Init PROVE ChannelInv
  OBVIOUS
<1>1. /\ qdisc \in [Ifaces -> {Emulation!Clean} \cup Models] /\ iface \in Ifaces
      /\ gets = [s \in Emulation!Slots |-> Emulation!None]
      /\ jobs = [n \in 1 .. MaxPosts |-> Emulation!None]
      /\ waiting = 0 /\ apart = FALSE /\ posts = 0 /\ faults = 0
  BY DEF Emulation!Init
<1>2. /\ \A s \in Emulation!Slots : gets[s] = Emulation!None
      /\ \A n \in 1 .. MaxPosts : jobs[n] = Emulation!None
      /\ "own" \in Emulation!Slots
  BY <1>1 DEF Emulation!Slots
<1>3. gets = [s \in Emulation!Slots |-> gets[s]] /\ jobs = [n \in 1 .. MaxPosts |-> jobs[n]]
  BY <1>1
<1>4. ChannelTyped
  BY <1>1, <1>2, <1>3, SentAsks DEF ChannelTyped
<1>5. OnePost
  BY <1>1, <1>2, SentAsks DEF OnePost, PageBusy, OneByOne
<1> QED BY <1>4, <1>5 DEF ChannelInv

\* Refreshes that apply() and clear() do not await
LEMMA TimerKeeps ==
  ASSUME ChannelInv, Emulation!Tick \/ \E i \in Ifaces : Emulation!Rename(i)
  PROVE  ChannelInv'
<1>1. ChannelTyped /\ UNCHANGED <<qdisc, busy, jobs, waiting, apart, posts, faults>>
  BY DEF ChannelInv, Emulation!Tick, Emulation!Rename, Emulation!page, Emulation!bounds
<1>2. /\ iface' \in Ifaces
      /\ gets' = [s \in Emulation!Slots |-> gets'[s]]
      /\ \A s \in Emulation!Slots : Asks(gets'[s])
      /\ gets'["own"] = gets["own"]
  <2>1. {"timer", "late", "own"} = Emulation!Slots
    BY DEF Emulation!Slots
  <2>2. CASE Emulation!Tick
    <3>1. gets' = [gets EXCEPT !["timer"] = Emulation!Sent(iface, Emulation!Clean)] /\ iface' = iface
      BY <2>2 DEF Emulation!Tick, Emulation!page
    <3> QED BY <1>1, <2>1, <3>1, GetIs, SentAsks DEF ChannelTyped
  <2>3. ASSUME NEW i \in Ifaces, Emulation!Rename(i)
        PROVE  /\ iface' \in Ifaces
               /\ gets' = [s \in Emulation!Slots |-> gets'[s]]
               /\ \A s \in Emulation!Slots : Asks(gets'[s])
               /\ gets'["own"] = gets["own"]
    <3> DEFINE r == Emulation!Sent(i, Emulation!Clean)
    <3>1. gets' = [gets EXCEPT !["late"] = gets["timer"], !["timer"] = r] /\ iface' = i
      BY <2>3 DEF Emulation!Rename
    <3>2. Asks(r)
      BY SentAsks
    <3> HIDE DEF r
    <3>3. gets = [s \in Emulation!Slots |-> gets[s]] /\ \A s \in Emulation!Slots : Asks(gets[s])
      BY <1>1 DEF ChannelTyped
    <3>4. /\ gets' = [s \in Emulation!Slots |-> gets'[s]]
          /\ gets'["own"] = gets["own"] /\ gets'["late"] = gets["timer"] /\ gets'["timer"] = r
      BY <2>1, <3>1, <3>3
    <3> QED BY <2>1, <3>1, <3>2, <3>3, <3>4
  <2> QED BY <2>2, <2>3
<1>3. ChannelTyped'
  BY <1>1, <1>2 DEF ChannelTyped
<1>4. ASSUME OnePost PROVE OnePost'
  BY <1>1, <1>2, <1>4 DEF OnePost, PageBusy, OneByOne
<1> QED BY <1>1, <1>3, <1>4 DEF ChannelInv

\* The page is opened again: it waits for nothing.
LEMMA RevisitKeeps ==
  ASSUME MaxPosts \in Nat, First \in Ifaces, ChannelInv, Emulation!Revisit
  PROVE  ChannelInv'
<1>1. /\ ChannelTyped /\ UNCHANGED <<qdisc, jobs, apart, posts, faults>>
      /\ iface' = First /\ waiting' = 0
      /\ gets' = [s \in Emulation!Slots |-> Emulation!None]
  BY DEF ChannelInv, Emulation!Revisit
<1>2. /\ gets' = [s \in Emulation!Slots |-> gets'[s]]
      /\ \A s \in Emulation!Slots : gets'[s] = Emulation!None
      /\ "own" \in Emulation!Slots
  BY <1>1 DEF Emulation!Slots
<1>3. ChannelTyped'
  <2>1. \A s \in Emulation!Slots : Asks(gets'[s])
    BY <1>2, SentAsks
  <2>2. waiting' \in 0 .. MaxPosts
    BY <1>1
  <2> QED BY <1>1, <1>2, <2>1, <2>2 DEF ChannelTyped
<1>4. ASSUME OnePost PROVE OnePost'
  BY <1>1, <1>2, <1>4, SentAsks DEF OnePost, PageBusy, OneByOne
<1> QED BY <1>1, <1>3, <1>4 DEF ChannelInv

\* A refresh is served or answered; the one that is awaited frees the buttons.
LEMMA RefreshKeeps ==
  ASSUME ChannelInv, NEW s \in Emulation!Slots,
         \/ Emulation!Refresh(s) \/ Emulation!RefreshFails(s)
         \/ Emulation!Show(s) \/ Emulation!ShowFails(s)
  PROVE  ChannelInv'
<1>1. ChannelTyped /\ UNCHANGED <<qdisc, iface, jobs, waiting, apart, posts>>
      /\ faults' \in {faults, faults + 1} /\ faults \in Nat
  BY DEF ChannelInv, ChannelTyped, Emulation!Refresh, Emulation!RefreshFails, Emulation!Show,
         Emulation!ShowFails, Emulation!Fault, Emulation!page, Emulation!bounds
<1>2. \E r : /\ Asks(r) /\ gets' = [gets EXCEPT ![s] = r] /\ gets[s].stage # "none"
             /\ \/ r.stage = "none" /\ busy' = (busy /\ s # "own")
                \/ busy' = busy /\ r.stage # "none"
  <2>1. gets = [i \in Emulation!Slots |-> gets[i]] /\ Asks(gets[s])
    BY <1>1 DEF ChannelTyped
  <2>2. CASE Emulation!Refresh(s) \/ Emulation!RefreshFails(s)
    BY <2>2, SentAsks DEF Emulation!Refresh, Emulation!RefreshFails
  <2>3. CASE Emulation!Show(s)
    <3> DEFINE r == [iface |-> gets[s].iface, stage |-> "answered", model |-> qdisc[gets[s].iface]]
    <3>1. gets' = [gets EXCEPT ![s] = r]
      BY <1>1, <2>3, ShowIs
    <3>2. /\ Asks(r) /\ busy' = busy /\ gets[s].stage = "sent"
          /\ r.stage = "answered" /\ gets[s].stage # "none" /\ r.stage # "none"
      BY <2>3 DEF Asks, Emulation!Show, Emulation!page
    <3> HIDE DEF r
    <3> QED BY <3>1, <3>2
  <2>4. CASE Emulation!ShowFails(s)
    <3> DEFINE r == [iface |-> gets[s].iface, stage |-> "answered", model |-> gets[s].model]
    <3>1. gets' = [gets EXCEPT ![s] = r]
      BY <1>1, <2>4, GetStageIs DEF Emulation!ShowFails
    <3>2. /\ Asks(r) /\ busy' = busy /\ gets[s].stage = "sent"
          /\ r.stage = "answered" /\ gets[s].stage # "none" /\ r.stage # "none"
      BY <2>4 DEF Asks, Emulation!ShowFails, Emulation!page
    <3> HIDE DEF r
    <3> QED BY <3>1, <3>2
  <2> QED BY <2>2, <2>3, <2>4
<1>3. PICK r : /\ Asks(r) /\ gets' = [gets EXCEPT ![s] = r] /\ gets[s].stage # "none"
               /\ \/ r.stage = "none" /\ busy' = (busy /\ s # "own")
                  \/ busy' = busy /\ r.stage # "none"
  BY <1>2
<1>4. /\ gets' = [i \in Emulation!Slots |-> gets'[i]]
      /\ \A i \in Emulation!Slots : Asks(gets'[i])
      /\ \A i \in Emulation!Slots : gets'[i] = IF i = s THEN r ELSE gets[i]
  BY <1>1, <1>3, GetIs
<1>5. ChannelTyped'
  BY <1>1, <1>4 DEF ChannelTyped
<1>6. ASSUME OnePost, faults' = faults PROVE OnePost'
  <2>1. "own" \in Emulation!Slots
    BY DEF Emulation!Slots
  <2>2. gets'["own"] = IF s = "own" THEN r ELSE gets["own"]
    BY <1>4, <2>1
  <2>3. waiting' # 0 \/ gets'["own"].stage # "none" => busy'
    <3>1. CASE s # "own"
      BY <1>1, <1>3, <1>6, <2>2, <3>1 DEF OnePost, PageBusy
    <3>2. CASE s = "own"
      <4>1. waiting = 0 /\ busy
        BY <1>3, <1>6, <3>2 DEF OnePost, PageBusy
      <4> QED BY <1>1, <1>3, <2>2, <3>2, <4>1
    <3> QED BY <3>1, <3>2
  <2>4. waiting' # 0 => gets'["own"].stage = "none"
    BY <1>1, <1>3, <1>6, <2>2 DEF OnePost, PageBusy
  <2> QED BY <1>1, <1>6, <2>3, <2>4 DEF OnePost, PageBusy, OneByOne
<1> QED BY <1>1, <1>5, <1>6 DEF ChannelInv

\* A POST is made, beside none but the sender's own.
LEMMA AskIs ==
  ASSUME MaxPosts \in Nat, ChannelInv, NEW i \in Ifaces, NEW m, NEW own, Emulation!Ask(i, m, own)
  PROVE  /\ posts' = posts + 1 /\ posts' \in 1 .. MaxPosts
         /\ jobs' = [k \in 1 .. MaxPosts |-> jobs'[k]]
         /\ \A k \in 1 .. MaxPosts : Asks(jobs'[k])
         /\ \A k \in 1 .. MaxPosts : jobs'[k].stage # "none" => jobs'[k].iface \in Ifaces
         /\ ~apart' => ~apart /\ \A k \in 1 .. MaxPosts :
                                    jobs[k].stage \in {"sent", "deleted"} => k = own
         /\ (\A k \in 1 .. MaxPosts : jobs[k].stage \notin {"sent", "deleted"})
              /\ OneByOne /\ qdisc' = qdisc => OneByOne'
<1> DEFINE r == Emulation!Sent(i, m)
           n == posts + 1
<1>1. /\ posts < MaxPosts /\ posts' = n
      /\ jobs' = [jobs EXCEPT ![n] = r]
      /\ ~apart' => ~apart /\ \A k \in 1 .. MaxPosts :
                                  jobs[k].stage \in {"sent", "deleted"} => k = own
  BY DEF Emulation!Ask, Emulation!UnderWay
<1>2. ChannelTyped
  BY DEF ChannelInv
<1>3. n \in 1 .. MaxPosts /\ posts \in Nat
  BY <1>1, <1>2 DEF ChannelTyped
<1>4. Asks(r) /\ r.iface \in Ifaces /\ r.stage = "sent"
  BY SentAsks
<1>n. n = posts + 1
  OBVIOUS
<1> HIDE DEF r, n
<1>5. /\ jobs' = [k \in 1 .. MaxPosts |-> jobs'[k]]
      /\ \A k \in 1 .. MaxPosts : Asks(jobs'[k])
      /\ \A k \in 1 .. MaxPosts : jobs'[k] = IF k = n THEN r ELSE jobs[k]
      /\ \A k \in 1 .. MaxPosts : jobs'[k].stage # "none" => jobs'[k].iface \in Ifaces
  BY <1>1, <1>2, <1>3, <1>4, JobIs
<1>6. ASSUME \A k \in 1 .. MaxPosts : jobs[k].stage \notin {"sent", "deleted"},
             OneByOne, qdisc' = qdisc
      PROVE  OneByOne'
  <2>1. \A k \in 1 .. MaxPosts : jobs'[k].stage \in {"sent", "deleted"} => k = posts'
    BY <1>1, <1>5, <1>6
  <2>2. \A k \in 1 .. MaxPosts : jobs'[k].stage # "deleted"
    BY <1>4, <1>5, <1>6
  <2>3. ASSUME NEW k \in 1 .. posts', jobs'[k].stage = "answered",
               \A l \in k + 1 .. posts' : jobs'[l].iface # jobs'[k].iface
        PROVE  qdisc'[jobs'[k].iface] = jobs'[k].model
    <3>1. k \in 1 .. MaxPosts /\ k # n /\ k \in 1 .. posts
      BY <1>1, <1>3, <1>4, <1>5, <1>n, <2>3
    <3>2. jobs'[k] = jobs[k]
      BY <1>5, <3>1
    <3>3. \A l \in k + 1 .. posts : l \in k + 1 .. posts' /\ l \in 1 .. MaxPosts /\ l # n
      BY <1>1, <1>3, <1>n, <3>1
    <3>4. \A l \in k + 1 .. posts : jobs[l].iface # jobs[k].iface
      BY <1>5, <2>3, <3>2, <3>3
    <3> QED BY <1>6, <2>3, <3>1, <3>2, <3>4 DEF OneByOne
  <2> QED BY <2>1, <2>2, <2>3 DEF OneByOne
<1> QED BY <1>1, <1>3, <1>5, <1>6, <1>n

\* A button posts: the page itself has nothing under way.
LEMMA PostIs ==
  ASSUME MaxPosts \in Nat, ChannelInv, NEW m, Emulation!Post(m)
  PROVE  ChannelInv'
<1>1. /\ ~busy /\ busy' = TRUE /\ waiting' = posts + 1
      /\ Emulation!Ask(iface, m, waiting)
      /\ UNCHANGED <<qdisc, iface, gets, faults>>
  BY DEF Emulation!Post, Emulation!CanPost
<1>2. ChannelTyped /\ iface \in Ifaces
  BY DEF ChannelInv, ChannelTyped
<1>3. /\ posts' = posts + 1 /\ posts' \in 1 .. MaxPosts
      /\ jobs' = [k \in 1 .. MaxPosts |-> jobs'[k]]
      /\ \A k \in 1 .. MaxPosts : Asks(jobs'[k])
      /\ \A k \in 1 .. MaxPosts : jobs'[k].stage # "none" => jobs'[k].iface \in Ifaces
      /\ ~apart' => ~apart /\ \A k \in 1 .. MaxPosts :
                                 jobs[k].stage \in {"sent", "deleted"} => k = waiting
      /\ (\A k \in 1 .. MaxPosts : jobs[k].stage \notin {"sent", "deleted"})
           /\ OneByOne /\ qdisc' = qdisc => OneByOne'
  BY <1>1, <1>2, AskIs
<1>4. ChannelTyped'
  BY <1>1, <1>2, <1>3 DEF ChannelTyped
<1>5. ASSUME OnePost, ~apart' PROVE OnePost'
  <2>1. waiting = 0 /\ gets["own"].stage = "none"
    BY <1>1, <1>5 DEF OnePost, PageBusy
  <2>2. \A i \in 1 .. MaxPosts : jobs[i].stage \notin {"sent", "deleted"}
    BY <1>3, <1>5, <2>1
  <2>3. PageBusy'
    BY <1>1, <2>1 DEF PageBusy
  <2> QED BY <1>1, <1>3, <1>5, <2>2, <2>3 DEF OnePost
<1> QED BY <1>1, <1>3, <1>4, <1>5 DEF ChannelInv

\* Another client posts: the page learns nothing of it.
LEMMA ElsewhereIs ==
  ASSUME MaxPosts \in Nat, ChannelInv, NEW i \in Ifaces, NEW m, Emulation!Elsewhere(i, m)
  PROVE  ChannelInv'
<1>1. Emulation!Ask(i, m, 0) /\ UNCHANGED <<qdisc, iface, busy, gets, waiting, faults>>
  BY DEF Emulation!Elsewhere, Emulation!page
<1>2. ChannelTyped
  BY DEF ChannelInv
<1>3. /\ posts' = posts + 1 /\ posts' \in 1 .. MaxPosts
      /\ jobs' = [k \in 1 .. MaxPosts |-> jobs'[k]]
      /\ \A k \in 1 .. MaxPosts : Asks(jobs'[k])
      /\ \A k \in 1 .. MaxPosts : jobs'[k].stage # "none" => jobs'[k].iface \in Ifaces
      /\ ~apart' => ~apart /\ \A k \in 1 .. MaxPosts :
                                 jobs[k].stage \in {"sent", "deleted"} => k = 0
      /\ (\A k \in 1 .. MaxPosts : jobs[k].stage \notin {"sent", "deleted"})
           /\ OneByOne /\ qdisc' = qdisc => OneByOne'
  BY <1>1, AskIs
<1>4. ChannelTyped'
  BY <1>1, <1>2, <1>3 DEF ChannelTyped
<1>5. ASSUME OnePost, ~apart' PROVE OnePost'
  <2>1. \A k \in 1 .. MaxPosts : jobs[k].stage \notin {"sent", "deleted"}
    BY <1>3, <1>5
  <2>2. PageBusy'
    BY <1>1, <1>5 DEF OnePost, PageBusy
  <2> QED BY <1>1, <1>3, <1>5, <2>1, <2>2 DEF OnePost
<1> QED BY <1>1, <1>3, <1>4, <1>5 DEF ChannelInv

\* The refresh that follows a POST is sent.
LEMMA PostedIs == ASSUME MaxPosts \in Nat, ChannelInv, Emulation!Posted PROVE ChannelInv'
<1> DEFINE r == Emulation!Sent(jobs[waiting].iface, Emulation!Clean)
<1>1. /\ waiting # 0 /\ jobs[waiting].stage = "answered" /\ waiting' = 0
      /\ gets' = [gets EXCEPT !["own"] = r]
      /\ UNCHANGED <<qdisc, iface, busy, jobs, apart, posts, faults>>
  BY DEF Emulation!Posted, Emulation!page, Emulation!bounds
<1>2. ChannelTyped /\ "own" \in Emulation!Slots
  BY DEF ChannelInv, Emulation!Slots
<1>3. Asks(r)
  BY SentAsks
<1> HIDE DEF r
<1>4. /\ gets' = [i \in Emulation!Slots |-> gets'[i]]
      /\ \A i \in Emulation!Slots : Asks(gets'[i])
  BY <1>1, <1>2, <1>3, GetIs
<1>5. ChannelTyped'
  <2>1. waiting' \in 0 .. MaxPosts
    BY <1>1, <1>2 DEF ChannelTyped
  <2> QED BY <1>1, <1>2, <1>4, <2>1 DEF ChannelTyped
<1>6. ASSUME OnePost PROVE OnePost'
  <2>1. busy'
    BY <1>1, <1>6 DEF OnePost, PageBusy
  <2> QED BY <1>1, <1>6, <2>1 DEF OnePost, PageBusy, OneByOne
<1> QED BY <1>1, <1>5, <1>6 DEF ChannelInv

\* A fault: from then on nothing is promised but the types.
LEMMA FaultIs ==
  ASSUME MaxPosts \in Nat, ChannelInv,
         \/ Emulation!PostFails
         \/ \E n \in 1 .. MaxPosts : Emulation!DeleteFails(n) \/ Emulation!AddFails(n)
  PROVE  ChannelInv'
<1>1. ChannelTyped /\ faults' = faults + 1 /\ faults' \in Nat /\ faults' # 0
      /\ UNCHANGED <<qdisc, iface, gets, posts>>
  BY DEF ChannelInv, ChannelTyped, Emulation!PostFails, Emulation!DeleteFails, Emulation!AddFails,
         Emulation!Fault, Emulation!page
<1>2. waiting' \in 0 .. MaxPosts
  BY <1>1 DEF ChannelTyped, Emulation!PostFails, Emulation!DeleteFails, Emulation!AddFails
<1>3. /\ jobs' = [i \in 1 .. MaxPosts |-> jobs'[i]]
      /\ \A i \in 1 .. MaxPosts : Asks(jobs'[i])
      /\ \A i \in 1 .. MaxPosts : jobs'[i].stage # "none" => jobs'[i].iface \in Ifaces
  <2>1. CASE jobs' = jobs
    BY <1>1, <2>1 DEF ChannelTyped
  <2>2. CASE Emulation!PostFails /\ jobs' # jobs
    <3>1. jobs' = [jobs EXCEPT ![waiting] = Emulation!None] /\ waiting \in 1 .. MaxPosts
      BY <1>1, <2>2 DEF Emulation!PostFails, ChannelTyped
    <3>2. Asks(Emulation!None) /\ Emulation!None.stage = "none"
      BY SentAsks
    <3> QED BY <1>1, <3>1, <3>2, JobIs
  <2>3. ASSUME NEW n \in 1 .. MaxPosts, Emulation!DeleteFails(n) \/ Emulation!AddFails(n)
        PROVE  /\ jobs' = [i \in 1 .. MaxPosts |-> jobs'[i]]
               /\ \A i \in 1 .. MaxPosts : Asks(jobs'[i])
               /\ \A i \in 1 .. MaxPosts :
                    jobs'[i].stage # "none" => jobs'[i].iface \in Ifaces
    <3>1. PICK s \in {"answered", "deleted"} : jobs' = [jobs EXCEPT ![n].stage = s]
      BY <2>3 DEF Emulation!DeleteFails, Emulation!Advance, Emulation!AddFails
    <3> DEFINE r == [iface |-> jobs[n].iface, stage |-> s, model |-> jobs[n].model]
    <3>2. jobs' = [jobs EXCEPT ![n] = r]
      BY <1>1, <3>1, JobStageIs
    <3>3. jobs[n].iface \in Ifaces
      BY <1>1, <2>3 DEF ChannelTyped, Emulation!DeleteFails, Emulation!AddFails
    <3>4. Asks(r) /\ r.iface \in Ifaces
      BY <3>3 DEF Asks
    <3> HIDE DEF r
    <3> QED BY <1>1, <3>2, <3>4, JobIs
  <2> QED BY <2>1, <2>2, <2>3
<1>4. ChannelTyped'
  BY <1>1, <1>2, <1>3 DEF ChannelTyped
<1> QED BY <1>1, <1>4 DEF ChannelInv

\* tc deletes, or adds where nothing else has added since.
LEMMA CommandIs ==
  ASSUME MaxPosts \in Nat, ChannelInv, NEW n \in 1 .. MaxPosts,
         Emulation!Delete(n) \/ Emulation!Add(n)
  PROVE  ChannelInv'
<1>1. ChannelTyped /\ UNCHANGED <<iface, gets, busy, waiting, apart, posts, faults>>
  BY DEF ChannelInv, Emulation!Delete, Emulation!Add, Emulation!page, Emulation!bounds
<1>2. jobs[n].stage \in {"sent", "deleted"} /\ jobs[n].iface \in Ifaces
  BY <1>1 DEF ChannelTyped, Emulation!Delete, Emulation!Add
<1>3. PICK s \in {"answered", "deleted"} :
        /\ jobs' = [jobs EXCEPT ![n].stage = s]
        /\ s = "deleted" => Emulation!Delete(n)
        /\ s = "answered" => Emulation!Add(n) \/ (Emulation!Delete(n) /\ jobs[n].model = Emulation!Clean)
  BY DEF Emulation!Delete, Emulation!Add, Emulation!Advance
<1> DEFINE r == [iface |-> jobs[n].iface, stage |-> s, model |-> jobs[n].model]
<1>4. jobs' = [jobs EXCEPT ![n] = r]
  BY <1>1, <1>3, JobStageIs
<1>5. Asks(r) /\ r.stage = s /\ r.iface = jobs[n].iface /\ r.model = jobs[n].model
  BY DEF Asks
<1> HIDE DEF r
<1>6. /\ jobs' = [i \in 1 .. MaxPosts |-> jobs'[i]]
      /\ \A i \in 1 .. MaxPosts : Asks(jobs'[i])
      /\ \A i \in 1 .. MaxPosts : jobs'[i] = IF i = n THEN r ELSE jobs[i]
      /\ \A i \in 1 .. MaxPosts : jobs'[i].stage # "none" => jobs'[i].iface \in Ifaces
  BY <1>1, <1>2, <1>4, <1>5, JobIs
<1>7. PICK m : qdisc' = [qdisc EXCEPT ![jobs[n].iface] = m]
               /\ (Emulation!Delete(n) => m = Emulation!Clean)
               /\ (Emulation!Add(n) /\ qdisc[jobs[n].iface] = Emulation!Clean => m = jobs[n].model)
  <2>1. CASE Emulation!Delete(n)
    <3>1. ~Emulation!Add(n) /\ qdisc' = [qdisc EXCEPT ![jobs[n].iface] = Emulation!Clean]
      BY <2>1 DEF Emulation!Delete, Emulation!Add
    <3> QED BY <3>1
  <2>2. CASE Emulation!Add(n)
    <3> DEFINE v == IF qdisc[jobs[n].iface] = Emulation!Clean THEN jobs[n].model ELSE qdisc[jobs[n].iface]
    <3>1. ~Emulation!Delete(n) /\ qdisc' = [qdisc EXCEPT ![jobs[n].iface] = v]
      BY <2>2 DEF Emulation!Delete, Emulation!Add
    <3>2. qdisc[jobs[n].iface] = Emulation!Clean => v = jobs[n].model
      OBVIOUS
    <3> HIDE DEF v
    <3> QED BY <3>1, <3>2
  <2> QED BY <2>1, <2>2
<1>8. /\ qdisc' = [i \in Ifaces |-> qdisc'[i]]
      /\ qdisc'[jobs[n].iface] = m
      /\ \A i \in Ifaces : i # jobs[n].iface => qdisc'[i] = qdisc[i]
  <2>1. qdisc = [i \in Ifaces |-> qdisc[i]]
    BY <1>1 DEF ChannelTyped
  <2> QED BY <1>2, <1>7, <2>1
<1>9. ChannelTyped'
  BY <1>1, <1>6, <1>8 DEF ChannelTyped
<1>10. ASSUME OnePost PROVE OnePost'
  <2>1. n = posts /\ \A i \in 1 .. MaxPosts : jobs'[i].stage \in {"sent", "deleted"} => i = n
    BY <1>2, <1>6, <1>10 DEF OnePost, OneByOne
  <2>2. s = "answered" => m = jobs[n].model
    <3>1. Emulation!Add(n) => qdisc[jobs[n].iface] = Emulation!Clean
      BY <1>10 DEF OnePost, OneByOne, Emulation!Add
    <3> QED BY <1>3, <1>7, <3>1
  <2>3. ASSUME NEW i \in 1 .. MaxPosts, jobs'[i].stage = "deleted"
        PROVE  qdisc'[jobs'[i].iface] = Emulation!Clean
    <3>1. i = n /\ s = "deleted"
      BY <1>5, <1>6, <2>1, <2>3
    <3> QED BY <1>3, <1>5, <1>6, <1>7, <1>8, <3>1
  <2>4. ASSUME NEW k \in 1 .. posts, jobs'[k].stage = "answered",
               \A l \in k + 1 .. posts : jobs'[l].iface # jobs'[k].iface
        PROVE  qdisc'[jobs'[k].iface] = jobs'[k].model
    <3>1. k \in 1 .. MaxPosts /\ posts \in 0 .. MaxPosts
      BY <1>1 DEF ChannelTyped
    <3>2. CASE k = n
      BY <1>5, <1>6, <1>8, <2>2, <2>4, <3>1, <3>2
    <3>3. CASE k # n
      <4>1. n \in k + 1 .. posts
        BY <2>1, <3>1, <3>3
      <4>2. jobs'[k] = jobs[k] /\ jobs[k].iface # jobs[n].iface /\ jobs[k].iface \in Ifaces
        BY <1>1, <1>5, <1>6, <2>4, <3>1, <3>3, <4>1 DEF ChannelTyped
      <4>3. \A l \in k + 1 .. posts : jobs[l].iface # jobs[k].iface
        <5>1. \A l \in k + 1 .. posts : l \in 1 .. MaxPosts
          BY <3>1
        <5>2. \A l \in k + 1 .. posts : jobs'[l].iface = jobs[l].iface
          BY <1>5, <1>6, <5>1
        <5> QED BY <2>4, <4>2, <5>2
      <4>4. qdisc[jobs[k].iface] = jobs[k].model
        BY <1>10, <2>4, <4>2, <4>3 DEF OnePost, OneByOne
      <4> QED BY <1>8, <4>2, <4>4
    <3> QED BY <3>2, <3>3
  <2>5. OneByOne'
    BY <1>1, <2>1, <2>3, <2>4 DEF OneByOne
  <2> QED BY <1>1, <1>10, <2>5 DEF OnePost, PageBusy
<1> QED BY <1>1, <1>9, <1>10 DEF ChannelInv

LEMMA ChannelStep ==
  ASSUME MaxPosts \in Nat, First \in Ifaces
  PROVE  ChannelInv /\ [Emulation!Next]_(Emulation!vars) => ChannelInv'
<1> SUFFICES ASSUME ChannelInv, [Emulation!Next]_(Emulation!vars) PROVE ChannelInv'
  OBVIOUS
<1>1. ASSUME UNCHANGED <<qdisc, iface, busy, gets, jobs, waiting, apart, posts, faults>>
      PROVE  ChannelInv'
  BY <1>1 DEF ChannelInv, ChannelTyped, OnePost, PageBusy, OneByOne, Asks
<1>2. ASSUME NEW m, Emulation!Choose(m) PROVE ChannelInv'
  BY <1>1, <1>2 DEF Emulation!Choose, Emulation!requests, Emulation!bounds
<1>3. ASSUME Emulation!Apply \/ Emulation!Clear PROVE ChannelInv'
  BY <1>3, PostIs DEF Emulation!Apply, Emulation!Clear
<1>4. ASSUME Emulation!Tick \/ \E i \in Ifaces : Emulation!Rename(i) PROVE ChannelInv'
  BY <1>4, TimerKeeps
<1>5. ASSUME Emulation!Posted \/ Emulation!PostFails \/ Emulation!Revisit PROVE ChannelInv'
  BY <1>5, PostedIs, FaultIs, RevisitKeeps
<1>6. ASSUME NEW s \in Emulation!Slots,
             \/ Emulation!Refresh(s) \/ Emulation!RefreshFails(s)
             \/ Emulation!Show(s) \/ Emulation!ShowFails(s)
      PROVE  ChannelInv'
  BY <1>6, RefreshKeeps
<1>7. ASSUME NEW n \in 1 .. MaxPosts,
             \/ Emulation!Delete(n) \/ Emulation!DeleteFails(n)
             \/ Emulation!Add(n) \/ Emulation!AddFails(n)
      PROVE  ChannelInv'
  BY <1>7, CommandIs, FaultIs
<1>8. ASSUME NEW i \in Ifaces, NEW m, Emulation!Elsewhere(i, m) PROVE ChannelInv'
  BY <1>8, ElsewhereIs
<1>9. CASE UNCHANGED Emulation!vars
  BY <1>1, <1>9 DEF Emulation!vars, Emulation!page, Emulation!requests, Emulation!bounds
<1> QED BY <1>2, <1>3, <1>4, <1>5, <1>6, <1>7, <1>8, <1>9 DEF Emulation!Next

\* As long as nothing fails and no POST is made beside one its sender does not know
\* of, every interface has the loss model that was last applied to it, for any
\* interfaces, loss models and number of presses, renamings, visits and clients.
THEOREM LastPostIsKept == Emulation!Spec => []LastPostHolds
<1>0. First \in Ifaces /\ MaxPosts \in Nat
  BY PagesAssumption DEF PagesAssumption
<1>1. ChannelInv => LastPostHolds
  BY DEF ChannelInv, OnePost, OneByOne, LastPostHolds, Emulation!LastPostHolds, Emulation!LastOn
<1>2. Emulation!Init => ChannelInv
  BY <1>0, ChannelInit
<1>3. ChannelInv /\ [Emulation!Next]_(Emulation!vars) => ChannelInv'
  BY <1>0, ChannelStep
<1> QED BY <1>1, <1>2, <1>3, PTL DEF Emulation!Spec

-----------------------------------------------------------------------------
(* The log console                                                           *)

Values(s) == {s[i] : i \in DOMAIN s}
Rising(s) == \A i, j \in DOMAIN s : i < j => s[i] < s[j]
Below(s, t) == \A x \in Values(s), y \in Values(t) : x < y
UpTo(s, n) == \A x \in Values(s) : x <= n

\* The console, what a pause holds back and what is on its way, each in order and
\* each before the next; no line of them is yet to be made.
PageInOrder ==
  /\ events \in Seq(Nat) /\ pausedBuffer \in Seq(Nat) /\ queue \in Seq(Nat)
  /\ Rising(events) /\ Rising(pausedBuffer) /\ Rising(queue)
  /\ Below(events, pausedBuffer) /\ Below(events, queue) /\ Below(pausedBuffer, queue)
  /\ UpTo(events, made) /\ UpTo(pausedBuffer, made) /\ UpTo(queue, made)

\* The source has a file open only while it tails, and no inode comes back.
SourceTyped ==
  /\ made \in Nat /\ lastIno \in Nat
  /\ file = [ino |-> file.ino, lines |-> file.lines] /\ tail = [ino |-> tail.ino, pos |-> tail.pos]
  /\ file.ino \in 0 .. lastIno /\ tail.ino \in 0 .. lastIno /\ tail.pos \in Nat
  /\ file.lines \in Seq(Nat) /\ Rising(file.lines) /\ UpTo(file.lines, made)
  /\ mode = "mock" => tail.ino = 0

\* What is to be read of the open file, all of it if the file has shrunk, is newer
\* than what was read.
NotYetRead(i) == tail.pos < i \/ Len(file.lines) < tail.pos
UnreadIsNew ==
  file.ino # 0 /\ tail.ino = file.ino =>
    \A i \in 1 .. Len(file.lines) : NotYetRead(i) =>
      \A x \in Values(events) \cup Values(pausedBuffer) \cup Values(queue) : x < file.lines[i]

\* The last lines delivered, as many as the console holds
LastAreShown ==
  /\ delivered \in Seq(Nat) /\ Len(events) <= BufferSize
  /\ ~paused => pausedBuffer = <<>>
  /\ Console!LastOf(events \o pausedBuffer, BufferSize) = Console!LastOf(delivered, BufferSize)

ConsoleInv == PageInOrder /\ SourceTyped /\ UnreadIsNew /\ LastAreShown

LEMMA LastOfIs ==
  ASSUME NEW S, NEW s \in Seq(S), NEW n \in Nat
  PROVE  LET l == Console!LastOf(s, n) IN
         /\ l \in Seq(S) /\ Len(l) = IF Len(s) <= n THEN Len(s) ELSE n
         /\ \A i \in 1 .. Len(l) : l[i] = s[Len(s) - Len(l) + i]
<1>1. CASE Len(s) <= n
  BY <1>1 DEF Console!LastOf
<1>2. CASE ~(Len(s) <= n)
  <2>1. Console!LastOf(s, n) = SubSeq(s, Len(s) - n + 1, Len(s))
    BY <1>2 DEF Console!LastOf
  <2>2. Len(s) \in Nat /\ Len(s) - n + 1 \in 1 .. Len(s) + 1
    BY <1>2
  <2>3. /\ SubSeq(s, Len(s) - n + 1, Len(s)) \in Seq(S)
        /\ Len(SubSeq(s, Len(s) - n + 1, Len(s))) = n
    BY <2>2
  <2>4. \A i \in 1 .. n : SubSeq(s, Len(s) - n + 1, Len(s))[i] = s[Len(s) - n + i]
    BY <2>2
  <2> QED BY <1>2, <2>1, <2>3, <2>4
<1> QED BY <1>1, <1>2

LEMMA SameSequence ==
  ASSUME NEW S, NEW s \in Seq(S), NEW t \in Seq(S), Len(s) = Len(t),
         \A i \in 1 .. Len(s) : s[i] = t[i]
  PROVE  s = t
BY SeqEqual

LEMMA LengthsOfFront ==
  ASSUME NEW ls \in Nat, NEW lt \in Nat, NEW n \in Nat, NEW la, NEW ll, NEW lr,
         la = IF ls <= n THEN ls ELSE n,
         ll = IF la + lt <= n THEN la + lt ELSE n,
         lr = IF ls + lt <= n THEN ls + lt ELSE n
  PROVE  /\ la \in Nat /\ ll \in Nat /\ ll = lr /\ la <= ls
         /\ \A i \in 1 .. ll : /\ la + lt - ll + i \in 1 .. la + lt
                               /\ ls + lt - lr + i \in 1 .. ls + lt
                               /\ ls + lt - lr + i = (la + lt - ll + i) + (ls - la)
OBVIOUS

LEMMA LengthsOfBack ==
  ASSUME NEW ls \in Nat, NEW lt \in Nat, NEW n \in Nat, NEW ll, NEW lr, n < lt,
         ll = IF ls + n <= n THEN ls + n ELSE n,
         lr = IF ls + lt <= n THEN ls + lt ELSE n
  PROVE  /\ ll = n /\ lr = n
         /\ \A i \in 1 .. n : /\ ls + n - ll + i = ls + i /\ ls + i \in 1 .. ls + n
                              /\ ls + lt - lr + i \in 1 .. ls + lt
                              /\ ~ (ls + i <= ls) /\ ~ (ls + lt - lr + i <= ls)
                              /\ ls + i - ls = i /\ ls + lt - lr + i - ls = lt - n + i
OBVIOUS

\* What is dropped from the end of the front is dropped from the whole.
LEMMA LastOfFront ==
  ASSUME NEW S, NEW s \in Seq(S), NEW t \in Seq(S), NEW n \in Nat
  PROVE  Console!LastOf(Console!LastOf(s, n) \o t, n) = Console!LastOf(s \o t, n)
<1> DEFINE a == Console!LastOf(s, n)
           u == a \o t
           v == s \o t
           l == Console!LastOf(u, n)
           r == Console!LastOf(v, n)
<1>1. /\ a \in Seq(S) /\ Len(a) = IF Len(s) <= n THEN Len(s) ELSE n
      /\ \A i \in 1 .. Len(a) : a[i] = s[Len(s) - Len(a) + i]
  BY LastOfIs
<1> HIDE DEF a
<1>2. /\ a \o t \in Seq(S) /\ Len(a \o t) = Len(a) + Len(t)
      /\ \A i \in 1 .. Len(a) + Len(t) :
           (a \o t)[i] = IF i <= Len(a) THEN a[i] ELSE t[i - Len(a)]
  BY <1>1, ConcatProperties
<1>3. /\ s \o t \in Seq(S) /\ Len(s \o t) = Len(s) + Len(t)
      /\ \A i \in 1 .. Len(s) + Len(t) :
           (s \o t)[i] = IF i <= Len(s) THEN s[i] ELSE t[i - Len(s)]
  BY ConcatProperties
<1>15. u \in Seq(S) /\ v \in Seq(S)
  BY <1>2, <1>3
<1> HIDE DEF u, v
<1>4. /\ l \in Seq(S) /\ Len(l) = IF Len(u) <= n THEN Len(u) ELSE n
      /\ \A i \in 1 .. Len(l) : l[i] = u[Len(u) - Len(l) + i]
  BY <1>15, LastOfIs
<1>5. /\ r \in Seq(S) /\ Len(r) = IF Len(v) <= n THEN Len(v) ELSE n
      /\ \A i \in 1 .. Len(r) : r[i] = v[Len(v) - Len(r) + i]
  BY <1>15, LastOfIs
<1> HIDE DEF l, r
<1> DEFINE ls == Len(s)
           lt == Len(t)
           la == Len(a)
           ll == Len(l)
           lr == Len(r)
<1>6. /\ ls \in Nat /\ lt \in Nat /\ la = IF ls <= n THEN ls ELSE n
      /\ ll = IF la + lt <= n THEN la + lt ELSE n
      /\ lr = IF ls + lt <= n THEN ls + lt ELSE n
      /\ Len(u) = la + lt /\ Len(v) = ls + lt
  BY <1>1, <1>2, <1>3, <1>4, <1>5 DEF u, v
<1>7. \A i \in 1 .. ll : l[i] = u[Len(u) - ll + i]
  BY <1>4
<1>8. \A i \in 1 .. lr : r[i] = v[Len(v) - lr + i]
  BY <1>5
<1>9. \A i \in 1 .. la + lt : u[i] = IF i <= la THEN a[i] ELSE t[i - la]
  BY <1>2 DEF u
<1>10. \A i \in 1 .. ls + lt : v[i] = IF i <= ls THEN s[i] ELSE t[i - ls]
  BY <1>3 DEF v
<1>11. \A i \in 1 .. la : a[i] = s[ls - la + i]
  BY <1>1
<1> HIDE DEF ls, lt, la, ll, lr
<1>12. /\ la \in Nat /\ ll \in Nat /\ ll = lr /\ la <= ls
       /\ \A i \in 1 .. ll : /\ la + lt - ll + i \in 1 .. la + lt
                             /\ ls + lt - lr + i \in 1 .. ls + lt
                             /\ ls + lt - lr + i = (la + lt - ll + i) + (ls - la)
  BY <1>6, LengthsOfFront
<1>13. ASSUME NEW i \in 1 .. ll PROVE l[i] = r[i]
  <2> DEFINE p == la + lt - ll + i
             q == ls + lt - lr + i
  <2>1. l[i] = u[Len(u) - ll + i] /\ Len(u) = la + lt
    BY <1>6, <1>7
  <2>7. i \in 1 .. lr
    BY <1>12
  <2>2. r[i] = v[Len(v) - lr + i] /\ Len(v) = ls + lt
    BY <1>6, <1>8, <2>7
  <2>3. p \in 1 .. la + lt /\ q \in 1 .. ls + lt /\ q = p + (ls - la)
    BY <1>12
  <2>8. Len(u) - ll + i = p /\ Len(v) - lr + i = q
    <3>1. Len(u) = la + lt /\ Len(v) = ls + lt
      BY <2>1, <2>2
    <3>2. /\ la \in Nat /\ ls \in Nat /\ lt \in Nat /\ ll \in Nat /\ lr \in Nat
          /\ i \in Nat
      BY <1>6, <1>12
    <3> QED BY <3>1, <3>2
  <2>6. l[i] = u[p] /\ r[i] = v[q]
    <3> HIDE DEF p, q
    <3> QED BY <2>1, <2>2, <2>8
  <2> HIDE DEF p, q
  <2>4. CASE p <= la
    <3>1. p \in 1 .. la /\ q <= ls /\ ls - la + p = q
      BY <1>6, <1>12, <2>3, <2>4
    <3>2. u[p] = a[p] /\ v[q] = s[q]
      BY <1>9, <1>10, <2>3, <2>4, <3>1
    <3>3. a[p] = s[q]
      BY <1>11, <3>1
    <3> QED BY <2>6, <3>2, <3>3
  <2>5. CASE ~ (p <= la)
    <3>1. ~ (q <= ls) /\ p - la = q - ls
      BY <1>6, <1>12, <2>3, <2>5
    <3>2. u[p] = t[p - la] /\ v[q] = t[q - ls]
      BY <1>9, <1>10, <2>3, <2>5, <3>1
    <3> QED BY <2>6, <3>1, <3>2
  <2> QED BY <2>4, <2>5
<1>14. l = r
  BY <1>4, <1>5, <1>12, <1>13, SameSequence DEF ll, lr
<1> QED BY <1>14 DEF l, r, u, v, a

\* What is dropped from the end of the back is dropped from the whole.
LEMMA LastOfBack ==
  ASSUME NEW S, NEW s \in Seq(S), NEW t \in Seq(S), NEW n \in Nat
  PROVE  Console!LastOf(s \o Console!LastOf(t, n), n) = Console!LastOf(s \o t, n)
<1> DEFINE a == Console!LastOf(t, n)
           u == s \o a
           v == s \o t
           l == Console!LastOf(u, n)
           r == Console!LastOf(v, n)
<1>1. /\ a \in Seq(S) /\ Len(a) = IF Len(t) <= n THEN Len(t) ELSE n
      /\ \A i \in 1 .. Len(a) : a[i] = t[Len(t) - Len(a) + i]
  BY LastOfIs
<1>2. CASE Len(t) <= n
  BY <1>2 DEF Console!LastOf
<1>3. CASE ~ (Len(t) <= n)
  <2> HIDE DEF a
  <2>1. /\ s \o a \in Seq(S) /\ Len(s \o a) = Len(s) + Len(a)
        /\ \A i \in 1 .. Len(s) + Len(a) :
             (s \o a)[i] = IF i <= Len(s) THEN s[i] ELSE a[i - Len(s)]
    BY <1>1, ConcatProperties
  <2>2. /\ s \o t \in Seq(S) /\ Len(s \o t) = Len(s) + Len(t)
        /\ \A i \in 1 .. Len(s) + Len(t) :
             (s \o t)[i] = IF i <= Len(s) THEN s[i] ELSE t[i - Len(s)]
    BY ConcatProperties
  <2>14. u \in Seq(S) /\ v \in Seq(S)
    BY <2>1, <2>2
  <2> HIDE DEF u, v
  <2>3. /\ l \in Seq(S) /\ Len(l) = IF Len(u) <= n THEN Len(u) ELSE n
        /\ \A i \in 1 .. Len(l) : l[i] = u[Len(u) - Len(l) + i]
    BY <2>14, LastOfIs
  <2>4. /\ r \in Seq(S) /\ Len(r) = IF Len(v) <= n THEN Len(v) ELSE n
        /\ \A i \in 1 .. Len(r) : r[i] = v[Len(v) - Len(r) + i]
    BY <2>14, LastOfIs
  <2> HIDE DEF l, r
  <2> DEFINE ls == Len(s)
             lt == Len(t)
             ll == Len(l)
             lr == Len(r)
  <2>5. /\ ls \in Nat /\ lt \in Nat /\ Len(a) = n /\ n < lt
        /\ ll = IF ls + n <= n THEN ls + n ELSE n
        /\ lr = IF ls + lt <= n THEN ls + lt ELSE n
        /\ Len(u) = ls + n /\ Len(v) = ls + lt
    BY <1>1, <1>3, <2>1, <2>2, <2>3, <2>4 DEF u, v
  <2>6. \A i \in 1 .. ll : l[i] = u[Len(u) - ll + i]
    BY <2>3
  <2>7. \A i \in 1 .. lr : r[i] = v[Len(v) - lr + i]
    BY <2>4
  <2>8. \A i \in 1 .. ls + n : u[i] = IF i <= ls THEN s[i] ELSE a[i - ls]
    BY <2>1, <2>5 DEF u
  <2>9. \A i \in 1 .. ls + lt : v[i] = IF i <= ls THEN s[i] ELSE t[i - ls]
    BY <2>2 DEF v
  <2>10. \A i \in 1 .. n : a[i] = t[lt - n + i]
    BY <1>1, <2>5
  <2> HIDE DEF ls, lt, ll, lr
  <2>11. /\ ll = n /\ lr = n
         /\ \A i \in 1 .. n : /\ ls + n - ll + i = ls + i /\ ls + i \in 1 .. ls + n
                              /\ ls + lt - lr + i \in 1 .. ls + lt
                              /\ ~ (ls + i <= ls) /\ ~ (ls + lt - lr + i <= ls)
                              /\ ls + i - ls = i /\ ls + lt - lr + i - ls = lt - n + i
    <3>1. /\ ls \in Nat /\ lt \in Nat /\ n < lt
          /\ ll = IF ls + n <= n THEN ls + n ELSE n
          /\ lr = IF ls + lt <= n THEN ls + lt ELSE n
      BY <2>5
    <3> QED BY <3>1, LengthsOfBack
  <2>12. ASSUME NEW i \in 1 .. n PROVE l[i] = r[i]
    <3>4. l[i] = u[Len(u) - ll + i] /\ r[i] = v[Len(v) - lr + i]
      BY <2>6, <2>7, <2>11
    <3>1. l[i] = u[ls + i] /\ r[i] = v[ls + lt - lr + i]
      BY <2>5, <2>11, <3>4, SMTT(30)
    <3> DEFINE p == ls + i
               q == ls + lt - lr + i
    <3>5. /\ p \in 1 .. ls + n /\ ~ (p <= ls) /\ p - ls = i
          /\ q \in 1 .. ls + lt /\ ~ (q <= ls) /\ q - ls = lt - n + i
      <4>1. ls \in Nat /\ lt \in Nat /\ lr = n /\ n < lt /\ i \in 1 .. n
        BY <2>5, <2>11
      <4> QED BY <4>1
    <3>6. l[i] = u[p] /\ r[i] = v[q]
      BY <3>1
    <3> HIDE DEF p, q
    <3>2. u[p] = a[p - ls]
      BY <2>8, <3>5
    <3>3. v[q] = t[q - ls]
      BY <2>9, <3>5
    <3> QED BY <2>10, <3>2, <3>3, <3>5, <3>6
  <2>13. l = r
    BY <2>3, <2>4, <2>11, <2>12, SameSequence DEF ll, lr
  <2> QED BY <2>13 DEF l, r, u, v, a
<1> QED BY <1>2, <1>3

LEMMA EmptyIsInOrder == Values(<<>>) = {} /\ Rising(<<>>) /\ <<>> \in Seq(Nat)
BY DEF Values, Rising

LEMMA LineIsInOrder ==
  ASSUME NEW x \in Nat
  PROVE  Values(<<x>>) = {x} /\ Rising(<<x>>) /\ <<x>> \in Seq(Nat)
<1> DEFINE s == <<x>>
<1>1. s \in Seq(Nat) /\ DOMAIN s = {1} /\ s[1] = x
  OBVIOUS
<1> HIDE DEF s
<1>2. Values(s) = {x} /\ Rising(s)
  BY <1>1 DEF Values, Rising
<1> QED BY <1>1, <1>2 DEF s

LEMMA LastOfKeeps ==
  ASSUME NEW s \in Seq(Nat), NEW n \in Nat, Rising(s)
  PROVE  LET l == Console!LastOf(s, n) IN
         l \in Seq(Nat) /\ Len(l) <= n /\ Values(l) \subseteq Values(s) /\ Rising(l)
<1> DEFINE l == Console!LastOf(s, n)
<1>1. /\ l \in Seq(Nat) /\ Len(l) = IF Len(s) <= n THEN Len(s) ELSE n
      /\ \A i \in 1 .. Len(l) : l[i] = s[Len(s) - Len(l) + i]
  BY LastOfIs
<1> HIDE DEF l
<1>2. Len(l) \in Nat /\ Len(s) \in Nat /\ Len(l) <= n /\ Len(l) <= Len(s)
  BY <1>1
<1>3. DOMAIN l = 1 .. Len(l) /\ DOMAIN s = 1 .. Len(s)
  BY <1>1
<1>4. ASSUME NEW i \in DOMAIN l
      PROVE  Len(s) - Len(l) + i \in DOMAIN s /\ l[i] = s[Len(s) - Len(l) + i]
  <2>1. i \in 1 .. Len(l)
    BY <1>3
  <2>2. Len(s) - Len(l) + i \in 1 .. Len(s)
    BY <1>2, <2>1
  <2> QED BY <1>1, <1>3, <2>1, <2>2
<1>5. Values(l) \subseteq Values(s)
  BY <1>4 DEF Values
<1>6. ASSUME NEW i \in DOMAIN l, NEW j \in DOMAIN l, i < j
      PROVE  l[i] < l[j]
  <2>1. Len(s) - Len(l) + i < Len(s) - Len(l) + j
    BY <1>2, <1>3, <1>6
  <2> QED BY <1>4, <2>1 DEF Rising
<1>7. Rising(l)
  BY <1>6 DEF Rising
<1> QED BY <1>1, <1>2, <1>5, <1>7 DEF l

LEMMA JoinedInOrder ==
  ASSUME NEW s \in Seq(Nat), NEW t \in Seq(Nat), Rising(s), Rising(t), Below(s, t)
  PROVE  /\ s \o t \in Seq(Nat) /\ Values(s \o t) \subseteq Values(s) \cup Values(t)
         /\ Rising(s \o t)
<1> DEFINE u == s \o t
<1>1. /\ u \in Seq(Nat) /\ Len(u) = Len(s) + Len(t)
      /\ \A i \in 1 .. Len(s) + Len(t) : u[i] = IF i <= Len(s) THEN s[i] ELSE t[i - Len(s)]
  BY ConcatProperties
<1> HIDE DEF u
<1>2. /\ Len(s) \in Nat /\ Len(t) \in Nat /\ DOMAIN u = 1 .. Len(s) + Len(t)
      /\ DOMAIN s = 1 .. Len(s) /\ DOMAIN t = 1 .. Len(t)
  BY <1>1
<1>3. ASSUME NEW i \in DOMAIN u, i <= Len(s)
      PROVE  i \in DOMAIN s /\ u[i] = s[i]
  BY <1>1, <1>2, <1>3
<1>4. ASSUME NEW i \in DOMAIN u, ~ (i <= Len(s))
      PROVE  i - Len(s) \in DOMAIN t /\ u[i] = t[i - Len(s)]
  BY <1>1, <1>2, <1>4
<1>5. Values(u) \subseteq Values(s) \cup Values(t)
  BY <1>3, <1>4 DEF Values
<1>6. ASSUME NEW i \in DOMAIN u, NEW j \in DOMAIN u, i < j
      PROVE  u[i] < u[j]
  <2>1. CASE j <= Len(s)
    <3>1. i <= Len(s)
      BY <1>2, <1>6, <2>1
    <3> QED BY <1>3, <1>6, <2>1, <3>1 DEF Rising
  <2>2. CASE i <= Len(s) /\ ~ (j <= Len(s))
    <3>1. u[i] \in Values(s) /\ u[j] \in Values(t)
      BY <1>3, <1>4, <2>2 DEF Values
    <3> QED BY <3>1 DEF Below
  <2>3. CASE ~ (i <= Len(s))
    <3>1. ~ (j <= Len(s)) /\ i - Len(s) < j - Len(s)
      BY <1>2, <1>6, <2>3
    <3> QED BY <1>4, <2>3, <3>1 DEF Rising
  <2> QED BY <1>2, <2>1, <2>2, <2>3
<1>7. Rising(u)
  BY <1>6 DEF Rising
<1> QED BY <1>1, <1>5, <1>7 DEF u

LEMMA FirstAndRest ==
  ASSUME NEW q \in Seq(Nat), q # <<>>, Rising(q)
  PROVE  /\ Head(q) \in Nat /\ Head(q) \in Values(q)
         /\ Tail(q) \in Seq(Nat) /\ Values(Tail(q)) \subseteq Values(q) /\ Rising(Tail(q))
         /\ \A y \in Values(Tail(q)) : Head(q) < y
<1>1. Len(q) \in Nat /\ Len(q) >= 1
  OBVIOUS
<1>2. /\ Head(q) = q[1] /\ q[1] \in Nat /\ Tail(q) \in Seq(Nat)
      /\ Len(Tail(q)) = Len(q) - 1 /\ \A i \in 1 .. Len(q) - 1 : Tail(q)[i] = q[i + 1]
  BY <1>1, HeadAndTail
<1> DEFINE t == Tail(q)
<1> HIDE DEF t
<1>3. /\ DOMAIN q = 1 .. Len(q) /\ DOMAIN t = 1 .. Len(q) - 1
      /\ \A i \in DOMAIN t : i + 1 \in DOMAIN q /\ t[i] = q[i + 1]
  BY <1>1, <1>2 DEF t
<1>4. Values(t) \subseteq Values(q) /\ q[1] \in Values(q)
  BY <1>1, <1>3 DEF Values
<1>5. Rising(t)
  <2>1. ASSUME NEW i \in DOMAIN t, NEW j \in DOMAIN t, i < j PROVE t[i] < t[j]
    <3>1. i + 1 < j + 1
      BY <1>3, <2>1
    <3> QED BY <1>3, <3>1 DEF Rising
  <2> QED BY <2>1 DEF Rising
<1>6. \A y \in Values(t) : q[1] < y
  BY <1>1, <1>3 DEF Rising, Values
<1>7. t \in Seq(Nat)
  BY <1>2 DEF t
<1>8. Head(q) \in Nat /\ Head(q) \in Values(q) /\ \A y \in Values(t) : Head(q) < y
  BY <1>2, <1>4, <1>6
<1> QED BY <1>4, <1>5, <1>7, <1>8, Zenon DEF t

LEMMA RestInOrder ==
  ASSUME NEW s \in Seq(Nat), NEW p \in Nat, p < Len(s), Rising(s)
  PROVE  LET n == SubSeq(s, p + 1, Len(s)) IN
         /\ n \in Seq(Nat) /\ Rising(n)
         /\ \A y \in Values(n) : \E i \in 1 .. Len(s) : p < i /\ y = s[i]
<1> DEFINE n == SubSeq(s, p + 1, Len(s))
<1>0. Len(s) \in Nat /\ p + 1 \in 1 .. Len(s) /\ p + 1 <= Len(s)
  OBVIOUS
<1>1. /\ n \in Seq(Nat) /\ Len(n) = Len(s) - p /\ Len(s) \in Nat
      /\ \A i \in 1 .. Len(s) - p : n[i] = s[p + i]
  <2>1. n \in Seq(Nat) /\ Len(n) = Len(s) - p
    BY <1>0
  <2>2. \A i \in 1 .. Len(s) - p : n[i] = s[p + i]
    BY <1>0
  <2> QED BY <1>0, <2>1, <2>2
<1> HIDE DEF n
<1>2. /\ DOMAIN s = 1 .. Len(s) /\ DOMAIN n = 1 .. Len(s) - p
      /\ \A i \in DOMAIN n : p + i \in DOMAIN s /\ p < p + i /\ n[i] = s[p + i]
  <2>1. DOMAIN s = 1 .. Len(s) /\ DOMAIN n = 1 .. Len(s) - p
    BY <1>1
  <2>2. ASSUME NEW i \in DOMAIN n
        PROVE  p + i \in DOMAIN s /\ p < p + i /\ n[i] = s[p + i]
    <3>1. i \in 1 .. Len(s) - p
      BY <2>1
    <3>2. p + i \in 1 .. Len(s) /\ p < p + i
      BY <1>1, <3>1
    <3> QED BY <1>1, <2>1, <3>1, <3>2
  <2> QED BY <2>1, <2>2
<1>3. Rising(n)
  BY <1>2 DEF Rising
<1>4. \A y \in Values(n) : \E i \in 1 .. Len(s) : p < i /\ y = s[i]
  BY <1>2 DEF Values
<1> QED BY <1>1, <1>3, <1>4 DEF n

LEMMA ValuesAreNumbers ==
  ASSUME NEW s \in Seq(Nat)
  PROVE  Values(s) \subseteq Nat
BY DEF Values

LEMMA BoundGrows ==
  ASSUME NEW s \in Seq(Nat), NEW m \in Nat, NEW n \in Nat, m <= n, UpTo(s, m)
  PROVE  UpTo(s, n)
<1>1. \A x \in Values(s) : x \in Nat /\ x <= m
  BY ValuesAreNumbers DEF UpTo
<1>2. \A x \in Values(s) : x <= n
  BY <1>1
<1> QED BY <1>2 DEF UpTo

LEMMA ConsoleInit ==
  ASSUME BufferSize \in Nat, Console!Init
  PROVE  ConsoleInv
<1>1. PageInOrder
  <2>1. events = <<>> /\ pausedBuffer = <<>> /\ queue = <<>>
    BY DEF Console!Init
  <2>2. Values(events) = {} /\ Values(pausedBuffer) = {} /\ Values(queue) = {}
        /\ Rising(events) /\ Rising(pausedBuffer) /\ Rising(queue)
        /\ events \in Seq(Nat) /\ pausedBuffer \in Seq(Nat) /\ queue \in Seq(Nat)
    BY <2>1, EmptyIsInOrder
  <2> QED BY <2>2 DEF PageInOrder, Below, UpTo
<1>2. SourceTyped
  <2>1. /\ file = [ino |-> file.ino, lines |-> file.lines] /\ file.ino \in {0, 1} /\ file.lines = <<>>
        /\ lastIno = 1 /\ made = 0
        /\ tail = [ino |-> tail.ino, pos |-> tail.pos] /\ tail.ino = 0 /\ tail.pos = 0
    BY DEF Console!Init, Console!Absent, Console!Closed
  <2> QED BY <2>1, EmptyIsInOrder DEF SourceTyped, UpTo
<1>3. UnreadIsNew
  BY DEF Console!Init, Console!Absent, Console!Closed, UnreadIsNew
<1>4. LastAreShown
  <2>1. events = <<>> /\ pausedBuffer = <<>> /\ delivered = <<>> /\ <<>> \o <<>> = <<>>
    BY DEF Console!Init
  <2> QED BY <2>1, EmptyIsInOrder DEF LastAreShown
<1> QED BY <1>1, <1>2, <1>3, <1>4 DEF ConsoleInv

\* A line written is newer than every line there is.
LEMMA WritingLine ==
  ASSUME ConsoleInv, Console!WriteLine
  PROVE  ConsoleInv'
<1> USE DEF Console!WriteLine, Console!source, Console!page
<1> DEFINE s == file.lines
<1>1. /\ made \in Nat /\ made' = made + 1 /\ s \in Seq(Nat) /\ Rising(s) /\ UpTo(s, made)
      /\ file'.ino = file.ino /\ file'.lines = s \o <<made + 1>>
      /\ file' = [ino |-> file'.ino, lines |-> file'.lines]
  <2>1. /\ made \in Nat /\ s \in Seq(Nat) /\ Rising(s) /\ UpTo(s, made)
        /\ file = [ino |-> file.ino, lines |-> file.lines]
    BY DEF ConsoleInv, SourceTyped
  <2>2. Append(s, made + 1) = s \o <<made + 1>>
    BY <2>1, AppendIsConcat
  <2> QED BY <2>1, <2>2
<1>2. /\ file'.lines \in Seq(Nat) /\ Rising(file'.lines) /\ UpTo(file'.lines, made + 1)
      /\ Len(file'.lines) = Len(s) + 1 /\ Len(s) \in Nat
      /\ \A i \in 1 .. Len(s) : file'.lines[i] = s[i]
      /\ file'.lines[Len(s) + 1] = made + 1
  <2>1. Below(s, <<made + 1>>) /\ made + 1 \in Nat
    <3>1. made + 1 \in Nat /\ \A x \in Values(s) : x <= made /\ x \in Nat
      BY <1>1 DEF UpTo, Values
    <3> QED BY <1>1, <3>1, LineIsInOrder DEF Below
  <2>2. /\ s \o <<made + 1>> \in Seq(Nat) /\ Rising(s \o <<made + 1>>)
        /\ Values(s \o <<made + 1>>) \subseteq Values(s) \cup {made + 1}
    BY <1>1, <2>1, LineIsInOrder, JoinedInOrder
  <2>3. UpTo(s \o <<made + 1>>, made + 1)
    <3>1. made \in Nat /\ \A x \in Values(s) : x <= made /\ x \in Nat
      BY <1>1 DEF UpTo, Values
    <3>2. \A x \in Values(s) \cup {made + 1} : x <= made + 1
      BY <3>1
    <3> QED BY <2>2, <3>2 DEF UpTo
  <2>4. /\ Len(s \o <<made + 1>>) = Len(s) + 1 /\ Len(s) \in Nat
        /\ \A i \in 1 .. Len(s) : (s \o <<made + 1>>)[i] = s[i]
        /\ (s \o <<made + 1>>)[Len(s) + 1] = made + 1
    BY <1>1, <2>1
  <2> QED BY <1>1, <2>2, <2>3, <2>4
<1>3. PageInOrder'
  <2>1. PageInOrder
    BY DEF ConsoleInv
  <2>2. \A t \in Seq(Nat) : UpTo(t, made) => UpTo(t, made + 1)
    <3>1. made \in Nat /\ made + 1 \in Nat /\ made <= made + 1
      BY <1>1
    <3> QED BY <3>1, BoundGrows
  <2> QED BY <1>1, <2>1, <2>2 DEF PageInOrder
<1>4. SourceTyped'
  BY <1>1, <1>2 DEF ConsoleInv, SourceTyped
<1>5. UnreadIsNew'
  <2> DEFINE Seen == Values(events) \cup Values(pausedBuffer) \cup Values(queue)
  <2> SUFFICES ASSUME file.ino # 0, tail.ino = file.ino, NEW i \in 1 .. Len(file'.lines),
                      tail.pos < i \/ Len(file'.lines) < tail.pos, NEW x \in Seen
               PROVE  x < file'.lines[i]
    BY <1>1 DEF UnreadIsNew, NotYetRead
  <2>1. x \in Nat /\ x <= made /\ tail.pos \in Nat
    <3>1. ASSUME NEW t \in Seq(Nat), UpTo(t, made), NEW y \in Values(t)
          PROVE  y \in Nat /\ y <= made
      BY <3>1 DEF UpTo, Values
    <3>2. /\ events \in Seq(Nat) /\ UpTo(events, made)
          /\ pausedBuffer \in Seq(Nat) /\ UpTo(pausedBuffer, made)
          /\ queue \in Seq(Nat) /\ UpTo(queue, made) /\ tail.pos \in Nat
      BY DEF ConsoleInv, PageInOrder, SourceTyped
    <3> QED BY <3>1, <3>2
  <2>2. CASE i = Len(s) + 1
    BY <1>1, <1>2, <2>1, <2>2
  <2>3. CASE i # Len(s) + 1
    <3>1. i \in 1 .. Len(s) /\ (tail.pos < i \/ Len(s) < tail.pos)
      BY <1>2, <2>1, <2>3
    <3>2. x < s[i]
      BY <3>1 DEF ConsoleInv, UnreadIsNew, NotYetRead
    <3> QED BY <1>2, <3>1, <3>2
  <2> QED BY <2>2, <2>3
<1>6. LastAreShown'
  BY DEF ConsoleInv, LastAreShown, Console!LastOf
<1> QED BY <1>3, <1>4, <1>5, <1>6 DEF ConsoleInv

LEMMA MovingFile ==
  ASSUME ConsoleInv, Console!MoveFile
  PROVE  ConsoleInv'
<1> USE DEF Console!MoveFile, Console!source, Console!page
<1>1. PageInOrder' /\ LastAreShown'
  BY DEF ConsoleInv, PageInOrder, LastAreShown, Console!LastOf
<1>2. /\ made' = made /\ tail' = tail /\ mode' = mode /\ lastIno \in Nat /\ lastIno' \in {lastIno, lastIno + 1}
      /\ file' = [ino |-> file'.ino, lines |-> file'.lines]
      /\ file'.lines = <<>>
      /\ file'.ino \in 0 .. lastIno' /\ tail.ino \in 0 .. lastIno'
  BY DEF ConsoleInv, SourceTyped, Console!Absent
<1>3. SourceTyped'
  BY <1>2, EmptyIsInOrder DEF ConsoleInv, SourceTyped, UpTo
<1>4. UnreadIsNew'
  BY <1>2 DEF UnreadIsNew
<1> QED BY <1>1, <1>3, <1>4 DEF ConsoleInv

LEMMA Switching ==
  ASSUME ConsoleInv, Console!Switch
  PROVE  ConsoleInv'
<1> USE DEF Console!Switch, Console!disk, Console!page, Console!bounds, Console!Closed
<1>1. PageInOrder' /\ LastAreShown'
  BY DEF ConsoleInv, PageInOrder, LastAreShown, Console!LastOf
<1>2. tail' = [ino |-> 0, pos |-> 0] /\ file' = file /\ lastIno' = lastIno /\ made' = made
  OBVIOUS
<1>3. SourceTyped'
  BY <1>2 DEF ConsoleInv, SourceTyped
<1>4. UnreadIsNew'
  BY <1>2 DEF UnreadIsNew
<1> QED BY <1>1, <1>3, <1>4 DEF ConsoleInv

\* New lines go to the end of what is on its way.
LEMMA Putting ==
  ASSUME QueueCap \in Nat, PageInOrder, NEW new \in Seq(Nat), Rising(new), NEW n \in Nat,
         made <= n, made \in Nat, UpTo(new, n),
         Below(events, new), Below(pausedBuffer, new), Below(queue, new),
         made' = n, Console!Put(new), UNCHANGED <<events, pausedBuffer>>
  PROVE  /\ PageInOrder'
         /\ Values(queue') \subseteq Values(queue) \cup Values(new)
<1> USE DEF Console!Put
<1>1. CASE ~ connected
  <2>1. queue' = <<>>
    BY <1>1
  <2>2. \A t \in Seq(Nat) : UpTo(t, made) => UpTo(t, n)
    BY BoundGrows
  <2> QED BY <2>1, <2>2, EmptyIsInOrder DEF PageInOrder, Below, UpTo
<1>2. CASE connected
  <2>1. queue \in Seq(Nat) /\ Rising(queue)
    BY DEF PageInOrder
  <2>2. /\ queue \o new \in Seq(Nat) /\ Rising(queue \o new)
        /\ Values(queue \o new) \subseteq Values(queue) \cup Values(new)
    BY <2>1, JoinedInOrder
  <2>3. queue' = Console!LastOf(queue \o new, QueueCap)
    BY <1>2
  <2>4. /\ queue' \in Seq(Nat) /\ Rising(queue')
        /\ Values(queue') \subseteq Values(queue) \cup Values(new)
    BY <2>2, <2>3, LastOfKeeps
  <2>5. \A t \in Seq(Nat) : UpTo(t, made) => UpTo(t, n)
    BY BoundGrows
  <2>6. UpTo(queue', n)
    BY <2>1, <2>4, <2>5 DEF PageInOrder, UpTo
  <2>7. Below(events, queue') /\ Below(pausedBuffer, queue')
    BY <2>4 DEF PageInOrder, Below
  <2> QED BY <2>4, <2>5, <2>6, <2>7 DEF PageInOrder
<1> QED BY <1>1, <1>2

LEMMA Polling ==
  ASSUME BufferSize \in Nat, QueueCap \in Nat, ConsoleInv, Console!Poll
  PROVE  ConsoleInv'
<1> USE DEF Console!Poll, Console!disk, Console!page, Console!bounds
<1> DEFINE s == file.lines
           Seen == Values(events) \cup Values(pausedBuffer) \cup Values(queue)
<1>1. /\ file' = file /\ lastIno' = lastIno /\ mode' = mode /\ made' = made
      /\ events' = events /\ pausedBuffer' = pausedBuffer /\ delivered' = delivered /\ paused' = paused
  OBVIOUS
<1>2. LastAreShown'
  BY <1>1 DEF ConsoleInv, LastAreShown, Console!LastOf
<1>3. /\ file.ino \in 0 .. lastIno /\ file.ino # 0 /\ mode = "tail" /\ tail.pos \in Nat
      /\ s \in Seq(Nat) /\ Rising(s) /\ UpTo(s, made) /\ Len(s) \in Nat /\ made \in Nat
      /\ PageInOrder /\ UnreadIsNew /\ SourceTyped
      /\ tail = [ino |-> tail.ino, pos |-> tail.pos]
  BY DEF ConsoleInv, SourceTyped
<1>4. CASE tail.ino # file.ino
  <2>1. tail' = [ino |-> file.ino, pos |-> Len(s)] /\ queue' = queue
    BY <1>4
  <2>2. PageInOrder'
    BY <1>1, <1>3, <2>1 DEF PageInOrder
  <2>3. SourceTyped'
    BY <1>1, <1>3, <2>1 DEF SourceTyped
  <2>4. UnreadIsNew'
    BY <1>1, <1>3, <2>1 DEF UnreadIsNew, NotYetRead
  <2> QED BY <1>2, <2>2, <2>3, <2>4 DEF ConsoleInv
<1>5. CASE tail.ino = file.ino /\ tail.pos < Len(s)
  <2> DEFINE new == SubSeq(s, tail.pos + 1, Len(s))
  <2>1. tail' = [ino |-> file.ino, pos |-> Len(s)] /\ Console!Put(new)
    BY <1>3, <1>5
  <2>2. /\ new \in Seq(Nat) /\ Rising(new)
        /\ \A y \in Values(new) : \E i \in 1 .. Len(s) : tail.pos < i /\ y = s[i]
    BY <1>3, <1>5, RestInOrder
  <2> HIDE DEF new
  <2>3. ASSUME NEW y \in Values(new)
        PROVE  y \in Values(s) /\ \A x \in Seen : x < y
    <3>1. PICK i \in 1 .. Len(s) : tail.pos < i /\ y = s[i]
      BY <2>2
    <3>2. y \in Values(s)
      BY <1>3, <3>1 DEF Values
    <3> QED BY <1>3, <1>5, <3>1, <3>2 DEF UnreadIsNew, NotYetRead
  <2>4. /\ Below(events, new) /\ Below(pausedBuffer, new) /\ Below(queue, new)
        /\ UpTo(new, made)
    BY <1>3, <2>3 DEF Below, UpTo
  <2>5. PageInOrder'
    <3>1. made <= made
      BY <1>3
    <3> QED BY <1>1, <1>3, <2>1, <2>2, <2>4, <3>1, Putting
  <2>6. SourceTyped'
    BY <1>1, <1>3, <2>1 DEF SourceTyped
  <2>7. UnreadIsNew'
    BY <1>1, <1>3, <2>1 DEF UnreadIsNew, NotYetRead
  <2> QED BY <1>2, <2>5, <2>6, <2>7 DEF ConsoleInv
<1>6. CASE tail.ino = file.ino /\ Len(s) < tail.pos
  <2>1. tail' = [ino |-> file.ino, pos |-> 0] /\ queue' = queue
    BY <1>3, <1>6
  <2>2. PageInOrder'
    BY <1>1, <1>3, <2>1 DEF PageInOrder
  <2>3. SourceTyped'
    BY <1>1, <1>3, <2>1 DEF SourceTyped
  <2>4. UnreadIsNew'
    <3>1. \A i \in 1 .. Len(s) : \A x \in Seen : x < s[i]
      BY <1>3, <1>6 DEF UnreadIsNew, NotYetRead
    <3> QED BY <1>1, <2>1, <3>1 DEF UnreadIsNew
  <2> QED BY <1>2, <2>2, <2>3, <2>4 DEF ConsoleInv
<1> QED BY <1>4, <1>5, <1>6

LEMMA MockingLine ==
  ASSUME BufferSize \in Nat, QueueCap \in Nat, ConsoleInv, Console!MockLine
  PROVE  ConsoleInv'
<1> USE DEF Console!MockLine, Console!disk, Console!source, Console!page
<1>1. /\ file' = file /\ lastIno' = lastIno /\ mode' = mode /\ tail' = tail /\ made' = made + 1
      /\ events' = events /\ pausedBuffer' = pausedBuffer /\ delivered' = delivered /\ paused' = paused
      /\ mode = "mock" /\ Console!Put(<<made + 1>>)
  OBVIOUS
<1>2. LastAreShown'
  BY <1>1 DEF ConsoleInv, LastAreShown, Console!LastOf
<1>3. made \in Nat /\ made + 1 \in Nat /\ made <= made + 1 /\ PageInOrder /\ SourceTyped
  BY DEF ConsoleInv, SourceTyped
<1>4. PageInOrder'
  <2>1. /\ <<made + 1>> \in Seq(Nat) /\ Rising(<<made + 1>>) /\ Values(<<made + 1>>) = {made + 1}
    BY <1>3, LineIsInOrder
  <2>2. \A x \in Values(events) \cup Values(pausedBuffer) \cup Values(queue) : x \in Nat /\ x <= made
    BY <1>3, ValuesAreNumbers DEF PageInOrder, UpTo
  <2>3. \A x \in Values(events) \cup Values(pausedBuffer) \cup Values(queue) : x < made + 1
    BY <1>3, <2>2
  <2>4. /\ Below(events, <<made + 1>>) /\ Below(pausedBuffer, <<made + 1>>) /\ Below(queue, <<made + 1>>)
        /\ UpTo(<<made + 1>>, made + 1)
    BY <1>3, <2>1, <2>3 DEF Below, UpTo
  <2> QED BY <1>1, <1>3, <2>1, <2>4, Putting
<1>5. SourceTyped'
  <2>1. UpTo(file.lines, made + 1)
    BY <1>3, BoundGrows DEF SourceTyped
  <2> QED BY <1>1, <1>3, <2>1 DEF SourceTyped
<1>6. UnreadIsNew'
  BY <1>1, <1>3 DEF UnreadIsNew, SourceTyped
<1> QED BY <1>2, <1>4, <1>5, <1>6 DEF ConsoleInv

LEMMA Reconnecting ==
  ASSUME ConsoleInv, Console!Connect \/ Console!Lose
  PROVE  ConsoleInv'
<1> USE DEF Console!Connect, Console!Lose, Console!disk, Console!source, Console!bounds
<1>1. /\ file' = file /\ lastIno' = lastIno /\ mode' = mode /\ tail' = tail /\ made' = made
      /\ events' = events /\ pausedBuffer' = pausedBuffer /\ delivered' = delivered /\ paused' = paused
      /\ queue' = <<>>
  OBVIOUS
<1>2. LastAreShown'
  BY <1>1 DEF ConsoleInv, LastAreShown, Console!LastOf
<1>3. PageInOrder'
  BY <1>1, EmptyIsInOrder DEF ConsoleInv, PageInOrder, Below, UpTo
<1>4. SourceTyped'
  BY <1>1 DEF ConsoleInv, SourceTyped
<1>5. UnreadIsNew'
  BY <1>1, EmptyIsInOrder DEF ConsoleInv, UnreadIsNew, NotYetRead
<1> QED BY <1>2, <1>3, <1>4, <1>5 DEF ConsoleInv

\* A line comes to the page: it is older than those that follow it, and newer than
\* those that the page has.
LEMMA Arriving ==
  ASSUME BufferSize \in Nat, ConsoleInv, Console!OnMessage
  PROVE  ConsoleInv'
<1> USE DEF Console!OnMessage, Console!disk, Console!source, Console!bounds
<1> DEFINE h == Head(queue)
           B == BufferSize
<1>1. /\ file' = file /\ lastIno' = lastIno /\ mode' = mode /\ tail' = tail /\ made' = made
      /\ paused' = paused /\ queue # <<>> /\ queue' = Tail(queue) /\ delivered' = Append(delivered, h)
      /\ PageInOrder /\ SourceTyped /\ UnreadIsNew /\ LastAreShown
  BY DEF ConsoleInv
<1>2. /\ h \in Nat /\ h \in Values(queue) /\ queue' \in Seq(Nat) /\ Values(queue') \subseteq Values(queue)
      /\ Rising(queue') /\ \A y \in Values(queue') : h < y
  <2>1. queue \in Seq(Nat) /\ Rising(queue)
    BY <1>1 DEF PageInOrder
  <2> QED BY <1>1, <2>1, FirstAndRest
<1>3. /\ events \in Seq(Nat) /\ pausedBuffer \in Seq(Nat) /\ delivered \in Seq(Nat) /\ <<h>> \in Seq(Nat)
      /\ delivered' = delivered \o <<h>> /\ delivered' \in Seq(Nat)
      /\ Values(<<h>>) = {h} /\ Rising(<<h>>)
      /\ Console!LastOf(delivered \o <<h>>, B) = Console!LastOf(Console!LastOf(delivered, B) \o <<h>>, B)
      /\ Console!LastOf(events \o pausedBuffer, B) = Console!LastOf(delivered, B)
  <2>1. /\ events \in Seq(Nat) /\ pausedBuffer \in Seq(Nat) /\ delivered \in Seq(Nat)
        /\ Console!LastOf(events \o pausedBuffer, B) = Console!LastOf(delivered, B)
    BY <1>1 DEF PageInOrder, LastAreShown
  <2>2. <<h>> \in Seq(Nat) /\ Values(<<h>>) = {h} /\ Rising(<<h>>)
    BY <1>2, LineIsInOrder
  <2>3. delivered' = delivered \o <<h>>
    BY <1>1, <1>2, <2>1, AppendIsConcat
  <2>4. delivered \o <<h>> \in Seq(Nat)
    BY <2>1, <2>2
  <2>5. Console!LastOf(Console!LastOf(delivered, B) \o <<h>>, B) = Console!LastOf(delivered \o <<h>>, B)
    BY <2>1, <2>2, LastOfFront
  <2> QED BY <2>1, <2>2, <2>3, <2>4, <2>5
<1> HIDE DEF h
<1>4. Console!LastOf((events \o pausedBuffer) \o <<h>>, B) = Console!LastOf(delivered', B)
  <2>1. events \o pausedBuffer \in Seq(Nat)
    BY <1>3
  <2>2. Console!LastOf(Console!LastOf(events \o pausedBuffer, B) \o <<h>>, B)
          = Console!LastOf((events \o pausedBuffer) \o <<h>>, B)
    BY <1>3, <2>1, LastOfFront
  <2> QED BY <1>3, <2>2
<1>5. CASE paused
  <2>1. pausedBuffer' = Console!LastOf(pausedBuffer \o <<h>>, B) /\ events' = events
    <3>1. Append(pausedBuffer, h) = pausedBuffer \o <<h>>
      BY <1>2, <1>3, AppendIsConcat
    <3> QED BY <1>5, <3>1 DEF h
  <2>2. /\ pausedBuffer \o <<h>> \in Seq(Nat) /\ Rising(pausedBuffer \o <<h>>)
        /\ Values(pausedBuffer \o <<h>>) \subseteq Values(pausedBuffer) \cup {h}
    <3>1. Rising(pausedBuffer) /\ Below(pausedBuffer, <<h>>)
      BY <1>1, <1>2, <1>3 DEF PageInOrder, Below
    <3> QED BY <1>3, <3>1, JoinedInOrder
  <2>3. /\ pausedBuffer' \in Seq(Nat) /\ Rising(pausedBuffer')
        /\ Values(pausedBuffer') \subseteq Values(pausedBuffer) \cup {h}
    BY <2>1, <2>2, LastOfKeeps
  <2>4. PageInOrder'
    <3>1. Below(events, pausedBuffer')
      BY <1>1, <1>2, <2>3 DEF PageInOrder, Below
    <3>2. Below(events, queue') /\ Below(pausedBuffer', queue')
      BY <1>1, <1>2, <2>3 DEF PageInOrder, Below
    <3>3. UpTo(pausedBuffer', made) /\ UpTo(queue', made)
      BY <1>1, <1>2, <2>3 DEF PageInOrder, UpTo
    <3> QED BY <1>1, <1>2, <2>1, <2>3, <3>1, <3>2, <3>3 DEF PageInOrder
  <2>5. LastAreShown'
    <3>1. Console!LastOf(events \o pausedBuffer', B) = Console!LastOf(events \o (pausedBuffer \o <<h>>), B)
      <4>1. /\ events \in Seq(Nat) /\ B \in Nat
            /\ pausedBuffer' = Console!LastOf(pausedBuffer \o <<h>>, B)
        BY <1>3, <2>1
      <4>2. pausedBuffer \o <<h>> \in Seq(Nat)
        BY <2>2
      <4> QED BY <4>1, <4>2, LastOfBack
    <3>2. events \o (pausedBuffer \o <<h>>) = (events \o pausedBuffer) \o <<h>>
      <4>1. events \in Seq(Nat) /\ pausedBuffer \in Seq(Nat) /\ <<h>> \in Seq(Nat)
        BY <1>3
      <4> QED BY <4>1, ConcatAssociative
    <3>3. Console!LastOf(events \o pausedBuffer', B) = Console!LastOf(delivered', B)
      BY <1>4, <3>1, <3>2
    <3> QED BY <1>1, <1>3, <1>5, <2>1, <3>3 DEF LastAreShown, Console!LastOf
  <2>6. Values(events') \cup Values(pausedBuffer') \cup Values(queue')
          \subseteq Values(events) \cup Values(pausedBuffer) \cup Values(queue)
    BY <1>2, <2>1, <2>3
  <2>7. SourceTyped'
    BY <1>1 DEF SourceTyped
  <2>8. UnreadIsNew'
    BY <1>1, <2>6 DEF UnreadIsNew, NotYetRead
  <2> QED BY <2>4, <2>5, <2>7, <2>8 DEF ConsoleInv
<1>6. CASE ~ paused
  <2>1. events' = Console!LastOf(events \o <<h>>, B) /\ pausedBuffer' = <<>> /\ pausedBuffer = <<>>
    <3>1. Append(events, h) = events \o <<h>>
      BY <1>2, <1>3, AppendIsConcat
    <3> QED BY <1>1, <1>6, <3>1 DEF h, LastAreShown
  <2>2. /\ events \o <<h>> \in Seq(Nat) /\ Rising(events \o <<h>>)
        /\ Values(events \o <<h>>) \subseteq Values(events) \cup {h}
    <3>1. Rising(events) /\ Below(events, <<h>>)
      BY <1>1, <1>2, <1>3 DEF PageInOrder, Below
    <3> QED BY <1>3, <3>1, JoinedInOrder
  <2>3. /\ events' \in Seq(Nat) /\ Rising(events') /\ Len(events') <= B
        /\ Values(events') \subseteq Values(events) \cup {h}
    BY <2>1, <2>2, LastOfKeeps
  <2>4. PageInOrder'
    <3>1. Below(events', pausedBuffer') /\ Below(pausedBuffer', queue') /\ Rising(pausedBuffer')
          /\ UpTo(pausedBuffer', made) /\ pausedBuffer' \in Seq(Nat)
      BY <2>1, EmptyIsInOrder DEF Below, UpTo
    <3>2. Below(events', queue')
      BY <1>1, <1>2, <2>3 DEF PageInOrder, Below
    <3>3. UpTo(events', made) /\ UpTo(queue', made)
      BY <1>1, <1>2, <2>3 DEF PageInOrder, UpTo
    <3> QED BY <1>1, <1>2, <2>3, <3>1, <3>2, <3>3 DEF PageInOrder
  <2>5. LastAreShown'
    <3>1. events \o pausedBuffer = events
      BY <1>3, <2>1
    <3>2. Console!LastOf(events \o <<h>>, B) = Console!LastOf(delivered', B)
      BY <1>4, <3>1
    <3>3. Console!LastOf(events' \o <<>>, B) = Console!LastOf((events \o <<h>>) \o <<>>, B)
      BY <2>1, <2>2, EmptyIsInOrder, LastOfFront
    <3>4. (events \o <<h>>) \o <<>> = events \o <<h>>
      BY <2>2
    <3>5. Console!LastOf(events' \o pausedBuffer', B) = Console!LastOf(delivered', B)
      BY <2>1, <3>2, <3>3, <3>4
    <3> QED BY <1>3, <2>1, <2>3, <3>5 DEF LastAreShown, Console!LastOf
  <2>6. Values(events') \cup Values(pausedBuffer') \cup Values(queue')
          \subseteq Values(events) \cup Values(pausedBuffer) \cup Values(queue)
    BY <1>2, <2>1, <2>3
  <2>7. SourceTyped'
    BY <1>1 DEF SourceTyped
  <2>8. UnreadIsNew'
    BY <1>1, <2>6 DEF UnreadIsNew, NotYetRead
  <2> QED BY <2>4, <2>5, <2>7, <2>8 DEF ConsoleInv
<1> QED BY <1>5, <1>6

LEMMA Resuming ==
  ASSUME BufferSize \in Nat, ConsoleInv, Console!Resume
  PROVE  ConsoleInv'
<1> USE DEF Console!Resume, Console!Press, Console!disk, Console!source
<1> DEFINE B == BufferSize
           u == events \o pausedBuffer
<1>1. /\ file' = file /\ lastIno' = lastIno /\ mode' = mode /\ tail' = tail /\ made' = made
      /\ queue' = queue /\ paused' = FALSE /\ delivered' = delivered
      /\ events' = Console!LastOf(u, B) /\ pausedBuffer' = <<>>
      /\ PageInOrder /\ SourceTyped /\ UnreadIsNew /\ LastAreShown
  BY DEF ConsoleInv
<1>2. u \in Seq(Nat) /\ Rising(u) /\ Values(u) \subseteq Values(events) \cup Values(pausedBuffer)
  BY <1>1, JoinedInOrder DEF PageInOrder
<1>3. /\ events' \in Seq(Nat) /\ Rising(events') /\ Len(events') <= B /\ Values(events') \subseteq Values(u)
  BY <1>1, <1>2, LastOfKeeps
<1>4. PageInOrder'
  <2>1. Below(events', pausedBuffer') /\ Below(pausedBuffer', queue') /\ Rising(pausedBuffer')
        /\ UpTo(pausedBuffer', made) /\ pausedBuffer' \in Seq(Nat)
    BY <1>1, EmptyIsInOrder DEF Below, UpTo
  <2>2. Below(events', queue') /\ UpTo(events', made)
    BY <1>1, <1>2, <1>3 DEF PageInOrder, Below, UpTo
  <2> QED BY <1>1, <1>3, <2>1, <2>2 DEF PageInOrder
<1>5. LastAreShown'
  <2>1. Console!LastOf(u, B) = Console!LastOf(delivered, B) /\ delivered \in Seq(Nat)
    BY <1>1 DEF LastAreShown
  <2>2. Console!LastOf(events' \o <<>>, B) = Console!LastOf(u \o <<>>, B)
    <3>1. <<>> \in Seq(Nat)
      BY EmptyIsInOrder
    <3>2. Console!LastOf(Console!LastOf(u, B) \o <<>>, B) = Console!LastOf(u \o <<>>, B)
      <4> HIDE DEF u
      <4> QED BY <1>2, <3>1, LastOfFront
    <3> QED BY <1>1, <3>2
  <2>3. u \o <<>> = u
    BY <1>2
  <2>4. Console!LastOf(events' \o pausedBuffer', B) = Console!LastOf(delivered', B)
    BY <1>1, <2>1, <2>2, <2>3
  <2> QED BY <1>1, <1>3, <2>1, <2>4 DEF LastAreShown, Console!LastOf
<1>6. SourceTyped'
  BY <1>1 DEF SourceTyped
<1>7. UnreadIsNew'
  <2>1. Values(events') \cup Values(pausedBuffer') \cup Values(queue')
          \subseteq Values(events) \cup Values(pausedBuffer) \cup Values(queue)
    BY <1>1, <1>2, <1>3, EmptyIsInOrder
  <2> QED BY <1>1, <2>1 DEF UnreadIsNew, NotYetRead
<1> QED BY <1>4, <1>5, <1>6, <1>7 DEF ConsoleInv

LEMMA Clearing ==
  ASSUME BufferSize \in Nat, ConsoleInv, Console!Clear
  PROVE  ConsoleInv'
<1> USE DEF Console!Clear, Console!Press, Console!disk, Console!source
<1>1. /\ file' = file /\ lastIno' = lastIno /\ mode' = mode /\ tail' = tail /\ made' = made
      /\ queue' = queue /\ events' = <<>> /\ pausedBuffer' = <<>> /\ delivered' = <<>>
      /\ PageInOrder /\ SourceTyped /\ UnreadIsNew
  BY DEF ConsoleInv
<1>2. PageInOrder'
  BY <1>1, EmptyIsInOrder DEF PageInOrder, Below, UpTo
<1>3. LastAreShown'
  <2>1. <<>> \o <<>> = <<>>
    OBVIOUS
  <2>2. Console!LastOf(events' \o pausedBuffer', BufferSize) = Console!LastOf(delivered', BufferSize)
    BY <1>1, <2>1
  <2>3. delivered' \in Seq(Nat) /\ Len(events') <= BufferSize
    BY <1>1
  <2> QED BY <1>1, <2>2, <2>3 DEF LastAreShown, Console!LastOf
<1>4. SourceTyped'
  BY <1>1 DEF SourceTyped
<1>5. UnreadIsNew'
  BY <1>1, EmptyIsInOrder DEF UnreadIsNew, NotYetRead
<1> QED BY <1>2, <1>3, <1>4, <1>5 DEF ConsoleInv

LEMMA Looking ==
  ASSUME ConsoleInv,
         Console!Pause \/ (\E level \in Console!Levels : Console!ToggleLevel(level)) \/ UNCHANGED Console!vars
  PROVE  ConsoleInv'
<1>1. /\ file' = file /\ lastIno' = lastIno /\ mode' = mode /\ tail' = tail /\ made' = made
      /\ queue' = queue /\ events' = events /\ pausedBuffer' = pausedBuffer /\ delivered' = delivered
      /\ (~ paused' => ~ paused)
  BY DEF Console!Pause, Console!ToggleLevel, Console!Press, Console!disk, Console!source, Console!page,
         Console!bounds, Console!vars
<1>2. PageInOrder' /\ SourceTyped' /\ UnreadIsNew'
  BY <1>1 DEF ConsoleInv, PageInOrder, SourceTyped, UnreadIsNew, NotYetRead
<1>3. LastAreShown'
  BY <1>1 DEF ConsoleInv, LastAreShown, Console!LastOf
<1> QED BY <1>2, <1>3 DEF ConsoleInv

LEMMA ConsoleStep ==
  ASSUME BufferSize \in Nat, QueueCap \in Nat, ConsoleInv, [Console!Next]_(Console!vars)
  PROVE  ConsoleInv'
<1>1. CASE Console!WriteLine
  BY <1>1, WritingLine
<1>2. CASE Console!MoveFile
  BY <1>2, MovingFile
<1>3. CASE Console!Switch
  BY <1>3, Switching
<1>4. CASE Console!Poll
  BY <1>4, Polling
<1>5. CASE Console!MockLine
  BY <1>5, MockingLine
<1>6. CASE Console!Connect \/ Console!Lose
  BY <1>6, Reconnecting
<1>7. CASE Console!OnMessage
  BY <1>7, Arriving
<1>8. CASE Console!Resume
  BY <1>8, Resuming
<1>9. CASE Console!Clear
  BY <1>9, Clearing
<1>10. CASE Console!Pause \/ (\E level \in Console!Levels : Console!ToggleLevel(level))
            \/ UNCHANGED Console!vars
  BY <1>10, Looking
<1> QED BY <1>1, <1>2, <1>3, <1>4, <1>5, <1>6, <1>7, <1>8, <1>9, <1>10 DEF Console!Next

LEMMA ConsoleIsInOrder ==
  ASSUME ConsoleInv
  PROVE  Console!LinesInOrder
<1>1. /\ events \o pausedBuffer \in Seq(Nat) /\ Rising(events \o pausedBuffer)
      /\ Values(events \o pausedBuffer) \subseteq Values(events) \cup Values(pausedBuffer)
  BY JoinedInOrder DEF ConsoleInv, PageInOrder
<1>2. Below(events \o pausedBuffer, queue)
  BY <1>1 DEF ConsoleInv, PageInOrder, Below
<1>3. Rising((events \o pausedBuffer) \o queue)
  BY <1>1, <1>2, JoinedInOrder DEF ConsoleInv, PageInOrder
<1> QED BY <1>3 DEF Console!LinesInOrder, Rising

LEMMA ConsoleShowsTheLast ==
  ASSUME BufferSize \in Nat, ConsoleInv
  PROVE  Console!NewestAreShown
<1>1. Console!LastOf(events \o pausedBuffer, BufferSize) = Console!LastOf(delivered, BufferSize)
  BY DEF ConsoleInv, LastAreShown
<1>2. ASSUME ~ paused
      PROVE  pausedBuffer = <<>> /\ events = Console!LastOf(delivered, BufferSize)
  <2>1. pausedBuffer = <<>> /\ events \in Seq(Nat) /\ Len(events) <= BufferSize
    BY <1>2 DEF ConsoleInv, LastAreShown, PageInOrder
  <2>2. events \o pausedBuffer = events
    BY <2>1
  <2>3. Console!LastOf(events, BufferSize) = events
    BY <2>1 DEF Console!LastOf
  <2> QED BY <1>1, <2>1, <2>2, <2>3
<1> QED BY <1>1, <1>2 DEF Console!NewestAreShown

\* No line comes to the console twice or out of order, neither to what it lists nor to
\* what a pause holds back nor to what is on its way (FileTailLogSource.run(),
\* LogManager._emit() and useLogs.ts).
THEOREM LinesComeInOrder == Console!Spec => []Console!LinesInOrder
<1>0. BufferSize \in Nat /\ QueueCap \in Nat
  BY PagesAssumption DEF PagesAssumption
<1>1. Console!Init => ConsoleInv
  BY <1>0, ConsoleInit
<1>2. ConsoleInv /\ [Console!Next]_(Console!vars) => ConsoleInv'
  BY <1>0, ConsoleStep
<1>3. ConsoleInv => Console!LinesInOrder
  BY <1>0, ConsoleIsInOrder
<1> QED BY <1>1, <1>2, <1>3, PTL DEF Console!Spec

\* The console lists lines in order, and has, or gets when it is resumed, the last
\* lines that reached the page, whatever was paused, resumed, cleared and filtered
\* (useLogs.ts and LogConsole.tsx).
THEOREM LastLinesAreShown == Console!Spec => []NewestAreShown
<1>0. BufferSize \in Nat /\ QueueCap \in Nat
  BY PagesAssumption DEF PagesAssumption
<1>1. Console!Init => ConsoleInv
  BY <1>0, ConsoleInit
<1>2. ConsoleInv /\ [Console!Next]_(Console!vars) => ConsoleInv'
  BY <1>0, ConsoleStep
<1>3. ConsoleInv => NewestAreShown
  BY <1>0, ConsoleShowsTheLast, ConsoleIsInOrder DEF NewestAreShown
<1> QED BY <1>1, <1>2, <1>3, PTL DEF Console!Spec

-----------------------------------------------------------------------------
(* Lists that are cut off                                                    *)

\* What FirstOf keeps, in Alerts as in BlockEvents
FirstPart(s, n) == SubSeq(s, 1, IF Len(s) < n THEN Len(s) ELSE n)

LEMMA FirstPartIs ==
  ASSUME NEW S, NEW s \in Seq(S), NEW n \in Nat
  PROVE  LET l == FirstPart(s, n) IN
         /\ l \in Seq(S) /\ Len(l) = IF Len(s) < n THEN Len(s) ELSE n
         /\ Len(l) \in Nat /\ Len(l) <= Len(s) /\ Len(l) <= n
         /\ \A i \in 1 .. Len(l) : i \in 1 .. Len(s) /\ l[i] = s[i]
<1> DEFINE m == IF Len(s) < n THEN Len(s) ELSE n
<1>1. m \in Nat /\ m <= Len(s) /\ m <= n /\ Len(s) \in Nat
  OBVIOUS
<1> HIDE DEF m
<1>2. /\ SubSeq(s, 1, m) \in Seq(S) /\ Len(SubSeq(s, 1, m)) = m
      /\ \A i \in 1 .. m : SubSeq(s, 1, m)[i] = s[i]
  BY <1>1
<1>3. \A i \in 1 .. m : i \in 1 .. Len(s)
  BY <1>1
<1>4. FirstPart(s, n) = SubSeq(s, 1, m)
  BY DEF FirstPart, m
<1>5. m = IF Len(s) < n THEN Len(s) ELSE n
  BY DEF m
<1> HIDE DEF FirstPart
<1> QED BY <1>1, <1>2, <1>3, <1>4, <1>5

\* What is cut off first would be cut off anyway.
LEMMA FirstOfFirst ==
  ASSUME NEW S, NEW s \in Seq(S), NEW n \in Nat, NEW m \in Nat, m <= n
  PROVE  FirstPart(FirstPart(s, n), m) = FirstPart(s, m)
<1> DEFINE a == FirstPart(s, n)
           l == FirstPart(a, m)
           r == FirstPart(s, m)
<1>1. /\ a \in Seq(S) /\ Len(a) = IF Len(s) < n THEN Len(s) ELSE n
      /\ \A i \in 1 .. Len(a) : i \in 1 .. Len(s) /\ a[i] = s[i]
  BY FirstPartIs
<1> HIDE DEF a
<1>2. /\ l \in Seq(S) /\ Len(l) = IF Len(a) < m THEN Len(a) ELSE m
      /\ \A i \in 1 .. Len(l) : i \in 1 .. Len(a) /\ l[i] = a[i]
  BY <1>1, FirstPartIs
<1>3. /\ r \in Seq(S) /\ Len(r) = IF Len(s) < m THEN Len(s) ELSE m
      /\ \A i \in 1 .. Len(r) : i \in 1 .. Len(s) /\ r[i] = s[i]
  BY FirstPartIs
<1> HIDE DEF l, r
<1>4. Len(l) = Len(r)
  <2>1. Len(s) \in Nat
    OBVIOUS
  <2> QED BY <1>1, <1>2, <1>3, <2>1
<1>5. \A i \in 1 .. Len(l) : l[i] = r[i]
  BY <1>1, <1>2, <1>3, <1>4
<1>6. l = r
  BY <1>2, <1>3, <1>4, <1>5, SameSequence
<1> QED BY <1>6 DEF l, r, a

\* What is cut off the end of the back is cut off the whole.
LEMMA FirstOfBack ==
  ASSUME NEW S, NEW s \in Seq(S), NEW t \in Seq(S), NEW n \in Nat
  PROVE  FirstPart(s \o FirstPart(t, n), n) = FirstPart(s \o t, n)
<1> DEFINE a == FirstPart(t, n)
           u == s \o a
           v == s \o t
           l == FirstPart(u, n)
           r == FirstPart(v, n)
<1>1. /\ a \in Seq(S) /\ Len(a) = IF Len(t) < n THEN Len(t) ELSE n
      /\ \A i \in 1 .. Len(a) : i \in 1 .. Len(t) /\ a[i] = t[i]
  BY FirstPartIs
<1> HIDE DEF a
<1>2. /\ u \in Seq(S) /\ Len(u) = Len(s) + Len(a)
      /\ \A i \in 1 .. Len(s) + Len(a) : u[i] = IF i <= Len(s) THEN s[i] ELSE a[i - Len(s)]
  BY <1>1, ConcatProperties
<1>3. /\ v \in Seq(S) /\ Len(v) = Len(s) + Len(t)
      /\ \A i \in 1 .. Len(s) + Len(t) : v[i] = IF i <= Len(s) THEN s[i] ELSE t[i - Len(s)]
  BY ConcatProperties
<1> HIDE DEF u, v
<1>4. /\ l \in Seq(S) /\ Len(l) = IF Len(u) < n THEN Len(u) ELSE n
      /\ \A i \in 1 .. Len(l) : i \in 1 .. Len(u) /\ l[i] = u[i]
  BY <1>2, FirstPartIs
<1>5. /\ r \in Seq(S) /\ Len(r) = IF Len(v) < n THEN Len(v) ELSE n
      /\ \A i \in 1 .. Len(r) : i \in 1 .. Len(v) /\ r[i] = v[i]
  BY <1>3, FirstPartIs
<1> HIDE DEF l, r
<1>6. Len(s) \in Nat /\ Len(t) \in Nat /\ Len(a) \in Nat
  BY <1>1
<1>7. Len(l) = Len(r) /\ Len(l) \in Nat /\ Len(l) <= n
  BY <1>1, <1>2, <1>3, <1>4, <1>5, <1>6
<1>8. ASSUME NEW i \in 1 .. Len(l) PROVE l[i] = r[i]
  <2>1. /\ i \in 1 .. Len(s) + Len(a) /\ i \in 1 .. Len(s) + Len(t)
        /\ l[i] = u[i] /\ r[i] = v[i]
    BY <1>2, <1>3, <1>4, <1>5, <1>7
  <2>2. CASE i <= Len(s)
    BY <1>2, <1>3, <2>1, <2>2
  <2>3. CASE ~ (i <= Len(s))
    <3>1. i - Len(s) \in 1 .. Len(a)
      BY <1>6, <2>1, <2>3
    <3> QED BY <1>1, <1>2, <1>3, <2>1, <2>3, <3>1
  <2> QED BY <2>2, <2>3
<1>9. l = r
  BY <1>4, <1>5, <1>7, <1>8, SameSequence
<1> QED BY <1>9 DEF l, r, u, v, a

LEMMA ReverseIs ==
  ASSUME NEW S, NEW s \in Seq(S)
  PROVE  /\ Reverse(s) \in Seq(S) /\ Len(Reverse(s)) = Len(s)
         /\ \A i \in 1 .. Len(s) : Reverse(s)[i] = s[(Len(s) - i) + 1]
<1>1. Len(s) \in Nat
  OBVIOUS
<1>2. Reverse(s) = [i \in 1 .. Len(s) |-> s[(Len(s) - i) + 1]]
  BY DEF Reverse
<1>3. \A i \in 1 .. Len(s) : (Len(s) - i) + 1 \in 1 .. Len(s)
  BY <1>1
<1>4. \A i \in 1 .. Len(s) : s[(Len(s) - i) + 1] \in S
  BY <1>3
<1> QED BY <1>1, <1>2, <1>4

LEMMA ReverseJoined ==
  ASSUME NEW S, NEW s \in Seq(S), NEW t \in Seq(S)
  PROVE  Reverse(s \o t) = Reverse(t) \o Reverse(s)
<1> DEFINE a == Reverse(s)
           b == Reverse(t)
           u == s \o t
           l == Reverse(u)
           r == b \o a
<1>1. /\ a \in Seq(S) /\ Len(a) = Len(s) /\ \A i \in 1 .. Len(s) : a[i] = s[(Len(s) - i) + 1]
  BY ReverseIs
<1>2. /\ b \in Seq(S) /\ Len(b) = Len(t) /\ \A i \in 1 .. Len(t) : b[i] = t[(Len(t) - i) + 1]
  BY ReverseIs
<1> HIDE DEF a, b
<1>3. /\ u \in Seq(S) /\ Len(u) = Len(s) + Len(t)
      /\ \A i \in 1 .. Len(s) + Len(t) : u[i] = IF i <= Len(s) THEN s[i] ELSE t[i - Len(s)]
  BY ConcatProperties
<1> HIDE DEF u
<1>4. /\ l \in Seq(S) /\ Len(l) = Len(u) /\ \A i \in 1 .. Len(u) : l[i] = u[(Len(u) - i) + 1]
  BY <1>3, ReverseIs
<1>5. /\ r \in Seq(S) /\ Len(r) = Len(b) + Len(a)
      /\ \A i \in 1 .. Len(b) + Len(a) : r[i] = IF i <= Len(b) THEN b[i] ELSE a[i - Len(b)]
  <2>1. b \in Seq(S) /\ a \in Seq(S)
    BY <1>1, <1>2
  <2> QED BY <2>1, ConcatProperties
<1> HIDE DEF l, r
<1>6. Len(s) \in Nat /\ Len(t) \in Nat /\ Len(l) = Len(s) + Len(t) /\ Len(r) = Len(l)
  BY <1>1, <1>2, <1>3, <1>4, <1>5
<1>7. ASSUME NEW i \in 1 .. Len(l) PROVE l[i] = r[i]
  <2> DEFINE j == (Len(s) + Len(t) - i) + 1
  <2>1. i \in Nat /\ i >= 1 /\ i <= Len(s) + Len(t) /\ j \in 1 .. Len(s) + Len(t)
    BY <1>6
  <2>2. l[i] = u[j]
    BY <1>3, <1>4, <1>6
  <2>3. r[i] = IF i <= Len(t) THEN b[i] ELSE a[i - Len(t)]
    BY <1>1, <1>2, <1>5, <1>6
  <2>4. CASE i <= Len(t)
    <3>1. ~ (j <= Len(s)) /\ j - Len(s) = (Len(t) - i) + 1 /\ i \in 1 .. Len(t)
      BY <1>6, <2>1, <2>4
    <3>2. u[j] = t[j - Len(s)]
      BY <1>3, <2>1, <3>1
    <3> QED BY <1>2, <2>2, <2>3, <2>4, <3>1, <3>2
  <2>5. CASE ~ (i <= Len(t))
    <3>1. j <= Len(s) /\ i - Len(t) \in 1 .. Len(s) /\ (Len(s) - (i - Len(t))) + 1 = j
      BY <1>6, <2>1, <2>5
    <3>2. u[j] = s[j]
      BY <1>3, <2>1, <3>1
    <3>3. a[i - Len(t)] = s[j]
      BY <1>1, <3>1
    <3> QED BY <2>2, <2>3, <2>5, <3>2, <3>3
  <2> QED BY <2>4, <2>5
<1>8. l = r
  <2>1. l \in Seq(S) /\ r \in Seq(S) /\ Len(l) = Len(r)
    BY <1>4, <1>5, <1>6
  <2> QED BY <1>7, <2>1, SameSequence
<1> QED BY <1>8 DEF l, r, u, a, b

-----------------------------------------------------------------------------
(* The list of blocks that ended                                             *)

Frame == [events : Seq(Nat), rushed : BOOLEAN]
EventsOf(fs) == [i \in DOMAIN fs |-> fs[i].events]

\* Taken, on the way and in the ring are in order and apart, and together they are
\* the ends that were not lost; the feed is what was taken, cut off.
EventsTyped ==
  /\ told \in Seq(Nat) /\ frames \in Seq(Frame) /\ eventRing \in Seq(Nat)
  /\ ends \in Nat
InOrder(a, b, c, n, gone) ==
  /\ Rising(a) /\ Rising(b) /\ Rising(c)
  /\ Below(a, b) /\ Below(a, c) /\ Below(b, c)
  /\ Values(a) \cup Values(b) \cup Values(c) = (1 .. n) \ gone
  /\ gone \subseteq 1 .. n
EventsInOrder == InOrder(told, Endings!InFlight, eventRing, ends, missed)
FeedIsTold == blockFeed = FirstPart(Reverse(told), BlockEventRing)
EventsInv == EventsTyped /\ EventsInOrder /\ FeedIsTold

LEMMA InFlightIs == Endings!InFlight = FlattenSeq(EventsOf(frames))
BY DEF Endings!InFlight, Endings!FlattenSeq, FlattenSeq, EventsOf

LEMMA FlyingTyped ==
  ASSUME NEW fs \in Seq(Frame)
  PROVE  EventsOf(fs) \in Seq(Seq(Nat)) /\ FlattenSeq(EventsOf(fs)) \in Seq(Nat)
<1>1. Len(fs) \in Nat /\ DOMAIN fs = 1 .. Len(fs)
  OBVIOUS
<1>2. \A i \in 1 .. Len(fs) : fs[i].events \in Seq(Nat)
  <2>1. \A i \in 1 .. Len(fs) : fs[i] \in Frame
    OBVIOUS
  <2>2. \A f \in Frame : f.events \in Seq(Nat)
    BY DEF Frame
  <2> QED BY <2>1, <2>2
<1>3. EventsOf(fs) \in Seq(Seq(Nat))
  BY <1>1, <1>2 DEF EventsOf
<1> QED BY <1>3, FlattenType

\* A frame more
LEMMA FlyingMore ==
  ASSUME NEW fs \in Seq(Frame), NEW f \in Frame
  PROVE  FlattenSeq(EventsOf(Append(fs, f))) = FlattenSeq(EventsOf(fs)) \o f.events
<1> DEFINE a == Append(fs, f)
           e == EventsOf(fs)
<1>1. /\ Len(fs) \in Nat /\ DOMAIN fs = 1 .. Len(fs) /\ DOMAIN a = 1 .. Len(fs) + 1
      /\ a[Len(fs) + 1] = f /\ \A i \in 1 .. Len(fs) : a[i] = fs[i]
  OBVIOUS
<1>2. e \in Seq(Seq(Nat)) /\ f.events \in Seq(Nat)
  BY FlyingTyped DEF Frame
<1>3. /\ EventsOf(a) = [i \in 1 .. Len(fs) + 1 |-> a[i].events]
      /\ e = [i \in 1 .. Len(fs) |-> fs[i].events]
  BY <1>1 DEF EventsOf
<1> HIDE DEF a
<1>4. EventsOf(a) = Append(e, f.events)
  <2>1. Len(e) = Len(fs)
    BY <1>1, <1>3
  <2>2. Append(e, f.events) = [i \in 1 .. Len(fs) + 1 |-> IF i = Len(fs) + 1 THEN f.events ELSE e[i]]
    <3> HIDE DEF e
    <3> QED BY <1>1, <1>2, <2>1
  <2>3. ASSUME NEW i \in 1 .. Len(fs) + 1
        PROVE  a[i].events = IF i = Len(fs) + 1 THEN f.events ELSE e[i]
    <3>1. CASE i = Len(fs) + 1
      BY <1>1, <3>1
    <3>2. CASE i # Len(fs) + 1
      <4>1. i \in 1 .. Len(fs)
        BY <1>1, <3>2
      <4> QED BY <1>1, <1>3, <3>2, <4>1
    <3> QED BY <3>1, <3>2
  <2> QED BY <1>3, <2>2, <2>3
<1> HIDE DEF e
<1>5. FlattenSeq(Append(e, f.events)) = FlattenSeq(e) \o f.events
  BY <1>2, FlattenAppend
<1>6. FlattenSeq(EventsOf(a)) = FlattenSeq(e) \o f.events
  BY <1>4, <1>5
<1> QED BY <1>6 DEF a, e

\* The frame read
LEMMA FlyingLess ==
  ASSUME NEW fs \in Seq(Frame), fs # <<>>
  PROVE  /\ Head(fs) \in Frame /\ Tail(fs) \in Seq(Frame)
         /\ FlattenSeq(EventsOf(fs)) = Head(fs).events \o FlattenSeq(EventsOf(Tail(fs)))
<1> DEFINE e == EventsOf(fs)
           t == Tail(fs)
<1>1. /\ Len(fs) \in Nat \ {0} /\ Len(fs) >= 1
      /\ DOMAIN fs = 1 .. Len(fs)
  OBVIOUS
<1>2. /\ Head(fs) = fs[1] /\ fs[1] \in Frame /\ t \in Seq(Frame)
      /\ Len(t) = Len(fs) - 1 /\ \A i \in 1 .. Len(fs) - 1 : t[i] = fs[i + 1]
  BY <1>1, HeadAndTail
<1> HIDE DEF t
<1>3. e \in Seq(Seq(Nat)) /\ e = [i \in 1 .. Len(fs) |-> fs[i].events] /\ Len(e) = Len(fs)
  <2>1. e = [i \in 1 .. Len(fs) |-> fs[i].events]
    BY <1>1 DEF EventsOf
  <2>2. e \in Seq(Seq(Nat))
    BY FlyingTyped
  <2> QED BY <1>1, <2>1, <2>2
<1>4. EventsOf(t) = [i \in 1 .. Len(fs) - 1 |-> t[i].events] /\ EventsOf(t) \in Seq(Seq(Nat))
  <2>1. DOMAIN t = 1 .. Len(fs) - 1
    BY <1>2
  <2> QED BY <1>2, <2>1, FlyingTyped DEF EventsOf
<1>5. e # <<>> /\ Len(e) >= 1
  BY <1>1, <1>3
<1>6. Head(e) = e[1] /\ Tail(e) \in Seq(Seq(Nat)) /\ Len(Tail(e)) = Len(e) - 1
      /\ \A i \in 1 .. Len(e) - 1 : Tail(e)[i] = e[i + 1]
  <2> HIDE DEF e
  <2> QED BY <1>3, <1>5, HeadAndTail
<1>7. Tail(e) = EventsOf(t)
  <2>1. Len(EventsOf(t)) = Len(fs) - 1
    BY <1>1, <1>4
  <2>2. ASSUME NEW i \in 1 .. Len(fs) - 1 PROVE Tail(e)[i] = EventsOf(t)[i]
    <3>1. i + 1 \in 1 .. Len(fs)
      BY <1>1
    <3>2. e[i + 1] = fs[i + 1].events
      BY <1>3, <3>1
    <3>3. EventsOf(t)[i] = t[i].events
      BY <1>4
    <3>4. Tail(e)[i] = e[i + 1]
      BY <1>3, <1>6
    <3> QED BY <1>2, <3>2, <3>3, <3>4
  <2> HIDE DEF e
  <2> QED BY <1>3, <1>4, <1>6, <2>1, <2>2, SameSequence
<1>8. Head(e) = fs[1].events
  <2>1. 1 \in 1 .. Len(fs)
    BY <1>1
  <2> QED BY <1>3, <1>6, <2>1
<1>9. FlattenSeq(e) = Head(e) \o FlattenSeq(Tail(e))
  <2> HIDE DEF e
  <2> QED BY <1>3, <1>5, FlattenFirst
<1> HIDE DEF e
<1>10. FlattenSeq(e) = fs[1].events \o FlattenSeq(EventsOf(t))
  BY <1>7, <1>8, <1>9
<1> QED BY <1>2, <1>10 DEF e, t

LEMMA NoneFlying == FlattenSeq(EventsOf(<<>>)) = <<>>
<1>1. EventsOf(<<>>) = <<>>
  BY DEF EventsOf
<1> QED BY <1>1, FlattenEmpty

\* Of two sequences put end to end, the order and the values
LEMMA JoinedApart ==
  ASSUME NEW s \in Seq(Nat), NEW t \in Seq(Nat)
  PROVE  /\ s \o t \in Seq(Nat) /\ Values(s \o t) = Values(s) \cup Values(t)
         /\ Rising(s \o t) <=> Rising(s) /\ Rising(t) /\ Below(s, t)
<1> DEFINE u == s \o t
<1>1. /\ u \in Seq(Nat) /\ Len(u) = Len(s) + Len(t)
      /\ \A i \in 1 .. Len(s) + Len(t) : u[i] = IF i <= Len(s) THEN s[i] ELSE t[i - Len(s)]
  BY ConcatProperties
<1> HIDE DEF u
<1>2. /\ Len(s) \in Nat /\ Len(t) \in Nat /\ DOMAIN u = 1 .. Len(s) + Len(t)
      /\ DOMAIN s = 1 .. Len(s) /\ DOMAIN t = 1 .. Len(t)
  BY <1>1
<1>3. ASSUME NEW i \in DOMAIN s PROVE i \in DOMAIN u /\ u[i] = s[i]
  BY <1>1, <1>2
<1>4. ASSUME NEW i \in DOMAIN t PROVE i + Len(s) \in DOMAIN u /\ u[i + Len(s)] = t[i]
  <2>1. i + Len(s) \in 1 .. Len(s) + Len(t) /\ ~ (i + Len(s) <= Len(s)) /\ (i + Len(s)) - Len(s) = i
    BY <1>2
  <2> QED BY <1>1, <1>2, <2>1
<1>5. ASSUME NEW i \in DOMAIN u
      PROVE  \/ i \in DOMAIN s /\ u[i] = s[i]
             \/ i - Len(s) \in DOMAIN t /\ u[i] = t[i - Len(s)]
  BY <1>1, <1>2
<1>6. Values(u) = Values(s) \cup Values(t)
  <2>1. Values(u) \subseteq Values(s) \cup Values(t)
    BY <1>5 DEF Values
  <2>2. Values(s) \subseteq Values(u)
    BY <1>3 DEF Values
  <2>3. Values(t) \subseteq Values(u)
    BY <1>4 DEF Values
  <2> QED BY <2>1, <2>2, <2>3
<1>7. ASSUME Rising(u) PROVE Rising(s) /\ Rising(t) /\ Below(s, t)
  <2>1. Rising(s)
    BY <1>3, <1>7 DEF Rising
  <2>2. ASSUME NEW i \in DOMAIN t, NEW j \in DOMAIN t, i < j PROVE t[i] < t[j]
    <3>1. i + Len(s) < j + Len(s)
      BY <1>2, <2>2
    <3> QED BY <1>4, <1>7, <3>1 DEF Rising
  <2>3. ASSUME NEW i \in DOMAIN s, NEW j \in DOMAIN t PROVE s[i] < t[j]
    <3>1. i < j + Len(s)
      BY <1>2
    <3> QED BY <1>3, <1>4, <1>7, <3>1 DEF Rising
  <2>4. Rising(t)
    BY <2>2 DEF Rising
  <2>5. Below(s, t)
    BY <2>3 DEF Below, Values
  <2> QED BY <2>1, <2>4, <2>5
<1>8. ASSUME Rising(s), Rising(t), Below(s, t) PROVE Rising(u)
  BY <1>8, JoinedInOrder DEF u
<1> QED BY <1>1, <1>6, <1>7, <1>8 DEF u

LEMMA ApartIs ==
  ASSUME NEW s \in Seq(Nat), NEW t \in Seq(Nat), Below(s, t)
  PROVE  Values(s) \cap Values(t) = {}
<1>1. Values(s) \subseteq Nat /\ Values(t) \subseteq Nat
  BY ValuesAreNumbers
<1>2. ASSUME NEW x \in Values(s), x \in Values(t) PROVE FALSE
  <2>1. x \in Nat /\ x < x
    BY <1>1, <1>2 DEF Below
  <2> QED BY <2>1
<1> QED BY <1>2

\* A block ends.
LEMMA RingMore ==
  ASSUME NEW a \in Seq(Nat), NEW b \in Seq(Nat), NEW c \in Seq(Nat), NEW n \in Nat, NEW gone,
         InOrder(a, b, c, n, gone)
  PROVE  Append(c, n + 1) \in Seq(Nat) /\ InOrder(a, b, Append(c, n + 1), n + 1, gone)
<1> DEFINE e == <<n + 1>>
           d == c \o e
<1>1. Append(c, n + 1) = d
  OBVIOUS
<1>2. n + 1 \in Nat /\ Values(e) = {n + 1} /\ Rising(e) /\ e \in Seq(Nat)
  <2>1. n + 1 \in Nat
    OBVIOUS
  <2> QED BY <2>1, LineIsInOrder
<1> HIDE DEF e
<1>3. \A x \in Values(a) \cup Values(b) \cup Values(c) : x \in Nat /\ x < n + 1
  <2>1. \A x \in Values(a) \cup Values(b) \cup Values(c) : x \in 1 .. n
    BY DEF InOrder
  <2> QED BY <2>1
<1>4. Below(a, e) /\ Below(b, e) /\ Below(c, e)
  BY <1>2, <1>3 DEF Below
<1>5. d \in Seq(Nat) /\ Values(d) = Values(c) \cup {n + 1} /\ Rising(d)
  BY <1>2, <1>4, JoinedApart DEF InOrder
<1> HIDE DEF d
<1>6. Below(a, d) /\ Below(b, d)
  BY <1>3, <1>5 DEF Below, InOrder
<1>7. 1 .. n + 1 = (1 .. n) \cup {n + 1} /\ n + 1 \notin 1 .. n
  OBVIOUS
<1>8. InOrder(a, b, d, n + 1, gone)
  <2>1. Values(a) \cup Values(b) \cup Values(c) = (1 .. n) \ gone /\ gone \subseteq 1 .. n
    BY DEF InOrder
  <2>2. Values(a) \cup Values(b) \cup Values(d) = (1 .. n + 1) \ gone
    BY <1>5, <1>7, <2>1
  <2>3. gone \subseteq 1 .. n + 1
    BY <1>7, <2>1
  <2> QED BY <1>5, <1>6, <2>2, <2>3 DEF InOrder
<1> QED BY <1>1, <1>5, <1>8

\* The full ring loses its oldest.
LEMMA RingLess ==
  ASSUME NEW a \in Seq(Nat), NEW b \in Seq(Nat), NEW c \in Seq(Nat), NEW n \in Nat, NEW gone,
         InOrder(a, b, c, n, gone), c # <<>>
  PROVE  Tail(c) \in Seq(Nat) /\ InOrder(a, b, Tail(c), n, gone \cup {Head(c)})
<1> DEFINE h == Head(c)
           t == Tail(c)
<1>1. /\ h \in Nat /\ h \in Values(c)
      /\ t \in Seq(Nat) /\ Values(t) \subseteq Values(c) /\ Rising(t)
      /\ \A y \in Values(t) : h < y
  BY FirstAndRest DEF InOrder
<1>2. Values(c) = Values(t) \cup {h}
  <2>1. ASSUME NEW i \in DOMAIN c PROVE c[i] \in Values(t) \cup {h}
    <3>1. Len(c) \in Nat /\ Len(c) >= 1 /\ i \in 1 .. Len(c)
      OBVIOUS
    <3>2. h = c[1] /\ Len(t) = Len(c) - 1 /\ \A j \in 1 .. Len(c) - 1 : t[j] = c[j + 1]
      BY <3>1, HeadAndTail
    <3>3. CASE i = 1
      BY <3>2, <3>3
    <3>4. CASE i # 1
      <4>1. i - 1 \in 1 .. Len(c) - 1 /\ (i - 1) + 1 = i
        BY <3>1, <3>4
      <4>2. i - 1 \in DOMAIN t
        BY <1>1, <3>1, <3>2, <4>1
      <4> HIDE DEF t
      <4>3. t[i - 1] = c[i]
        BY <3>2, <4>1
      <4> QED BY <4>2, <4>3 DEF Values
    <3> QED BY <3>3, <3>4
  <2> HIDE DEF t, h
  <2>2. Values(c) \subseteq Values(t) \cup {h}
    BY <2>1 DEF Values
  <2> QED BY <1>1, <2>2
<1> HIDE DEF h, t
<1>3. h \notin Values(t) /\ h \notin Values(a) /\ h \notin Values(b)
  <2>1. h \notin Values(t)
    BY <1>1
  <2>2. Values(a) \cap Values(c) = {} /\ Values(b) \cap Values(c) = {}
    BY ApartIs DEF InOrder
  <2> QED BY <1>1, <2>1, <2>2
<1>4. Below(a, t) /\ Below(b, t)
  BY <1>1 DEF Below, InOrder
<1>5. InOrder(a, b, t, n, gone \cup {h})
  <2>1. Values(a) \cup Values(b) \cup Values(c) = (1 .. n) \ gone /\ gone \subseteq 1 .. n
    BY DEF InOrder
  <2>2. Values(a) \cup Values(b) \cup Values(t) = (1 .. n) \ (gone \cup {h})
    BY <1>2, <1>3, <2>1
  <2>3. gone \cup {h} \subseteq 1 .. n
    BY <1>2, <2>1
  <2> QED BY <1>1, <1>4, <2>2, <2>3 DEF InOrder
<1> QED BY <1>1, <1>5 DEF h, t

\* The ring is drained for nobody, or ends with the gateway.
LEMMA RingLost ==
  ASSUME NEW a \in Seq(Nat), NEW b \in Seq(Nat), NEW c \in Seq(Nat), NEW n \in Nat, NEW gone,
         InOrder(a, b, c, n, gone)
  PROVE  InOrder(a, b, <<>>, n, gone \cup Values(c))
<1>1. Values(a) \cap Values(c) = {} /\ Values(b) \cap Values(c) = {}
  BY ApartIs DEF InOrder
<1> DEFINE o == <<>>
<1>2. Values(o) = {} /\ Rising(o)
  BY EmptyIsInOrder
<1> HIDE DEF o
<1>3. Below(a, o) /\ Below(b, o)
  BY <1>2 DEF Below
<1>4. Values(a) \cup Values(b) \cup Values(c) = (1 .. n) \ gone /\ gone \subseteq 1 .. n
  BY DEF InOrder
<1>5. Values(a) \cup Values(b) \cup Values(o) = (1 .. n) \ (gone \cup Values(c))
  BY <1>1, <1>2, <1>4
<1>6. gone \cup Values(c) \subseteq 1 .. n
  BY <1>4
<1>7. InOrder(a, b, o, n, gone \cup Values(c))
  BY <1>2, <1>3, <1>5, <1>6 DEF InOrder
<1> QED BY <1>7 DEF o

\* A frame takes what is in the ring.
LEMMA RingSent ==
  ASSUME NEW a \in Seq(Nat), NEW b \in Seq(Nat), NEW c \in Seq(Nat), NEW n \in Nat, NEW gone,
         InOrder(a, b, c, n, gone)
  PROVE  b \o c \in Seq(Nat) /\ InOrder(a, b \o c, <<>>, n, gone)
<1> DEFINE o == <<>>
           d == b \o c
<1>1. Values(o) = {} /\ Rising(o)
  BY EmptyIsInOrder
<1> HIDE DEF o
<1>2. d \in Seq(Nat) /\ Values(d) = Values(b) \cup Values(c) /\ Rising(d)
  BY JoinedApart DEF InOrder
<1> HIDE DEF d
<1>3. Below(a, d) /\ Below(a, o) /\ Below(d, o)
  BY <1>1, <1>2 DEF Below, InOrder
<1>4. Values(a) \cup Values(d) \cup Values(o) = (1 .. n) \ gone /\ gone \subseteq 1 .. n
  BY <1>1, <1>2 DEF InOrder
<1>5. InOrder(a, d, o, n, gone)
  BY <1>1, <1>2, <1>3, <1>4 DEF InOrder
<1> QED BY <1>2, <1>5 DEF d, o

\* A frame's events are taken.
LEMMA FrameTaken ==
  ASSUME NEW a \in Seq(Nat), NEW x \in Seq(Nat), NEW b \in Seq(Nat), NEW c \in Seq(Nat),
         NEW n \in Nat, NEW gone, InOrder(a, x \o b, c, n, gone)
  PROVE  a \o x \in Seq(Nat) /\ InOrder(a \o x, b, c, n, gone)
<1> DEFINE f == x \o b
           d == a \o x
<1>1. /\ Values(f) = Values(x) \cup Values(b)
      /\ Rising(x) /\ Rising(b) /\ Below(x, b)
  BY JoinedApart DEF InOrder
<1>2. Below(a, f) /\ Below(f, c) /\ Rising(a) /\ Rising(c) /\ Below(a, c)
      /\ Values(a) \cup Values(f) \cup Values(c) = (1 .. n) \ gone /\ gone \subseteq 1 .. n
  BY DEF InOrder
<1> HIDE DEF f
<1>3. Below(a, x) /\ Below(a, b) /\ Below(x, c) /\ Below(b, c)
  BY <1>1, <1>2 DEF Below
<1>4. d \in Seq(Nat) /\ Values(d) = Values(a) \cup Values(x) /\ Rising(d)
  BY <1>1, <1>2, <1>3, JoinedApart
<1> HIDE DEF d
<1>5. Below(d, b) /\ Below(d, c)
  BY <1>1, <1>2, <1>3, <1>4 DEF Below
<1>6. Values(d) \cup Values(b) \cup Values(c) = (1 .. n) \ gone
  BY <1>1, <1>2, <1>4
<1>7. InOrder(d, b, c, n, gone)
  BY <1>1, <1>2, <1>3, <1>4, <1>5, <1>6 DEF InOrder
<1> QED BY <1>4, <1>7 DEF d

\* A frame's events are passed over.
LEMMA FramePassed ==
  ASSUME NEW a \in Seq(Nat), NEW x \in Seq(Nat), NEW b \in Seq(Nat), NEW c \in Seq(Nat),
         NEW n \in Nat, NEW gone, InOrder(a, x \o b, c, n, gone)
  PROVE  InOrder(a, b, c, n, gone \cup Values(x))
<1> DEFINE f == x \o b
<1>1. /\ Values(f) = Values(x) \cup Values(b) /\ f \in Seq(Nat)
      /\ Rising(x) /\ Rising(b) /\ Below(x, b)
  BY JoinedApart DEF InOrder
<1>2. Below(a, f) /\ Below(f, c) /\ Rising(a) /\ Rising(c) /\ Below(a, c)
      /\ Values(a) \cup Values(f) \cup Values(c) = (1 .. n) \ gone /\ gone \subseteq 1 .. n
  BY DEF InOrder
<1> HIDE DEF f
<1>3. Below(a, b) /\ Below(b, c)
  BY <1>1, <1>2 DEF Below
<1>4. /\ Values(a) \cap Values(f) = {} /\ Values(f) \cap Values(c) = {}
      /\ Values(x) \cap Values(b) = {}
  BY <1>1, <1>2, ApartIs
<1>5. Values(a) \cup Values(b) \cup Values(c) = (1 .. n) \ (gone \cup Values(x))
  BY <1>1, <1>2, <1>4
<1>6. gone \cup Values(x) \subseteq 1 .. n
  BY <1>1, <1>2
<1> QED BY <1>1, <1>2, <1>3, <1>5, <1>6 DEF InOrder

\* The bridge ends.
LEMMA AllForgotten ==
  ASSUME NEW a \in Seq(Nat), NEW b \in Seq(Nat), NEW c \in Seq(Nat), NEW n \in Nat, NEW gone,
         InOrder(a, b, c, n, gone)
  PROVE  InOrder(<<>>, <<>>, c, n, gone \cup Values(a) \cup Values(b))
<1>1. Values(a) \cap Values(c) = {} /\ Values(b) \cap Values(c) = {}
  BY ApartIs DEF InOrder
<1> DEFINE o == <<>>
<1>2. Values(o) = {} /\ Rising(o)
  BY EmptyIsInOrder
<1> HIDE DEF o
<1>3. Below(o, o) /\ Below(o, c)
  BY <1>2 DEF Below
<1>4. Values(a) \cup Values(b) \cup Values(c) = (1 .. n) \ gone /\ gone \subseteq 1 .. n
  BY DEF InOrder
<1>5. Values(o) \cup Values(o) \cup Values(c) = (1 .. n) \ (gone \cup Values(a) \cup Values(b))
  BY <1>1, <1>2, <1>4
<1>6. gone \cup Values(a) \cup Values(b) \subseteq 1 .. n
  BY <1>4
<1>7. InOrder(o, o, c, n, gone \cup Values(a) \cup Values(b))
  BY <1>2, <1>3, <1>5, <1>6 DEF InOrder
<1> QED BY <1>7 DEF o

\* Nothing of the page changes but what is named.
LEMMA EventsFrom ==
  ASSUME EventsInv, NEW a, NEW fs, NEW c, NEW n, NEW gone,
         told' = a, frames' = fs, eventRing' = c, ends' = n, missed' = gone,
         a \in Seq(Nat), fs \in Seq(Frame), c \in Seq(Nat), n \in Nat,
         InOrder(a, FlattenSeq(EventsOf(fs)), c, n, gone),
         blockFeed' = FirstPart(Reverse(a), BlockEventRing)
  PROVE  EventsInv'
<1>1. EventsTyped'
  BY DEF EventsTyped
<1>2. Endings!InFlight' = FlattenSeq(EventsOf(fs))
  BY InFlightIs DEF Endings!InFlight, Endings!FlattenSeq, FlattenSeq, EventsOf
<1>3. EventsInOrder'
  BY <1>2 DEF EventsInOrder
<1>4. FeedIsTold'
  BY DEF FeedIsTold
<1> QED BY <1>1, <1>3, <1>4 DEF EventsInv

LEMMA NoneShown == ASSUME NEW n \in Nat PROVE FirstPart(Reverse(<<>>), n) = <<>>
<1> DEFINE o == <<>>
           r == Reverse(o)
<1>1. o \in Seq(Nat) /\ Len(o) = 0
  OBVIOUS
<1> HIDE DEF o
<1>2. r \in Seq(Nat) /\ Len(r) = 0
  BY <1>1, ReverseIs
<1> HIDE DEF r
<1> DEFINE l == FirstPart(r, n)
<1>3. l \in Seq(Nat) /\ Len(l) = 0
  <2>1. l \in Seq(Nat) /\ Len(l) = IF Len(r) < n THEN Len(r) ELSE n
    BY <1>2, FirstPartIs
  <2> HIDE DEF l
  <2> QED BY <1>2, <2>1
<1> HIDE DEF l
<1>4. l = <<>>
  BY <1>3
<1> QED BY <1>4 DEF l, r, o

LEMMA EventsInit ==
  ASSUME PagesAssumption, Endings!Init
  PROVE  EventsInv
<1>0. BlockEventRing \in Nat
  BY DEF PagesAssumption
<1>1. /\ eventRing = <<>> /\ frames = <<>> /\ blockFeed = <<>> /\ told = <<>>
      /\ ends = 0 /\ missed = {}
  BY DEF Endings!Init
<1>2. Endings!InFlight = <<>>
  BY <1>1, InFlightIs, NoneFlying
<1>3. EventsTyped
  BY <1>1 DEF EventsTyped
<1>4. EventsInOrder
  <2>1. Values(<<>>) = {} /\ Rising(<<>>) /\ 1 .. 0 = {}
    BY EmptyIsInOrder
  <2> DEFINE o == <<>>
  <2>2. Values(o) = {} /\ Rising(o) /\ 1 .. 0 = {}
    BY <2>1
  <2> HIDE DEF o
  <2>3. InOrder(o, o, o, 0, {})
    BY <2>2 DEF InOrder, Below
  <2> QED BY <1>1, <1>2, <2>3 DEF EventsInOrder, o
<1>5. FeedIsTold
  BY <1>0, <1>1, NoneShown DEF FeedIsTold
<1> QED BY <1>3, <1>4, <1>5 DEF EventsInv

LEMMA EventsAre ==
  ASSUME EventsInv
  PROVE  /\ told \in Seq(Nat) /\ frames \in Seq(Frame) /\ eventRing \in Seq(Nat) /\ ends \in Nat
         /\ FlattenSeq(EventsOf(frames)) \in Seq(Nat)
         /\ InOrder(told, FlattenSeq(EventsOf(frames)), eventRing, ends, missed)
         /\ blockFeed = FirstPart(Reverse(told), BlockEventRing)
<1>1. /\ told \in Seq(Nat) /\ frames \in Seq(Frame) /\ eventRing \in Seq(Nat) /\ ends \in Nat
  BY DEF EventsInv, EventsTyped
<1>2. FlattenSeq(EventsOf(frames)) \in Seq(Nat)
  BY <1>1, FlyingTyped
<1>3. InOrder(told, FlattenSeq(EventsOf(frames)), eventRing, ends, missed)
  BY InFlightIs DEF EventsInv, EventsInOrder
<1> QED BY <1>1, <1>2, <1>3 DEF EventsInv, FeedIsTold

LEMMA BlockEndsKeeps ==
  ASSUME EventRingCap \in Nat \ {0}, EventsInv, Endings!BlockEnds
  PROVE  EventsInv'
<1> DEFINE flying == FlattenSeq(EventsOf(frames))
<1>1. /\ told \in Seq(Nat) /\ frames \in Seq(Frame) /\ eventRing \in Seq(Nat) /\ ends \in Nat
      /\ flying \in Seq(Nat) /\ InOrder(told, flying, eventRing, ends, missed)
      /\ blockFeed = FirstPart(Reverse(told), BlockEventRing)
  BY EventsAre
<1> HIDE DEF flying
<1>2. /\ ends' = ends + 1 /\ ends + 1 \in Nat
      /\ told' = told /\ frames' = frames /\ blockFeed' = blockFeed
  BY <1>1 DEF Endings!BlockEnds
<1>3. \E c, gone : /\ eventRing' = c /\ missed' = gone /\ c \in Seq(Nat)
                   /\ InOrder(told, flying, c, ends + 1, gone)
  <2>1. CASE Len(eventRing) < EventRingCap
    <3>1. eventRing' = Append(eventRing, ends + 1) /\ missed' = missed
      BY <2>1 DEF Endings!BlockEnds
    <3>2. /\ Append(eventRing, ends + 1) \in Seq(Nat)
          /\ InOrder(told, flying, Append(eventRing, ends + 1), ends + 1, missed)
      BY <1>1, RingMore
    <3> QED BY <3>1, <3>2
  <2>2. CASE ~ (Len(eventRing) < EventRingCap)
    <3> DEFINE t == Tail(eventRing)
               gone == missed \cup {Head(eventRing)}
    <3>1. eventRing' = Append(t, ends + 1) /\ missed' = gone
      BY <2>2 DEF Endings!BlockEnds
    <3>2. eventRing # <<>>
      BY <2>2
    <3>3. t \in Seq(Nat) /\ InOrder(told, flying, t, ends, gone)
      BY <1>1, <3>2, RingLess
    <3> HIDE DEF t, gone
    <3>4. Append(t, ends + 1) \in Seq(Nat) /\ InOrder(told, flying, Append(t, ends + 1), ends + 1, gone)
      BY <1>1, <3>3, RingMore
    <3> QED BY <3>1, <3>4
  <2> QED BY <2>1, <2>2
<1> QED BY <1>1, <1>2, <1>3, EventsFrom DEF flying

LEMMA SendKeeps == ASSUME EventsInv, Endings!Send PROVE EventsInv'
<1> DEFINE flying == FlattenSeq(EventsOf(frames))
<1>1. /\ told \in Seq(Nat) /\ frames \in Seq(Frame) /\ eventRing \in Seq(Nat) /\ ends \in Nat
      /\ flying \in Seq(Nat) /\ InOrder(told, flying, eventRing, ends, missed)
      /\ blockFeed = FirstPart(Reverse(told), BlockEventRing)
  BY EventsAre
<1> HIDE DEF flying
<1>2. PICK rushed \in BOOLEAN : frames' = Append(frames, [events |-> eventRing, rushed |-> rushed])
  BY DEF Endings!Send
<1> DEFINE f == [events |-> eventRing, rushed |-> rushed]
           fs == Append(frames, f)
<1>3. f \in Frame /\ f.events = eventRing
  BY <1>1 DEF Frame
<1>8. frames' = fs
  BY <1>2
<1> HIDE DEF f
<1>4. fs \in Seq(Frame)
  BY <1>1, <1>3
<1>5. FlattenSeq(EventsOf(fs)) = flying \o eventRing
  BY <1>1, <1>3, FlyingMore DEF flying
<1> HIDE DEF fs
<1>6. InOrder(told, flying \o eventRing, <<>>, ends, missed)
  BY <1>1, RingSent
<1>7. /\ eventRing' = <<>> /\ told' = told /\ ends' = ends /\ missed' = missed
      /\ blockFeed' = blockFeed /\ <<>> \in Seq(Nat)
  BY DEF Endings!Send
<1>9. InOrder(told, FlattenSeq(EventsOf(fs)), <<>>, ends, missed)
  BY <1>5, <1>6
<1> QED BY <1>1, <1>4, <1>7, <1>8, <1>9, EventsFrom

\* The ring is emptied, by the gateway for nobody or with the gateway.
LEMMA RingEnds ==
  ASSUME EventsInv, eventRing' = <<>>, missed' = missed \cup Values(eventRing),
         told' = told, frames' = frames, ends' = ends, blockFeed' = blockFeed
  PROVE  EventsInv'
<1> DEFINE flying == FlattenSeq(EventsOf(frames))
<1>1. /\ told \in Seq(Nat) /\ frames \in Seq(Frame) /\ eventRing \in Seq(Nat) /\ ends \in Nat
      /\ flying \in Seq(Nat) /\ InOrder(told, flying, eventRing, ends, missed)
      /\ blockFeed = FirstPart(Reverse(told), BlockEventRing)
  BY EventsAre
<1> HIDE DEF flying
<1>2. InOrder(told, flying, <<>>, ends, missed \cup Values(eventRing)) /\ <<>> \in Seq(Nat)
  BY <1>1, RingLost, EmptyIsInOrder
<1> QED BY <1>1, <1>2, EventsFrom DEF flying

LEMMA IngestKeeps ==
  ASSUME BlockEventRing \in Nat, EventsInv, Endings!Ingest
  PROVE  EventsInv'
<1> DEFINE h == Head(frames)
           t == Tail(frames)
           x == h.events
           flying == FlattenSeq(EventsOf(t))
<1>1. /\ told \in Seq(Nat) /\ frames \in Seq(Frame) /\ eventRing \in Seq(Nat) /\ ends \in Nat
      /\ InOrder(told, FlattenSeq(EventsOf(frames)), eventRing, ends, missed)
      /\ blockFeed = FirstPart(Reverse(told), BlockEventRing)
  BY EventsAre
<1>2. /\ frames # <<>> /\ frames' = t
      /\ eventRing' = eventRing /\ ends' = ends
  BY DEF Endings!Ingest
<1>3. /\ h \in Frame /\ t \in Seq(Frame)
      /\ FlattenSeq(EventsOf(frames)) = x \o flying
  BY <1>1, <1>2, FlyingLess
<1>9. \/ blockFeed' = Endings!FeedAfter(blockFeed, x) /\ told' = told \o x /\ missed' = missed
      \/ missed' = missed \cup Endings!Range(x) /\ blockFeed' = blockFeed /\ told' = told
  BY DEF Endings!Ingest
<1> HIDE DEF t, h
<1>4. x \in Seq(Nat) /\ flying \in Seq(Nat)
  BY <1>3, FlyingTyped DEF Frame
<1>5. InOrder(told, x \o flying, eventRing, ends, missed)
  BY <1>1, <1>3
<1> HIDE DEF x
<1>6. CASE blockFeed' = Endings!FeedAfter(blockFeed, x) /\ told' = told \o x /\ missed' = missed
  <2> DEFINE a == told \o x
             r == Reverse(told)
             y == Reverse(x)
  <2>1. a \in Seq(Nat) /\ InOrder(a, flying, eventRing, ends, missed)
    <3> HIDE DEF flying
    <3> QED BY <1>1, <1>4, <1>5, FrameTaken
  <2>2. blockFeed' = FirstPart(y \o blockFeed, BlockEventRing)
    BY <1>6 DEF Endings!FeedAfter, Endings!FirstOf, FirstPart, Endings!Reverse, Reverse
  <2>3. r \in Seq(Nat) /\ y \in Seq(Nat) /\ Reverse(a) = y \o r
    BY <1>1, <1>4, ReverseIs, ReverseJoined
  <2> HIDE DEF r, y
  <2>4. FirstPart(y \o FirstPart(r, BlockEventRing), BlockEventRing) = FirstPart(y \o r, BlockEventRing)
    BY <2>3, FirstOfBack
  <2>5. blockFeed = FirstPart(r, BlockEventRing)
    BY <1>1 DEF r
  <2>6. blockFeed' = FirstPart(Reverse(a), BlockEventRing)
    BY <2>2, <2>3, <2>4, <2>5
  <2>7. told' = a
    BY <1>6
  <2> HIDE DEF a
  <2> QED BY <1>1, <1>2, <1>3, <1>6, <2>1, <2>6, <2>7, EventsFrom DEF flying
<1>7. CASE missed' = missed \cup Endings!Range(x) /\ blockFeed' = blockFeed /\ told' = told
  <2>1. Endings!Range(x) = Values(x)
    BY DEF Endings!Range, Values
  <2>2. InOrder(told, flying, eventRing, ends, missed \cup Values(x))
    <3> HIDE DEF flying
    <3> QED BY <1>1, <1>4, <1>5, FramePassed
  <2> QED BY <1>1, <1>2, <1>3, <1>7, <2>1, <2>2, EventsFrom DEF flying
<1> QED BY <1>6, <1>7, <1>9

LEMMA BridgeRestartsKeeps ==
  ASSUME BlockEventRing \in Nat, EventsInv, Endings!BridgeRestarts
  PROVE  EventsInv'
<1> DEFINE flying == FlattenSeq(EventsOf(frames))
           o == <<>>
<1>1. /\ told \in Seq(Nat) /\ frames \in Seq(Frame) /\ eventRing \in Seq(Nat) /\ ends \in Nat
      /\ flying \in Seq(Nat) /\ InOrder(told, flying, eventRing, ends, missed)
  BY EventsAre
<1>2. /\ frames' = o /\ blockFeed' = o /\ told' = o
      /\ missed' = missed \cup Endings!Range(told) \cup Endings!Range(Endings!InFlight)
      /\ eventRing' = eventRing /\ ends' = ends
  BY DEF Endings!BridgeRestarts
<1>3. Endings!Range(told) = Values(told) /\ Endings!Range(Endings!InFlight) = Values(flying)
  BY InFlightIs DEF Endings!Range, Values
<1>4. InOrder(o, o, eventRing, ends, missed \cup Values(told) \cup Values(flying))
  <2> HIDE DEF flying
  <2> QED BY <1>1, AllForgotten
<1>5. o \in Seq(Nat) /\ o \in Seq(Frame) /\ FlattenSeq(EventsOf(o)) = o
  BY NoneFlying
<1>6. o = FirstPart(Reverse(o), BlockEventRing)
  BY NoneShown
<1>7. InOrder(o, FlattenSeq(EventsOf(o)), eventRing, ends, missed')
  BY <1>2, <1>3, <1>4, <1>5
<1> HIDE DEF o
<1> QED BY <1>1, <1>2, <1>5, <1>6, <1>7, EventsFrom

LEMMA EventsStep ==
  ASSUME PagesAssumption
  PROVE  EventsInv /\ [Endings!Next]_(Endings!vars) => EventsInv'
<1> SUFFICES ASSUME EventsInv, [Endings!Next]_(Endings!vars) PROVE EventsInv'
  OBVIOUS
<1>0. EventRingCap \in Nat \ {0} /\ BlockEventRing \in Nat
  BY DEF PagesAssumption
<1>1. ASSUME \/ Endings!Connect \/ Endings!EndOfFile \/ UNCHANGED Endings!vars
      PROVE  EventsInv'
  <2>1. /\ told' = told /\ frames' = frames /\ eventRing' = eventRing /\ ends' = ends
        /\ missed' = missed /\ blockFeed' = blockFeed
    BY <1>1 DEF Endings!Connect, Endings!EndOfFile, Endings!vars
  <2> QED BY <2>1, EventsAre, EventsFrom
<1>2. ASSUME Endings!SendFails \/ Endings!GatewayRestarts PROVE EventsInv'
  <2>1. /\ eventRing' = <<>> /\ missed' = missed \cup Endings!Range(eventRing)
        /\ told' = told /\ frames' = frames /\ ends' = ends /\ blockFeed' = blockFeed
    BY <1>2 DEF Endings!SendFails, Endings!GatewayRestarts
  <2>2. Endings!Range(eventRing) = Values(eventRing)
    BY DEF Endings!Range, Values
  <2> QED BY <2>1, <2>2, RingEnds
<1>3. CASE Endings!BlockEnds
  BY <1>0, <1>3, BlockEndsKeeps
<1>4. CASE Endings!Send
  BY <1>4, SendKeeps
<1>5. CASE Endings!Ingest
  BY <1>0, <1>5, IngestKeeps
<1>6. CASE Endings!BridgeRestarts
  BY <1>0, <1>6, BridgeRestartsKeeps
<1> QED BY <1>1, <1>2, <1>3, <1>4, <1>5, <1>6 DEF Endings!Next

\* What is kept of the feed is enough for the page.
LEMMA EventsShown ==
  ASSUME PagesAssumption, EventsInv
  PROVE  EndsAreTold
<1> DEFINE flying == FlattenSeq(EventsOf(frames))
           b == told \o flying
           w == b \o eventRing
<1>0. PageRows \in Nat /\ BlockEventRing \in Nat /\ PageRows <= BlockEventRing
  BY DEF PagesAssumption
<1>1. /\ told \in Seq(Nat) /\ eventRing \in Seq(Nat)
      /\ flying \in Seq(Nat) /\ InOrder(told, flying, eventRing, ends, missed)
      /\ blockFeed = FirstPart(Reverse(told), BlockEventRing)
  BY EventsAre
<1>8. Endings!InFlight = flying
  BY InFlightIs
<1> HIDE DEF flying
<1>2. b \in Seq(Nat) /\ Values(b) = Values(told) \cup Values(flying) /\ Rising(b)
  BY <1>1, JoinedApart DEF InOrder
<1> HIDE DEF b
<1>3. Below(b, eventRing)
  BY <1>1, <1>2 DEF InOrder, Below
<1>4. Rising(w) /\ Values(w) = Values(b) \cup Values(eventRing)
  BY <1>1, <1>2, <1>3, JoinedApart DEF InOrder
<1> HIDE DEF w
<1>5. Values(w) = (1 .. ends) \ missed
  BY <1>1, <1>2, <1>4 DEF InOrder
<1>6. FirstPart(blockFeed, PageRows) = FirstPart(Reverse(told), PageRows)
  <2>1. Reverse(told) \in Seq(Nat)
    BY <1>1, ReverseIs
  <2> QED BY <1>0, <1>1, <2>1, FirstOfFirst
<1>7. w = told \o Endings!InFlight \o eventRing
  BY <1>8 DEF w, b
<1>9. Endings!PageFeed = FirstPart(blockFeed, PageRows)
  BY DEF Endings!PageFeed, Endings!FirstOf, FirstPart
<1>10. Endings!FirstOf(Endings!Reverse(told), PageRows) = FirstPart(Reverse(told), PageRows)
  BY DEF Endings!FirstOf, FirstPart, Endings!Reverse, Reverse
<1>11. Endings!Range(w) = (1 .. ends) \ missed
  BY <1>5 DEF Endings!Range, Values
<1>12. \A i, j \in DOMAIN w : i < j => w[i] < w[j]
  BY <1>4 DEF Rising
<1> QED BY <1>6, <1>7, <1>9, <1>10, <1>11, <1>12 DEF EndsAreTold, Endings!EndsAreTold

\* The FEC page lists the newest ends of blocks that the bridge took, each once
\* and in order; an end that it did not take is on its way, or was lost where the
\* code loses it.
THEOREM EndsComeInOrder == Endings!Spec => []EndsAreTold
<1>0. PagesAssumption
  BY PagesAssumption
<1>1. EventsInv => EndsAreTold
  BY <1>0, EventsShown
<1>2. EventsInv /\ [Endings!Next]_(Endings!vars) => EventsInv'
  BY <1>0, EventsStep
<1>3. Endings!Init => EventsInv
  BY <1>0, EventsInit
<1> QED BY <1>1, <1>2, <1>3, PTL DEF Endings!Spec

-----------------------------------------------------------------------------
(* The alerts that are listed                                                *)

Alert ==
  [id : Nat \X {"FEC", "CRC", "BURST", "LINK"} \X Nat,
   kind : Alarms!Kinds \cup Alarms!SimKinds]
At(a) == Alarms!Time(a)

\* Newest first, each once
NewestFirst(s) == \A i, j \in DOMAIN s : i < j => s[i] # s[j] /\ At(s[i]) >= At(s[j])

\* The first k of a ring are newer than all that was seen, and what was seen
\* starts with the others: so it is as long as one source is seen.
Matches(s, seen, k) ==
  /\ k \in 0 .. Len(s) /\ Len(s) - k <= Len(seen)
  /\ \A i \in 1 .. k, j \in 1 .. Len(seen) : At(s[i]) > At(seen[j])
  /\ \A i \in 1 .. Len(s) - k : s[k + i] = seen[i]

Matching(s, seen) == \E k \in Nat : Matches(s, seen, k)

SeenBy(seen, t) ==
  seen \in Seq(Alert) /\ NewestFirst(seen) /\ \A i \in 1 .. Len(seen) : At(seen[i]) <= t

\* An alert is among those of a list, or as many as it may hold are as new.
Among(a, seen) == \E j \in 1 .. Len(seen) : seen[j] = a
NoRoom(a, seen) == Len(seen) = MaxCumulative /\ \A j \in 1 .. Len(seen) : At(seen[j]) >= At(a)

\* An alert of a ring whose id was seen need not be listed again.
Told(s, seen) ==
  \A i \in 1 .. Len(s) :
    s[i].id \in Alarms!Ids(seen) => Among(s[i], seen) \/ NoRoom(s[i], seen)

\* The ids of an alert made up and of one of the daemon differ.
MadeUp(a) == a.id[3] = AlertRingMax + 1
From(r, s) == \A i \in 1 .. Len(s) : MadeUp(s[i]) <=> r = "mock"

AlertsInv ==
  /\ tick \in Nat /\ origin \in Alarms!Sources
  /\ rings = [r \in Alarms!Sources |-> rings[r]]
  /\ all = [h \in Hooks |-> all[h]] /\ sources = [h \in Hooks |-> sources[h]]
  /\ \A r \in Alarms!Sources :
       Len(rings[r]) <= AlertRingMax /\ SeenBy(rings[r], tick) /\ From(r, rings[r])
  /\ \A h \in Hooks : SeenBy(all[h], tick)
  /\ \A h \in Hooks, r \in Alarms!Sources :
       Told(rings[r], all[h]) /\ (sources[h] \subseteq {r} => Matching(rings[r], all[h]))

LEMMA AlertIs ==
  ASSUME NEW a \in Alert
  PROVE  At(a) \in Nat /\ a.kind \in Alarms!Kinds \cup Alarms!SimKinds
BY DEF Alert, At, Alarms!Time

\* The ring while a frame's thresholds are looked at: those of its time are of the
\* kinds pushed so far.
Pushed(s, t, kinds) ==
  /\ Len(s) <= AlertRingMax /\ SeenBy(s, t)
  /\ \A i \in 1 .. Len(s) : At(s[i]) = t => s[i].kind \in kinds

\* An alert in front of the others
LEMMA PushIs ==
  ASSUME NEW s \in Seq(Alert), NEW a \in Alert, AlertRingMax \in Nat
  PROVE  LET n == Alarms!Push(s, a) IN
         /\ n \in Seq(Alert) /\ Len(n) \in Nat /\ Len(n) <= AlertRingMax /\ Len(n) <= Len(s) + 1
         /\ Len(n) = AlertRingMax \/ Len(n) = Len(s) + 1
         /\ Len(n) >= 1 => n[1] = a
         /\ \A i \in 2 .. Len(n) : i - 1 \in 1 .. Len(s) /\ n[i] = s[i - 1]
<1> DEFINE o == <<a>>
           w == o \o s
           n == FirstPart(w, AlertRingMax)
<1>1. Alarms!Push(s, a) = n
  BY DEF Alarms!Push, Alarms!FirstOf, FirstPart
<1>3. o \in Seq(Alert) /\ Len(o) = 1 /\ o[1] = a
  OBVIOUS
<1> HIDE DEF o
<1>4. /\ w \in Seq(Alert) /\ Len(w) = 1 + Len(s)
      /\ \A i \in 1 .. 1 + Len(s) : w[i] = IF i <= 1 THEN o[i] ELSE s[i - 1]
  <2>1. /\ w \in Seq(Alert) /\ Len(w) = Len(o) + Len(s)
        /\ \A i \in 1 .. Len(o) + Len(s) : w[i] = IF i <= Len(o) THEN o[i] ELSE s[i - Len(o)]
    BY <1>3, ConcatProperties
  <2> HIDE DEF w
  <2> QED BY <1>3, <2>1
<1> HIDE DEF w
<1>5. /\ n \in Seq(Alert) /\ Len(n) = IF Len(w) < AlertRingMax THEN Len(w) ELSE AlertRingMax
      /\ Len(n) \in Nat
      /\ \A i \in 1 .. Len(n) : i \in 1 .. Len(w) /\ n[i] = w[i]
  BY <1>4, FirstPartIs
<1> HIDE DEF n
<1>6. Len(s) \in Nat
  OBVIOUS
<1>7. Len(n) <= AlertRingMax /\ Len(n) <= Len(s) + 1
      /\ (Len(n) = AlertRingMax \/ Len(n) = Len(s) + 1)
  BY <1>4, <1>5, <1>6
<1>8. ASSUME Len(n) >= 1 PROVE n[1] = a
  <2>1. 1 \in 1 .. Len(n) /\ 1 \in 1 .. 1 + Len(s)
    BY <1>5, <1>6, <1>8
  <2> QED BY <1>3, <1>4, <1>5, <2>1
<1>9. ASSUME NEW i \in 2 .. Len(n) PROVE i - 1 \in 1 .. Len(s) /\ n[i] = s[i - 1]
  <2>1. i \in 1 .. Len(n) /\ i \in 1 .. 1 + Len(s) /\ ~ (i <= 1) /\ i - 1 \in 1 .. Len(s)
    BY <1>5, <1>6, <1>7
  <2> QED BY <1>4, <1>5, <2>1
<1> QED BY <1>1, <1>5, <1>7, <1>8, <1>9

\* What holds of the alert and of those that were there holds of all.
LEMMA PushAll ==
  ASSUME NEW s \in Seq(Alert), NEW a \in Alert, AlertRingMax \in Nat,
         NEW i \in 1 .. Len(Alarms!Push(s, a))
  PROVE  \/ i = 1 /\ Alarms!Push(s, a)[i] = a
         \/ \E j \in 1 .. Len(s) : j = i - 1 /\ i # 1 /\ Alarms!Push(s, a)[i] = s[j]
<1> DEFINE n == Alarms!Push(s, a)
<1>1. /\ Len(n) \in Nat
      /\ Len(n) >= 1 => n[1] = a
      /\ \A j \in 2 .. Len(n) : j - 1 \in 1 .. Len(s) /\ n[j] = s[j - 1]
  BY PushIs
<1> HIDE DEF n
<1>2. i \in 1 .. Len(n)
  BY DEF n
<1>3. CASE i = 1
  BY <1>1, <1>2, <1>3 DEF n
<1>4. CASE i # 1
  <2>1. i \in 2 .. Len(n)
    BY <1>1, <1>2, <1>4
  <2> QED BY <1>1, <1>4, <2>1 DEF n
<1> QED BY <1>3, <1>4

LEMMA PushKeeps ==
  ASSUME NEW s, NEW t \in Nat, NEW kinds, NEW a \in Alert, At(a) = t, a.kind \notin kinds,
         AlertRingMax \in Nat, Pushed(s, t, kinds)
  PROVE  Pushed(Alarms!Push(s, a), t, kinds \cup {a.kind})
<1> DEFINE n == Alarms!Push(s, a)
<1>1. /\ s \in Seq(Alert) /\ NewestFirst(s) /\ \A i \in 1 .. Len(s) : At(s[i]) <= t
      /\ \A i \in 1 .. Len(s) : At(s[i]) = t => s[i].kind \in kinds
  BY DEF Pushed, SeenBy
<1>2. n \in Seq(Alert) /\ Len(n) \in Nat /\ Len(n) <= AlertRingMax
  BY <1>1, PushIs
<1>3. \A i \in 1 .. Len(n) :
        \/ i = 1 /\ n[i] = a
        \/ \E j \in 1 .. Len(s) : j = i - 1 /\ i # 1 /\ n[i] = s[j]
  BY <1>1, PushAll
<1> HIDE DEF n
<1>4. /\ \A i \in 1 .. Len(s) : At(s[i]) \in Nat
      /\ DOMAIN s = 1 .. Len(s) /\ DOMAIN n = 1 .. Len(n)
  BY <1>1, <1>2, AlertIs
<1>5. ASSUME NEW i \in 1 .. Len(n)
      PROVE  At(n[i]) <= t /\ (At(n[i]) = t => n[i].kind \in kinds \cup {a.kind})
  BY <1>1, <1>3
<1>6. ASSUME NEW i \in 1 .. Len(n), NEW j \in 1 .. Len(n), i < j
      PROVE  n[i] # n[j] /\ At(n[i]) >= At(n[j])
  <2>1. PICK q \in 1 .. Len(s) : q = j - 1 /\ n[j] = s[q]
    BY <1>3, <1>6
  <2>2. CASE i = 1 /\ n[i] = a
    <3>1. n[i] # n[j]
      BY <1>1, <2>1, <2>2
    <3> QED BY <1>1, <2>1, <2>2, <3>1
  <2>3. CASE \E p \in 1 .. Len(s) : p = i - 1 /\ i # 1 /\ n[i] = s[p]
    <3>1. PICK p \in 1 .. Len(s) : p = i - 1 /\ n[i] = s[p]
      BY <2>3
    <3>2. p < q
      BY <1>6, <2>1, <3>1
    <3> QED BY <1>1, <1>4, <2>1, <3>1, <3>2 DEF NewestFirst
  <2> QED BY <1>3, <2>2, <2>3
<1>7. NewestFirst(n)
  BY <1>4, <1>6 DEF NewestFirst
<1>8. Pushed(n, t, kinds \cup {a.kind})
  BY <1>2, <1>5, <1>7 DEF Pushed, SeenBy
<1> QED BY <1>8 DEF n

\* A newer alert was not seen.
LEMMA PushTold ==
  ASSUME NEW s \in Seq(Alert), NEW a \in Alert, AlertRingMax \in Nat,
         NEW seen \in Seq(Alert), \A j \in 1 .. Len(seen) : At(seen[j]) < At(a),
         Told(s, seen)
  PROVE  Told(Alarms!Push(s, a), seen)
<1> DEFINE n == Alarms!Push(s, a)
<1>1. \A i \in 1 .. Len(n) : n[i] = a \/ \E j \in 1 .. Len(s) : n[i] = s[j]
  BY PushAll
<1> HIDE DEF n
<1>2. a.id \notin Alarms!Ids(seen)
  <2> SUFFICES ASSUME NEW j \in 1 .. Len(seen), seen[j].id = a.id PROVE FALSE
    BY DEF Alarms!Ids
  <2>1. At(seen[j]) = At(a) /\ At(seen[j]) < At(a) /\ At(a) \in Nat
    BY AlertIs DEF At, Alarms!Time
  <2> QED BY <2>1
<1>3. ASSUME NEW i \in 1 .. Len(n), n[i].id \in Alarms!Ids(seen)
      PROVE  Among(n[i], seen) \/ NoRoom(n[i], seen)
  <2>1. PICK j \in 1 .. Len(s) : n[i] = s[j]
    BY <1>1, <1>2, <1>3
  <2> QED BY <1>3, <2>1 DEF Told
<1>4. Told(n, seen)
  BY <1>3 DEF Told
<1> QED BY <1>4 DEF n

LEMMA PushFrom ==
  ASSUME NEW s \in Seq(Alert), NEW a \in Alert, AlertRingMax \in Nat, NEW r,
         From(r, s), MadeUp(a) <=> r = "mock"
  PROVE  From(r, Alarms!Push(s, a))
<1> DEFINE n == Alarms!Push(s, a)
<1>1. \A i \in 1 .. Len(n) : n[i] = a \/ \E j \in 1 .. Len(s) : n[i] = s[j]
  BY PushAll
<1> HIDE DEF n
<1>2. From(r, n)
  BY <1>1 DEF From
<1> QED BY <1>2 DEF n

LEMMA PushMatches ==
  ASSUME NEW s \in Seq(Alert), NEW a \in Alert, AlertRingMax \in Nat,
         NEW seen \in Seq(Alert), \A j \in 1 .. Len(seen) : At(seen[j]) < At(a),
         Matching(s, seen)
  PROVE  Matching(Alarms!Push(s, a), seen)
<1> DEFINE n == Alarms!Push(s, a)
<1>1. PICK k \in Nat : Matches(s, seen, k)
  BY DEF Matching
<1>2. /\ Len(n) \in Nat /\ Len(n) <= AlertRingMax /\ Len(n) <= Len(s) + 1
      /\ Len(n) >= 1 => n[1] = a
      /\ \A i \in 2 .. Len(n) : i - 1 \in 1 .. Len(s) /\ n[i] = s[i - 1]
  BY PushIs
<1> HIDE DEF n
<1> DEFINE m == IF k + 1 <= Len(n) THEN k + 1 ELSE Len(n)
<1>3. Len(s) \in Nat /\ Len(seen) \in Nat /\ k <= Len(s) /\ Len(s) - k <= Len(seen)
  BY <1>1 DEF Matches
<1>4. m \in 0 .. Len(n) /\ Len(n) - m <= Len(seen) /\ m \in Nat /\ m <= k + 1
  BY <1>2, <1>3
<1>5. ASSUME NEW i \in 1 .. m, NEW j \in 1 .. Len(seen) PROVE At(n[i]) > At(seen[j])
  <2>1. CASE i = 1
    <3>1. Len(n) >= 1
      BY <1>2, <1>4
    <3>2. n[i] = a /\ At(seen[j]) < At(a) /\ At(a) \in Nat /\ At(seen[j]) \in Nat
      BY <1>2, <2>1, <3>1, AlertIs
    <3> QED BY <3>2
  <2>2. CASE i # 1
    <3>1. i \in 2 .. Len(n) /\ i - 1 \in 1 .. k
      BY <1>2, <1>4, <2>2
    <3>2. n[i] = s[i - 1]
      BY <1>2, <3>1
    <3> QED BY <1>1, <3>1, <3>2 DEF Matches
  <2> QED BY <2>1, <2>2
<1>6. ASSUME NEW i \in 1 .. Len(n) - m PROVE n[m + i] = seen[i]
  <2>1. m = k + 1 /\ i \in 1 .. Len(s) - k /\ m + i \in 2 .. Len(n) /\ (m + i) - 1 = k + i
    BY <1>2, <1>3, <1>4
  <2> HIDE DEF m
  <2>2. n[m + i] = s[k + i]
    BY <1>2, <2>1
  <2> QED BY <1>1, <2>1, <2>2 DEF Matches
<1>7. Matches(n, seen, m)
  <2> HIDE DEF m
  <2> QED BY <1>4, <1>5, <1>6 DEF Matches
<1>8. Matching(n, seen)
  BY <1>4, <1>7 DEF Matching
<1> QED BY <1>8 DEF n

LEMMA AlertsAre ==
  ASSUME AlertsInv
  PROVE  /\ tick \in Nat /\ origin \in Alarms!Sources
         /\ \A r \in Alarms!Sources :
              /\ Len(rings[r]) <= AlertRingMax /\ SeenBy(rings[r], tick) /\ From(r, rings[r])
              /\ rings[r] \in Seq(Alert) /\ Len(rings[r]) \in Nat
         /\ \A h \in Hooks :
              /\ SeenBy(all[h], tick) /\ all[h] \in Seq(Alert)
              /\ \A r \in Alarms!Sources :
                   /\ Told(rings[r], all[h])
                   /\ sources[h] \subseteq {r} => Matching(rings[r], all[h])
<1>1. \A s : SeenBy(s, tick) => s \in Seq(Alert) /\ Len(s) \in Nat
  <2> SUFFICES ASSUME NEW s, SeenBy(s, tick) PROVE s \in Seq(Alert) /\ Len(s) \in Nat
    OBVIOUS
  <2>1. s \in Seq(Alert)
    BY DEF SeenBy
  <2> QED BY <2>1
<1> QED BY <1>1 DEF AlertsInv

\* A ring, of alerts as new as t, beside what the hooks of a source show
Ring(r, s, t) == Len(s) <= AlertRingMax /\ SeenBy(s, t) /\ From(r, s)
Shown(r, s) ==
  \A h \in Hooks : Told(s, all[h]) /\ (sources[h] \subseteq {r} => Matching(s, all[h]))

LEMMA OlderAre ==
  ASSUME AlertsInv, NEW s, SeenBy(s, tick)
  PROVE  SeenBy(s, tick + 1) /\ \A j \in 1 .. Len(s) : At(s[j]) \in Nat /\ At(s[j]) < tick + 1
<1>1. tick \in Nat /\ s \in Seq(Alert) /\ \A j \in 1 .. Len(s) : At(s[j]) <= tick
  BY AlertsAre DEF SeenBy
<1>2. \A j \in 1 .. Len(s) : At(s[j]) \in Nat
  BY <1>1, AlertIs
<1>3. \A j \in 1 .. Len(s) : At(s[j]) < tick + 1 /\ At(s[j]) <= tick + 1
  BY <1>1, <1>2
<1> QED BY <1>2, <1>3 DEF SeenBy

\* Alerts newer than all that were seen come in front of one ring.
LEMMA RingKeeps ==
  ASSUME AlertsInv, NEW s, Ring(origin, s, tick + 1), Shown(origin, s), Alarms!Alarm(s)
  PROVE  AlertsInv'
<1>1. /\ rings' = [rings EXCEPT ![origin] = s] /\ tick' = tick + 1 /\ origin' = origin
      /\ all' = all /\ sources' = sources
  BY DEF Alarms!Alarm, Alarms!listVars
<1>2. /\ tick \in Nat /\ origin \in Alarms!Sources
      /\ rings = [r \in Alarms!Sources |-> rings[r]]
      /\ all = [h \in Hooks |-> all[h]] /\ sources = [h \in Hooks |-> sources[h]]
  BY DEF AlertsInv
<1>3. /\ rings' = [r \in Alarms!Sources |-> rings'[r]]
      /\ \A r \in Alarms!Sources : rings'[r] = IF r = origin THEN s ELSE rings[r]
  BY <1>1, <1>2
<1>4. ASSUME NEW r \in Alarms!Sources PROVE Ring(r, rings'[r], tick + 1)
  <2>1. Ring(r, rings[r], tick + 1)
    BY AlertsAre, OlderAre DEF Ring
  <2> QED BY <1>3, <2>1
<1>5. \A h \in Hooks : SeenBy(all[h], tick + 1)
  BY AlertsAre, OlderAre
<1>6. ASSUME NEW h \in Hooks, NEW r \in Alarms!Sources
      PROVE  /\ Told(rings'[r], all[h])
             /\ sources[h] \subseteq {r} => Matching(rings'[r], all[h])
  BY <1>3, AlertsAre DEF Shown
<1>7. tick + 1 \in Nat
  BY <1>2
<1> QED BY <1>1, <1>2, <1>3, <1>4, <1>5, <1>6, <1>7 DEF AlertsInv, Ring

\* An alert newer than all that were seen is pushed.
LEMMA PushShown ==
  ASSUME AlertsInv, AlertRingMax \in Nat, NEW r, NEW s \in Seq(Alert), NEW a \in Alert,
         At(a) = tick + 1, Shown(r, s)
  PROVE  Shown(r, Alarms!Push(s, a))
<1> SUFFICES ASSUME NEW h \in Hooks
    PROVE  /\ Told(Alarms!Push(s, a), all[h])
           /\ sources[h] \subseteq {r} => Matching(Alarms!Push(s, a), all[h])
  BY DEF Shown
<1>1. all[h] \in Seq(Alert) /\ \A j \in 1 .. Len(all[h]) : At(all[h][j]) < At(a)
  BY AlertsAre, OlderAre
<1>2. Told(s, all[h]) /\ (sources[h] \subseteq {r} => Matching(s, all[h]))
  BY DEF Shown
<1> QED BY <1>1, <1>2, PushTold, PushMatches

\* Before a frame is looked at, and before an alert is made up
LEMMA RingsAre ==
  ASSUME AlertsInv, NEW r \in Alarms!Sources
  PROVE  /\ Pushed(rings[r], tick + 1, {}) /\ From(r, rings[r]) /\ Shown(r, rings[r])
         /\ rings[r] \in Seq(Alert)
<1>1. /\ Len(rings[r]) <= AlertRingMax /\ SeenBy(rings[r], tick + 1) /\ tick \in Nat
      /\ \A j \in 1 .. Len(rings[r]) : At(rings[r][j]) \in Nat /\ At(rings[r][j]) < tick + 1
  BY AlertsAre, OlderAre
<1>2. \A j \in 1 .. Len(rings[r]) : At(rings[r][j]) # tick + 1
  BY <1>1
<1>3. Pushed(rings[r], tick + 1, {})
  BY <1>1, <1>2 DEF Pushed
<1> QED BY <1>3, AlertsAre DEF Shown

LEMMA SimulateKeeps ==
  ASSUME AlertsInv, AlertRingMax \in Nat, NEW kind \in Alarms!SimKinds, Alarms!Simulate(kind)
  PROVE  AlertsInv'
<1> DEFINE a == [id |-> <<tick + 1, Alarms!Module(kind), AlertRingMax + 1>>, kind |-> kind]
           n == Alarms!Push(rings["mock"], a)
<1>1. origin = "mock" /\ Alarms!Alarm(n) /\ "mock" \in Alarms!Sources /\ tick \in Nat
  BY AlertsAre DEF Alarms!Simulate, Alarms!Sources
<1>2. a \in Alert /\ At(a) = tick + 1 /\ MadeUp(a)
  <2>1. Alarms!Module(kind) \in {"FEC", "CRC", "BURST", "LINK"}
    BY DEF Alarms!Module
  <2>2. a.id \in Nat \X {"FEC", "CRC", "BURST", "LINK"} \X Nat
    BY <1>1, <2>1
  <2> QED BY <2>2 DEF Alert, At, Alarms!Time, MadeUp
<1> HIDE DEF a
<1>3. Pushed(n, tick + 1, {} \cup {a.kind})
  <2>1. tick + 1 \in Nat /\ a.kind \notin {}
    BY <1>1
  <2> QED BY <1>1, <1>2, <2>1, RingsAre, PushKeeps
<1>4. From("mock", n) /\ Shown("mock", n)
  BY <1>1, <1>2, RingsAre, PushFrom, PushShown
<1> HIDE DEF n
<1>5. Ring(origin, n, tick + 1) /\ Shown(origin, n)
  BY <1>1, <1>3, <1>4 DEF Ring, Pushed
<1> QED BY <1>1, <1>5, RingKeeps

\* A threshold is looked at.
Look(s, t, kind, crossed) == IF kind \in crossed THEN Alarms!PushAlert(s, t, kind) ELSE s
Looked(s, t, kinds) == Pushed(s, t, kinds) /\ From("gateway", s) /\ Shown("gateway", s)

LEMMA LookKeeps ==
  ASSUME AlertsInv, AlertRingMax \in Nat, NEW crossed, NEW s, NEW kinds,
         NEW kind \in Alarms!Kinds, kind \notin kinds, Looked(s, tick + 1, kinds)
  PROVE  Looked(Look(s, tick + 1, kind, crossed), tick + 1, kinds \cup {kind})
<1> DEFINE t == tick + 1
           a == [id |-> <<t, Alarms!Module(kind), Len(s)>>, kind |-> kind]
<1>1. t \in Nat
  BY AlertsAre
<1>2. /\ s \in Seq(Alert) /\ Len(s) \in Nat /\ Len(s) <= AlertRingMax
      /\ Pushed(s, t, kinds) /\ From("gateway", s) /\ Shown("gateway", s)
  <2>1. s \in Seq(Alert) /\ Pushed(s, t, kinds) /\ Len(s) <= AlertRingMax
    BY DEF Looked, Pushed, SeenBy
  <2>2. Len(s) \in Nat
    BY <2>1
  <2> QED BY <2>1, <2>2 DEF Looked
<1>3. a \in Alert /\ At(a) = t /\ a.kind = kind /\ ~MadeUp(a)
  <2>1. Alarms!Module(kind) \in {"FEC", "CRC", "BURST", "LINK"}
    BY DEF Alarms!Module
  <2>2. a.id \in Nat \X {"FEC", "CRC", "BURST", "LINK"} \X Nat /\ a.id[3] = Len(s)
    BY <1>1, <1>2, <2>1
  <2>3. Len(s) # AlertRingMax + 1
    BY <1>2
  <2> QED BY <2>2, <2>3 DEF Alert, At, Alarms!Time, MadeUp
<1>4. CASE kind \in crossed
  <2>1. Look(s, t, kind, crossed) = Alarms!Push(s, a)
    BY <1>4 DEF Look, Alarms!PushAlert
  <2> HIDE DEF a
  <2>2. Pushed(Alarms!Push(s, a), t, kinds \cup {a.kind})
    <3> HIDE DEF t
    <3> QED BY <1>1, <1>2, <1>3, PushKeeps
  <2>3. From("gateway", Alarms!Push(s, a))
    BY <1>2, <1>3, PushFrom
  <2>4. Shown("gateway", Alarms!Push(s, a))
    BY <1>2, <1>3, PushShown
  <2> QED BY <1>3, <2>1, <2>2, <2>3, <2>4 DEF Looked
<1>5. CASE kind \notin crossed
  <2>1. Look(s, t, kind, crossed) = s
    BY <1>5 DEF Look
  <2>2. Pushed(s, t, kinds \cup {kind})
    BY <1>2 DEF Pushed
  <2> QED BY <1>2, <2>1, <2>2 DEF Looked
<1> QED BY <1>4, <1>5

LEMMA DetectKeeps ==
  ASSUME AlertsInv, AlertRingMax \in Nat, NEW crossed, Alarms!Detect(crossed)
  PROVE  AlertsInv'
<1> DEFINE t == tick + 1
           r1 == Look(rings["gateway"], t, "failed", crossed)
           r2 == Look(r1, t, "crc", crossed)
           r3 == Look(r2, t, "climbed", crossed)
           r4 == Look(r3, t, "exceeded", crossed)
           k1 == {} \cup {"failed"}
           k2 == k1 \cup {"crc"}
           k3 == k2 \cup {"climbed"}
<1>1. origin = "gateway" /\ Alarms!Alarm(r4) /\ "gateway" \in Alarms!Sources
  BY DEF Alarms!Detect, Alarms!Sources, Look
<1>2. Looked(rings["gateway"], t, {})
  BY <1>1, RingsAre DEF Looked
<1>3. /\ "failed" \in Alarms!Kinds /\ "crc" \in Alarms!Kinds /\ "climbed" \in Alarms!Kinds
      /\ "exceeded" \in Alarms!Kinds
      /\ "failed" \notin {} /\ "crc" \notin k1 /\ "climbed" \notin k2 /\ "exceeded" \notin k3
  BY DEF Alarms!Kinds
<1>4. Looked(r1, t, k1)
  BY <1>2, <1>3, LookKeeps
<1> HIDE DEF r1, k1
<1>5. Looked(r2, t, k2)
  BY <1>3, <1>4, LookKeeps
<1> HIDE DEF r2, k2
<1>6. Looked(r3, t, k3)
  BY <1>3, <1>5, LookKeeps
<1> HIDE DEF r3, k3
<1>7. Looked(r4, t, k3 \cup {"exceeded"})
  BY <1>3, <1>6, LookKeeps
<1> HIDE DEF r4
<1>8. Ring(origin, r4, tick + 1) /\ Shown(origin, r4)
  BY <1>1, <1>7 DEF Looked, Pushed, Ring
<1> QED BY <1>1, <1>8, RingKeeps

\* An instance's cardinality is that of the library.
LEMMA CardinalityIs == \A S : Alarms!Cardinality(S) = Cardinality(S)
BY DEF Alarms!Cardinality, Cardinality

\* How many of some positions are before one of them
Earlier(w, kept, i) == {j \in kept : Alarms!Before(w, j, i)}
Place(w, kept, i) == Cardinality(Earlier(w, kept, i)) + 1

LEMMA BeforeIs ==
  ASSUME NEW w \in Seq(Alert), NEW kept \in SUBSET (1 .. Len(w))
  PROVE  /\ \A i \in kept : ~Alarms!Before(w, i, i)
         /\ \A i, j \in kept : i # j => Alarms!Before(w, i, j) \/ Alarms!Before(w, j, i)
         /\ \A i, j, k \in kept :
              Alarms!Before(w, i, j) /\ Alarms!Before(w, j, k) => Alarms!Before(w, i, k)
         /\ \A i, j \in kept : Alarms!Before(w, i, j) => At(w[i]) >= At(w[j])
<1>1. \A i \in kept : At(w[i]) \in Nat /\ i \in Nat
  BY AlertIs
<1>2. \A i, j \in kept :
        Alarms!Before(w, i, j) <=>
          At(w[i]) > At(w[j]) \/ (At(w[i]) = At(w[j]) /\ i < j)
  BY DEF Alarms!Before, At
<1> QED BY <1>1, <1>2

\* Each position has a place of its own, in the order they are read in.
LEMMA PlacesAre ==
  ASSUME NEW w \in Seq(Alert), NEW kept \in SUBSET (1 .. Len(w))
  PROVE  /\ IsFiniteSet(kept) /\ Cardinality(kept) \in Nat
         /\ \A i \in kept : Place(w, kept, i) \in 1 .. Cardinality(kept)
         /\ \A i, j \in kept : Alarms!Before(w, i, j) => Place(w, kept, i) < Place(w, kept, j)
<1> DEFINE c == Cardinality(kept)
<1>1. IsFiniteSet(kept) /\ c \in Nat
  <2>1. IsFiniteSet(1 .. Len(w))
    <3>1. 1 \in Int /\ Len(w) \in Int
      OBVIOUS
    <3> QED BY <3>1, FS_Interval
  <2>2. IsFiniteSet(kept)
    BY <2>1, FS_Subset
  <2> QED BY <2>2, FS_CardinalityType
<1>2. \A S, T : IsFiniteSet(T) /\ S \subseteq T =>
        IsFiniteSet(S) /\ Cardinality(S) \in Nat /\ Cardinality(T) \in Nat
          /\ (S # T => Cardinality(S) < Cardinality(T))
  <2> SUFFICES ASSUME NEW S, NEW T, IsFiniteSet(T), S \subseteq T
      PROVE  IsFiniteSet(S) /\ Cardinality(S) \in Nat /\ Cardinality(T) \in Nat
               /\ (S # T => Cardinality(S) < Cardinality(T))
    OBVIOUS
  <2>1. IsFiniteSet(S) /\ Cardinality(S) <= Cardinality(T)
        /\ (Cardinality(T) = Cardinality(S) => T = S)
    BY FS_Subset
  <2>2. Cardinality(S) \in Nat /\ Cardinality(T) \in Nat
    BY <2>1, FS_CardinalityType
  <2> QED BY <2>1, <2>2
<1>3. \A i \in kept : /\ Earlier(w, kept, i) \subseteq kept /\ i \notin Earlier(w, kept, i)
                      /\ IsFiniteSet(Earlier(w, kept, i))
  <2>1. \A i \in kept : Earlier(w, kept, i) \subseteq kept /\ i \notin Earlier(w, kept, i)
    BY BeforeIs DEF Earlier
  <2> QED BY <1>1, <1>2, <2>1
<1>4. ASSUME NEW i \in kept PROVE Place(w, kept, i) \in 1 .. c
  <2>1. Cardinality(Earlier(w, kept, i)) \in Nat /\ Cardinality(Earlier(w, kept, i)) < c
    BY <1>1, <1>2, <1>3
  <2> HIDE DEF c
  <2> QED BY <1>1, <2>1 DEF Place
<1>5. ASSUME NEW i \in kept, NEW j \in kept, Alarms!Before(w, i, j)
      PROVE  Place(w, kept, i) < Place(w, kept, j)
  <2>1. Earlier(w, kept, i) \subseteq Earlier(w, kept, j)
    BY <1>5, BeforeIs DEF Earlier
  <2>2. i \in Earlier(w, kept, j) /\ i \notin Earlier(w, kept, i)
    BY <1>3, <1>5 DEF Earlier
  <2>3. /\ Cardinality(Earlier(w, kept, i)) < Cardinality(Earlier(w, kept, j))
        /\ Cardinality(Earlier(w, kept, i)) \in Nat /\ Cardinality(Earlier(w, kept, j)) \in Nat
    BY <1>2, <1>3, <2>1, <2>2
  <2> QED BY <2>3 DEF Place
<1> QED BY <1>1, <1>4, <1>5

\* Sorting reads every position once: p tells which is read when, and Place when
\* each is read.
LEMMA SortIs ==
  ASSUME NEW w \in Seq(Alert), NEW kept \in SUBSET (1 .. Len(w))
  PROVE  \E p \in [1 .. Cardinality(kept) -> kept] :
           /\ Alarms!SortedByTime(w, kept) = [q \in 1 .. Cardinality(kept) |-> w[p[q]]]
           /\ \A i \in kept : p[Place(w, kept, i)] = i
           /\ \A q, r \in 1 .. Cardinality(kept) : q < r => Alarms!Before(w, p[q], p[r])
<1> DEFINE c == Cardinality(kept)
           place == [i \in kept |-> Place(w, kept, i)]
           nth(q) == CHOOSE i \in kept : place[i] = q
           p == [q \in 1 .. c |-> nth(q)]
<1>1. /\ IsFiniteSet(kept) /\ c \in Nat /\ \A i \in kept : place[i] \in 1 .. c
      /\ \A i, j \in kept : Alarms!Before(w, i, j) => place[i] < place[j]
  BY PlacesAre
<1>2. \A i, j \in kept : i # j => place[i] # place[j]
  <2> SUFFICES ASSUME NEW i \in kept, NEW j \in kept, i # j PROVE place[i] # place[j]
    OBVIOUS
  <2>1. Alarms!Before(w, i, j) \/ Alarms!Before(w, j, i)
    BY BeforeIs
  <2>2. place[i] \in 1 .. c /\ place[j] \in 1 .. c /\ (place[i] < place[j] \/ place[j] < place[i])
    BY <1>1, <2>1
  <2> HIDE DEF place, c
  <2> QED BY <1>1, <2>2
<1>3. place \in Surjection(kept, 1 .. c)
  <2>1. place \in Injection(kept, 1 .. c)
    <3>1. place \in [kept -> 1 .. c]
      BY <1>1
    <3>2. \A i, j \in kept : place[i] = place[j] => i = j
      BY <1>2
    <3> HIDE DEF place, c
    <3> QED BY <3>1, <3>2 DEF Injection, IsInjective
  <2>2. IsFiniteSet(1 .. c) /\ Cardinality(1 .. c) = c
    <3>1. 1 \in Int /\ c \in Int
      BY <1>1
    <3>2. IsFiniteSet(1 .. c) /\ Cardinality(1 .. c) = IF 1 > c THEN 0 ELSE (c - 1) + 1
      BY <3>1, FS_Interval
    <3> QED BY <1>1, <3>2
  <2> HIDE DEF place
  <2> QED BY <2>1, <2>2, FS_Injection
<1>4. Alarms!SortedByTime(w, kept) = [q \in 1 .. c |-> w[p[q]]]
  <2>1. \A i \in kept : place[i] = Alarms!Cardinality({j \in kept : Alarms!Before(w, j, i)}) + 1
    BY CardinalityIs DEF Place, Earlier
  <2>2. place = [i \in kept |-> Alarms!Cardinality({j \in kept : Alarms!Before(w, j, i)}) + 1]
    BY <2>1
  <2>3. Alarms!Cardinality(kept) = c
    BY CardinalityIs
  <2> HIDE DEF place, c
  <2>4. Alarms!SortedByTime(w, kept) = [q \in 1 .. c |-> w[CHOOSE i \in kept : place[i] = q]]
    BY <2>2, <2>3 DEF Alarms!SortedByTime
  <2> QED BY <2>4
<1> HIDE DEF place, c
<1>5. ASSUME NEW q \in 1 .. c PROVE p[q] \in kept /\ place[p[q]] = q
  <2>1. \E i \in kept : place[i] = q
    BY <1>3 DEF Surjection
  <2>2. nth(q) \in kept /\ place[nth(q)] = q
    BY <2>1
  <2> QED BY <2>2
<1>6. ASSUME NEW i \in kept PROVE p[place[i]] = i
  <2>1. place[i] \in 1 .. c
    BY <1>1
  <2>2. p[place[i]] \in kept /\ place[p[place[i]]] = place[i]
    BY <1>5, <2>1
  <2> HIDE DEF p
  <2> QED BY <1>2, <2>2
<1>7. p \in [1 .. c -> kept]
  BY <1>5
<1> HIDE DEF p
<1>8. ASSUME NEW q \in 1 .. c, NEW r \in 1 .. c, q < r PROVE Alarms!Before(w, p[q], p[r])
  <2>1. p[q] \in kept /\ p[r] \in kept /\ place[p[q]] = q /\ place[p[r]] = r
    BY <1>5
  <2>2. p[q] # p[r]
    BY <1>8, <2>1
  <2>3. ~Alarms!Before(w, p[r], p[q])
    <3>1. Alarms!Before(w, p[r], p[q]) => r < q
      BY <1>1, <2>1
    <3> QED BY <1>1, <1>8, <3>1
  <2> QED BY <2>1, <2>2, <2>3, BeforeIs
<1>9. \A i \in kept : p[Place(w, kept, i)] = i
  BY <1>6 DEF place
<1> QED BY <1>4, <1>7, <1>8, <1>9 DEF c

\* What is listed of two lists in front of each other
LEMMA BothAre ==
  ASSUME NEW s \in Seq(Alert), NEW seen \in Seq(Alert)
  PROVE  LET w == s \o seen IN
         /\ w \in Seq(Alert) /\ Len(s) \in Nat /\ Len(seen) \in Nat
         /\ Len(w) = Len(s) + Len(seen)
         /\ \A i \in 1 .. Len(s) : w[i] = s[i]
         /\ \A i \in Len(s) + 1 .. Len(s) + Len(seen) :
              i - Len(s) \in 1 .. Len(seen) /\ w[i] = seen[i - Len(s)]
         /\ \A j \in 1 .. Len(seen) : w[Len(s) + j] = seen[j]
         /\ Alarms!Kept(s, seen) \in SUBSET (1 .. Len(w))
         /\ Len(s) + 1 .. Len(s) + Len(seen) \subseteq Alarms!Kept(s, seen)
         /\ \A i \in 1 .. Len(s) :
              s[i].id \notin Alarms!Ids(seen) <=> i \in Alarms!Kept(s, seen)
<1> DEFINE w == s \o seen
           n == Len(s)
           m == Len(seen)
<1>1. n \in Nat /\ m \in Nat
  OBVIOUS
<1>2. /\ w \in Seq(Alert) /\ Len(w) = n + m
      /\ \A i \in 1 .. n + m : w[i] = IF i <= n THEN s[i] ELSE seen[i - n]
  BY ConcatProperties
<1>3. Alarms!Kept(s, seen)
        = {i \in 1 .. n + m : i <= n => s[i].id \notin Alarms!Ids(seen)}
  BY DEF Alarms!Kept
<1> HIDE DEF w, n, m
<1>4. \A i \in 1 .. n : i \in 1 .. n + m /\ i <= n /\ w[i] = s[i]
  BY <1>1, <1>2
<1>5. \A i \in n + 1 .. n + m : i \in 1 .. n + m /\ ~ (i <= n) /\ i - n \in 1 .. m
  BY <1>1
<1>6. \A j \in 1 .. m : n + j \in n + 1 .. n + m /\ (n + j) - n = j
  BY <1>1
<1>7. \A i \in n + 1 .. n + m : w[i] = seen[i - n]
  BY <1>2, <1>5
<1>8. \A j \in 1 .. m : w[n + j] = seen[j]
  BY <1>6, <1>7
<1>9. Alarms!Kept(s, seen) \in SUBSET (1 .. Len(w))
  BY <1>2, <1>3
<1>10. n + 1 .. n + m \subseteq Alarms!Kept(s, seen)
  BY <1>3, <1>5
<1>11. \A i \in 1 .. n : s[i].id \notin Alarms!Ids(seen) <=> i \in Alarms!Kept(s, seen)
  BY <1>3, <1>4
<1> QED BY <1>1, <1>2, <1>4, <1>5, <1>7, <1>8, <1>9, <1>10, <1>11 DEF w, n, m

\* No alert is read twice.
LEMMA KeptOnce ==
  ASSUME NEW s \in Seq(Alert), NEW seen \in Seq(Alert), NewestFirst(s), NewestFirst(seen),
         NEW i \in Alarms!Kept(s, seen), NEW j \in Alarms!Kept(s, seen), i < j
  PROVE  (s \o seen)[i] # (s \o seen)[j]
<1> DEFINE w == s \o seen
           n == Len(s)
           m == Len(seen)
<1>1. /\ n \in Nat /\ m \in Nat /\ Len(w) = n + m
      /\ i \in 1 .. n + m /\ j \in 1 .. n + m
      /\ \A q \in 1 .. n : w[q] = s[q]
      /\ \A q \in n + 1 .. n + m : q - n \in 1 .. m /\ w[q] = seen[q - n]
      /\ i \in 1 .. n => s[i].id \notin Alarms!Ids(seen)
  BY BothAre
<1>2. DOMAIN s = 1 .. n /\ DOMAIN seen = 1 .. m
  OBVIOUS
<1> HIDE DEF w, n, m
<1>3. CASE j <= n
  <2>1. i \in 1 .. n /\ j \in 1 .. n
    BY <1>1, <1>3
  <2>2. s[i] # s[j]
    BY <1>2, <2>1 DEF NewestFirst
  <2> QED BY <1>1, <2>1, <2>2 DEF w
<1>4. CASE i <= n /\ j > n
  <2>1. i \in 1 .. n /\ j \in n + 1 .. n + m
    BY <1>1, <1>4
  <2>2. s[i] # seen[j - n]
    BY <1>1, <1>2, <2>1 DEF Alarms!Ids
  <2> QED BY <1>1, <2>1, <2>2 DEF w
<1>5. CASE i > n
  <2>1. i \in n + 1 .. n + m /\ j \in n + 1 .. n + m /\ i - n < j - n
    BY <1>1, <1>5
  <2>2. seen[i - n] # seen[j - n]
    BY <1>1, <1>2, <2>1 DEF NewestFirst
  <2> QED BY <1>1, <2>1, <2>2 DEF w
<1>6. i \in Int /\ j \in Int /\ n \in Int
  BY <1>1
<1>7. j <= n \/ (i <= n /\ j > n) \/ i > n
  BY <1>6
<1> QED BY <1>3, <1>4, <1>5, <1>7

\* The list that a snapshot leaves: new and old alerts, newest first and each once;
\* what is not listed finds no room.
LEMMA MergeIs ==
  ASSUME NEW s \in Seq(Alert), NEW seen \in Seq(Alert), NewestFirst(s), NewestFirst(seen),
         MaxCumulative \in Nat
  PROVE  LET l == Alarms!Merged(s, seen) IN
         /\ l \in Seq(Alert) /\ Len(l) \in Nat /\ NewestFirst(l)
         /\ \A q \in 1 .. Len(l) : Among(l[q], s) \/ Among(l[q], seen)
         /\ \A i \in 1 .. Len(s) :
              s[i].id \notin Alarms!Ids(seen) => Among(s[i], l) \/ NoRoom(s[i], l)
         /\ \A a \in Alert :
              Among(a, seen) \/ NoRoom(a, seen) => Among(a, l) \/ NoRoom(a, l)
<1> DEFINE w == s \o seen
           n == Len(s)
           m == Len(seen)
           kept == Alarms!Kept(s, seen)
           c == Cardinality(kept)
           sorted == Alarms!SortedByTime(w, kept)
           l == FirstPart(sorted, MaxCumulative)
<1>1. /\ w \in Seq(Alert) /\ n \in Nat /\ m \in Nat /\ Len(w) = n + m
      /\ \A i \in 1 .. n : w[i] = s[i]
      /\ \A i \in n + 1 .. n + m : i - n \in 1 .. m /\ w[i] = seen[i - n]
      /\ \A j \in 1 .. m : w[n + j] = seen[j]
      /\ kept \in SUBSET (1 .. Len(w)) /\ n + 1 .. n + m \subseteq kept
      /\ \A i \in 1 .. n : s[i].id \notin Alarms!Ids(seen) <=> i \in kept
  BY BothAre
<1>2. \A i, j \in kept : i < j => w[i] # w[j]
  BY KeptOnce
<1>3. Alarms!Merged(s, seen) = l
  BY DEF Alarms!Merged, Alarms!FirstOf, FirstPart
<1> HIDE DEF w, n, m, kept
<1>4. IsFiniteSet(kept) /\ c \in Nat /\ \A i \in kept : Place(w, kept, i) \in 1 .. c
  BY <1>1, PlacesAre
<1>5. PICK p \in [1 .. c -> kept] :
        /\ sorted = [q \in 1 .. c |-> w[p[q]]]
        /\ \A i \in kept : p[Place(w, kept, i)] = i
        /\ \A q, r \in 1 .. c : q < r => Alarms!Before(w, p[q], p[r])
  BY <1>1, SortIs
<1> HIDE DEF c, sorted
<1>6. /\ \A i \in kept : i \in 1 .. Len(w) /\ i \in Nat /\ w[i] \in Alert /\ At(w[i]) \in Nat
      /\ \A q \in 1 .. c : p[q] \in kept
  <2>1. \A i \in kept : i \in 1 .. Len(w) /\ i \in Nat
    BY <1>1
  <2>2. \A i \in kept : w[i] \in Alert
    BY <1>1, <2>1, ElementOfSeq
  <2>3. \A i \in kept : At(w[i]) \in Nat
    BY <2>2, AlertIs
  <2> QED BY <2>1, <2>2, <2>3
<1>7. sorted \in Seq(Alert) /\ Len(sorted) = c
  BY <1>4, <1>5, <1>6
<1>8. /\ l \in Seq(Alert) /\ Len(l) \in Nat /\ Len(l) <= c
      /\ Len(l) = IF c < MaxCumulative THEN c ELSE MaxCumulative
      /\ \A q \in 1 .. Len(l) : q \in 1 .. c /\ l[q] = w[p[q]]
  <2>1. /\ l \in Seq(Alert) /\ Len(l) \in Nat /\ Len(l) <= c
        /\ Len(l) = IF c < MaxCumulative THEN c ELSE MaxCumulative
        /\ \A q \in 1 .. Len(l) : q \in 1 .. c /\ l[q] = sorted[q]
    BY <1>7, FirstPartIs
  <2> HIDE DEF l
  <2> QED BY <1>5, <2>1
<1> HIDE DEF l
<1>9. \A q, r \in 1 .. Len(l) : q < r => Alarms!Before(w, p[q], p[r]) /\ At(l[q]) >= At(l[r])
  <2>1. \A i, j \in kept : Alarms!Before(w, i, j) => At(w[i]) >= At(w[j])
    BY <1>1, BeforeIs
  <2> SUFFICES ASSUME NEW q \in 1 .. Len(l), NEW r \in 1 .. Len(l), q < r
               PROVE  Alarms!Before(w, p[q], p[r]) /\ At(l[q]) >= At(l[r])
    OBVIOUS
  <2>2. q \in 1 .. c /\ r \in 1 .. c /\ l[q] = w[p[q]] /\ l[r] = w[p[r]]
    BY <1>8
  <2>3. p[q] \in kept /\ p[r] \in kept /\ Alarms!Before(w, p[q], p[r])
    BY <1>5, <1>6, <2>2
  <2> QED BY <2>1, <2>2, <2>3
<1>10. NewestFirst(l)
  <2>1. ASSUME NEW q \in 1 .. Len(l), NEW r \in 1 .. Len(l), q < r PROVE l[q] # l[r]
    <3> DEFINE i == p[q]
               j == p[r]
    <3>1. l[q] = w[i] /\ l[r] = w[j] /\ i \in kept /\ j \in kept
      BY <1>6, <1>8
    <3>2. Alarms!Before(w, i, j)
      BY <1>9, <2>1
    <3> HIDE DEF i, j
    <3>3. i < j \/ j < i
      BY <1>1, <1>6, <3>1, <3>2, BeforeIs
    <3>4. w[i] # w[j]
      BY <1>2, <3>1, <3>3
    <3> QED BY <3>1, <3>4
  <2>2. DOMAIN l = 1 .. Len(l)
    BY <1>8
  <2> QED BY <1>9, <2>1, <2>2 DEF NewestFirst
<1>11. ASSUME NEW q \in 1 .. Len(l) PROVE Among(l[q], s) \/ Among(l[q], seen)
  <2> DEFINE i == p[q]
  <2>1. i \in kept /\ i \in 1 .. n + m /\ l[q] = w[i]
    BY <1>1, <1>6, <1>8
  <2>2. i \in 1 .. n \/ i \in n + 1 .. n + m
    BY <1>1, <2>1
  <2> HIDE DEF i
  <2> QED BY <1>1, <2>1, <2>2 DEF Among, n, m
<1>12. ASSUME NEW i \in kept PROVE Among(w[i], l) \/ NoRoom(w[i], l)
  <2> DEFINE q == Place(w, kept, i)
  <2>1. q \in 1 .. c /\ p[q] = i
    BY <1>4, <1>5
  <2> HIDE DEF q
  <2>2. CASE q \in 1 .. Len(l)
    BY <1>8, <2>1, <2>2 DEF Among
  <2>3. CASE q \notin 1 .. Len(l)
    <3>1. Len(l) = MaxCumulative /\ \A r \in 1 .. Len(l) : r < q
      BY <1>4, <1>8, <2>1, <2>3
    <3>2. ASSUME NEW r \in 1 .. Len(l) PROVE At(l[r]) >= At(w[i])
      <4>1. r \in 1 .. c /\ p[r] \in kept /\ Alarms!Before(w, p[r], i)
        BY <1>5, <1>6, <1>8, <2>1, <3>1
      <4>2. At(w[p[r]]) >= At(w[i])
        BY <1>1, <4>1, BeforeIs
      <4>3. l[r] = w[p[r]]
        BY <1>8
      <4> QED BY <4>2, <4>3
    <3> QED BY <3>1, <3>2 DEF NoRoom
  <2> QED BY <2>2, <2>3
<1>13. ASSUME NEW i \in 1 .. n, s[i].id \notin Alarms!Ids(seen)
       PROVE  Among(s[i], l) \/ NoRoom(s[i], l)
  BY <1>1, <1>12, <1>13
<1>14. ASSUME NEW a \in Alert, Among(a, seen) PROVE Among(a, l) \/ NoRoom(a, l)
  <2>1. PICK j \in 1 .. m : seen[j] = a
    BY <1>14 DEF Among, m
  <2>2. n + j \in kept /\ w[n + j] = a
    <3>1. n + j \in n + 1 .. n + m
      BY <1>1
    <3> QED BY <1>1, <2>1, <3>1
  <2> QED BY <1>12, <2>2
<1>15. ASSUME NEW a \in Alert, NoRoom(a, seen) PROVE NoRoom(a, l)
  <2> DEFINE old == n + 1 .. n + m
  <2>1. m = MaxCumulative /\ \A i \in old : i \in kept /\ At(w[i]) >= At(a) /\ At(w[i]) \in Nat
    BY <1>1, <1>6, <1>15 DEF NoRoom, m
  <2>2. IsFiniteSet(old) /\ Cardinality(old) = m
    <3>1. n + 1 \in Int /\ n + m \in Int
      BY <1>1
    <3>2. IsFiniteSet(old)
          /\ Cardinality(old) = IF n + 1 > n + m THEN 0 ELSE ((n + m) - (n + 1)) + 1
      BY <3>1, FS_Interval
    <3> QED BY <1>1, <3>2
  <2>3. old \subseteq kept
    BY <1>1
  <2> HIDE DEF old
  <2>4. m <= c
    BY <1>4, <2>2, <2>3, FS_Subset DEF c
  <2>5. Len(l) = MaxCumulative
    BY <1>1, <1>4, <1>8, <2>1, <2>4
  <2>6. ASSUME NEW r \in 1 .. Len(l), ~(At(l[r]) >= At(a)) PROVE FALSE
    <3>1. r \in 1 .. c /\ l[r] = w[p[r]] /\ p[r] \in kept /\ At(l[r]) \in Nat /\ At(a) \in Nat
      BY <1>6, <1>8, AlertIs
    <3>2. ASSUME NEW i \in old PROVE Place(w, kept, i) \in 1 .. r - 1
      <4> DEFINE q == Place(w, kept, i)
      <4>1. i \in kept /\ q \in 1 .. c /\ p[q] = i /\ At(w[i]) >= At(a) /\ At(w[i]) \in Nat
        BY <1>4, <1>5, <2>1
      <4> HIDE DEF q
      <4>2. q # r
        BY <2>6, <3>1, <4>1
      <4>3. ~(r < q)
        <5>1. r < q => Alarms!Before(w, p[r], i)
          BY <1>5, <3>1, <4>1
        <5>2. r < q => At(w[p[r]]) >= At(w[i])
          BY <1>1, <3>1, <4>1, <5>1, BeforeIs
        <5> QED BY <2>6, <3>1, <4>1, <5>2
      <4>4. q \in 1 .. r - 1
        BY <1>4, <3>1, <4>1, <4>2, <4>3
      <4> QED BY <4>4 DEF q
    <3> DEFINE f == [i \in old |-> Place(w, kept, i)]
    <3>3. f \in [old -> 1 .. r - 1]
      BY <3>2
    <3>4. IsFiniteSet(1 .. r - 1) /\ Cardinality(1 .. r - 1) < Cardinality(old)
      <4>1. 1 \in Int /\ r - 1 \in Int
        BY <3>1
      <4>2. /\ IsFiniteSet(1 .. r - 1)
            /\ Cardinality(1 .. r - 1) = IF 1 > r - 1 THEN 0 ELSE ((r - 1) - 1) + 1
        BY <4>1, FS_Interval
      <4>3. r <= m /\ r >= 1 /\ r \in Nat
        BY <1>1, <2>1, <2>5
      <4> QED BY <1>1, <2>2, <4>2, <4>3
    <3> HIDE DEF f
    <3>5. PICK x \in old, y \in old : x # y /\ f[x] = f[y]
      BY <2>2, <3>3, <3>4, FS_PigeonHole
    <3>6. Place(w, kept, x) = Place(w, kept, y)
      BY <3>5 DEF f
    <3> QED BY <1>5, <2>1, <3>5, <3>6
  <2> QED BY <2>5, <2>6 DEF NoRoom
<1> QED BY <1>3, <1>8, <1>10, <1>11, <1>13, <1>14, <1>15 DEF n

\* What a snapshot brings is newer than what was seen: nothing has to be sorted.
LEMMA KeptIs ==
  ASSUME NEW s \in Seq(Alert), NEW seen \in Seq(Alert), NEW k \in Nat, Matches(s, seen, k)
  PROVE  Alarms!Kept(s, seen) = (1 .. k) \cup (Len(s) + 1 .. Len(s) + Len(seen))
<1>1. /\ Len(s) \in Nat /\ Len(seen) \in Nat /\ k <= Len(s) /\ Len(s) - k <= Len(seen)
      /\ \A i \in 1 .. k, j \in 1 .. Len(seen) : At(s[i]) > At(seen[j])
      /\ \A i \in 1 .. Len(s) - k : s[k + i] = seen[i]
  BY DEF Matches
<1>2. Alarms!Ids(seen) = {seen[j].id : j \in 1 .. Len(seen)}
  BY DEF Alarms!Ids
<1>3. ASSUME NEW i \in 1 .. k PROVE s[i].id \notin Alarms!Ids(seen)
  <2> SUFFICES ASSUME NEW j \in 1 .. Len(seen), s[i].id = seen[j].id PROVE FALSE
    BY <1>2
  <2>1. At(s[i]) = At(seen[j])
    BY DEF At, Alarms!Time
  <2>2. At(s[i]) > At(seen[j])
    BY <1>1
  <2>3. At(seen[j]) \in Nat
    BY AlertIs
  <2> QED BY <2>1, <2>2, <2>3
<1>4. ASSUME NEW i \in k + 1 .. Len(s) PROVE s[i].id \in Alarms!Ids(seen)
  <2>1. i - k \in 1 .. Len(s) - k /\ k + (i - k) = i /\ i - k \in 1 .. Len(seen)
    BY <1>1
  <2>2. s[i] = seen[i - k]
    BY <1>1, <2>1
  <2> QED BY <1>2, <2>1, <2>2
<1>5. ASSUME NEW i \in 1 .. Len(s) + Len(seen)
      PROVE  (i <= Len(s) => s[i].id \notin Alarms!Ids(seen))
               <=> i \in (1 .. k) \cup (Len(s) + 1 .. Len(s) + Len(seen))
  <2>1. CASE i <= k
    BY <1>1, <1>3, <2>1
  <2>2. CASE k < i /\ i <= Len(s)
    <3>1. i \in k + 1 .. Len(s) /\ i \notin 1 .. k /\ i \notin Len(s) + 1 .. Len(s) + Len(seen)
      BY <1>1, <2>2
    <3> QED BY <1>4, <2>2, <3>1
  <2>3. CASE i > Len(s)
    <3>1. i \in Len(s) + 1 .. Len(s) + Len(seen) /\ ~ (i <= Len(s))
      BY <1>1, <2>3
    <3> QED BY <3>1
  <2> QED BY <1>1, <2>1, <2>2, <2>3
<1>6. (1 .. k) \cup (Len(s) + 1 .. Len(s) + Len(seen)) \subseteq 1 .. Len(s) + Len(seen)
  BY <1>1
<1> DEFINE both == (1 .. k) \cup (Len(s) + 1 .. Len(s) + Len(seen))
<1>7. Alarms!Kept(s, seen)
        = {i \in 1 .. Len(s) + Len(seen) : i <= Len(s) => s[i].id \notin Alarms!Ids(seen)}
  BY DEF Alarms!Kept
<1>8. \A i \in 1 .. Len(s) + Len(seen) :
        (i <= Len(s) => s[i].id \notin Alarms!Ids(seen)) <=> i \in both
  BY <1>5
<1>9. both \subseteq 1 .. Len(s) + Len(seen)
  BY <1>6
<1> HIDE DEF both
<1>10. Alarms!Kept(s, seen) = both
  BY <1>7, <1>8, <1>9
<1> QED BY <1>10 DEF both

LEMMA NewestFirstIs ==
  ASSUME NEW s \in Seq(Alert), NewestFirst(s)
  PROVE  /\ \A a \in 1 .. Len(s) : At(s[a]) \in Nat
         /\ \A a, b \in 1 .. Len(s) : a < b => At(s[a]) >= At(s[b])
<1>1. DOMAIN s = 1 .. Len(s) /\ \A a \in 1 .. Len(s) : At(s[a]) \in Nat
  BY AlertIs
<1>2. ASSUME NEW a \in 1 .. Len(s), NEW b \in 1 .. Len(s), a < b PROVE At(s[a]) >= At(s[b])
  BY <1>1, <1>2 DEF NewestFirst
<1> QED BY <1>1, <1>2

\* Alerts that are in their order keep it.
Parts(k, n, m) == (1 .. k) \cup (n + 1 .. n + m)
Falling(w, kept) ==
  \A i \in kept : At(w[i]) \in Nat /\ \A j \in kept : i < j => At(w[i]) >= At(w[j])

LEMMA PlaceIs ==
  ASSUME NEW w, NEW k \in Nat, NEW n \in Nat, NEW m \in Nat, k <= n,
         Falling(w, Parts(k, n, m)), NEW i \in Parts(k, n, m)
  PROVE  Place(w, Parts(k, n, m), i) = IF i <= k THEN i ELSE (i - n) + k
<1> DEFINE kept == (1 .. k) \cup (n + 1 .. n + m)
<1>0. Parts(k, n, m) = kept
  BY DEF Parts
<1>1. Earlier(w, kept, i) = {j \in kept : j < i}
  <2>1. ASSUME NEW j \in kept PROVE Alarms!Before(w, j, i) <=> j < i
    <3>1. At(w[i]) \in Nat /\ At(w[j]) \in Nat /\ i \in Nat /\ j \in Nat
      BY <1>0 DEF Falling
    <3>2. CASE j < i
      <4>1. At(w[j]) >= At(w[i])
        BY <1>0, <3>2 DEF Falling
      <4> QED BY <3>1, <3>2, <4>1 DEF Alarms!Before, At
    <3>3. CASE i < j
      <4>1. At(w[i]) >= At(w[j])
        BY <1>0, <3>3 DEF Falling
      <4> QED BY <3>1, <3>3, <4>1 DEF Alarms!Before, At
    <3>4. CASE i = j
      BY <3>1, <3>4 DEF Alarms!Before, At
    <3> QED BY <3>1, <3>2, <3>3, <3>4
  <2> QED BY <2>1 DEF Earlier
<1>2. /\ IsFiniteSet(1 .. i - 1) /\ Cardinality(1 .. i - 1) = IF 1 > i - 1 THEN 0 ELSE i - 1
      /\ IsFiniteSet(1 .. k) /\ Cardinality(1 .. k) = IF 1 > k THEN 0 ELSE k
      /\ IsFiniteSet(n + 1 .. i - 1)
      /\ Cardinality(n + 1 .. i - 1) = IF n + 1 > i - 1 THEN 0 ELSE (i - 1) - (n + 1) + 1
  <2>1. /\ 1 \in Int /\ k \in Int /\ i - 1 \in Int /\ n + 1 \in Int
    BY <1>0
  <2>2. (i - 1) - 1 + 1 = i - 1 /\ k - 1 + 1 = k
    BY <2>1
  <2> QED BY <2>1, <2>2, FS_Interval
<1>3. CASE i <= k
  <2>1. {j \in kept : j < i} = 1 .. i - 1
    BY <1>0, <1>3
  <2>2. Cardinality(1 .. i - 1) = i - 1
    BY <1>0, <1>2
  <2>3. (i - 1) + 1 = i
    BY <1>0
  <2> QED BY <1>0, <1>1, <1>3, <2>1, <2>2, <2>3 DEF Place
<1>4. CASE ~ (i <= k)
  <2> DEFINE a == 1 .. k
             b == n + 1 .. i - 1
  <2>1. {j \in kept : j < i} = a \cup b /\ a \cap b = {} /\ i > n
    BY <1>0, <1>4
  <2>2. IsFiniteSet(a) /\ IsFiniteSet(b) /\ Cardinality(a) = k /\ Cardinality(b) = (i - n) - 1
    <3>1. i \in Nat
      BY <1>0
    <3> QED BY <1>2, <2>1, <3>1
  <2> HIDE DEF a, b
  <2>3. Cardinality({}) = 0
    BY FS_EmptySet
  <2>4. Cardinality(a \cup b) = k + ((i - n) - 1) - 0
    <3>1. Cardinality(a \cup b) = Cardinality(a) + Cardinality(b) - Cardinality(a \cap b)
      BY <2>2, FS_Union
    <3> QED BY <2>1, <2>2, <2>3, <3>1
  <2>5. (k + ((i - n) - 1) - 0) + 1 = (i - n) + k
    <3>1. i \in Nat
      BY <1>0
    <3> QED BY <3>1
  <2> QED BY <1>0, <1>1, <1>4, <2>1, <2>4, <2>5 DEF Place
<1> QED BY <1>3, <1>4

\* The list that a snapshot leaves is what is new followed by what was seen.
LEMMA SortedIs ==
  ASSUME NEW s \in Seq(Alert), NEW seen \in Seq(Alert), NEW k \in Nat, Matches(s, seen, k),
         NewestFirst(s), NewestFirst(seen)
  PROVE  Alarms!SortedByTime(s \o seen, Alarms!Kept(s, seen)) = SubSeq(s, 1, k) \o seen
<1> DEFINE w == s \o seen
           n == Len(s)
           m == Len(seen)
           kept == (1 .. k) \cup (n + 1 .. n + m)
           f == SubSeq(s, 1, k)
           both == f \o seen
<1>1. n \in Nat /\ m \in Nat /\ k <= n
  BY DEF Matches
<1>2. w \in Seq(Alert) /\ \A i \in 1 .. n + m : w[i] = IF i <= n THEN s[i] ELSE seen[i - n]
  BY ConcatProperties
<1>3. f \in Seq(Alert) /\ Len(f) = k /\ \A i \in 1 .. k : f[i] = s[i]
  <2> HIDE DEF n, m, w
  <2> QED BY <1>1 DEF n
<1>4. /\ both \in Seq(Alert) /\ Len(both) = k + m
      /\ \A i \in 1 .. k + m : both[i] = IF i <= k THEN s[i] ELSE seen[i - k]
  <2> HIDE DEF f, w
  <2>1. /\ both \in Seq(Alert) /\ Len(both) = Len(f) + Len(seen)
        /\ \A i \in 1 .. Len(f) + Len(seen) : both[i] = IF i <= Len(f) THEN f[i] ELSE seen[i - Len(f)]
    BY <1>3, ConcatProperties
  <2> HIDE DEF both
  <2>2. ASSUME NEW i \in 1 .. k + m PROVE both[i] = IF i <= k THEN s[i] ELSE seen[i - k]
    <3>1. both[i] = IF i <= k THEN f[i] ELSE seen[i - k]
      BY <1>3, <2>1
    <3>2. i <= k => i \in 1 .. k
      BY <1>1
    <3> QED BY <1>3, <3>1, <3>2
  <2> QED BY <1>3, <2>1, <2>2
<1>5. Alarms!Kept(s, seen) = kept
  BY KeptIs
<1>6. /\ \A i \in 1 .. k : w[i] = s[i]
      /\ \A i \in n + 1 .. n + m : w[i] = seen[i - n] /\ i - n \in 1 .. m
  <2> HIDE DEF w, n, m
  <2> QED BY <1>1, <1>2
<1>7. ASSUME NEW i \in kept PROVE At(w[i]) \in Nat
  <2>1. i \in 1 .. n + m
    <3> HIDE DEF n, m
    <3> QED BY <1>1
  <2>2. w[i] \in Alert
    <3>1. Len(w) = n + m
      BY ConcatProperties
    <3> HIDE DEF w, n, m
    <3> QED BY <1>2, <2>1, <3>1, ElementOfSeq
  <2> QED BY <2>2, AlertIs
<1>8. ASSUME NEW i \in kept, NEW j \in kept, i < j PROVE At(w[i]) >= At(w[j])
  <2>1. /\ \A a, b \in 1 .. n : a < b => At(s[a]) >= At(s[b])
        /\ \A a, b \in 1 .. m : a < b => At(seen[a]) >= At(seen[b])
        /\ \A a \in 1 .. k, b \in 1 .. m : At(s[a]) >= At(seen[b])
    <3>1. /\ (\A a \in 1 .. n : At(s[a]) \in Nat) /\ \A a \in 1 .. m : At(seen[a]) \in Nat
          /\ \A a, b \in 1 .. n : a < b => At(s[a]) >= At(s[b])
          /\ \A a, b \in 1 .. m : a < b => At(seen[a]) >= At(seen[b])
      BY NewestFirstIs
    <3>5. \A a \in 1 .. k, b \in 1 .. m : At(s[a]) > At(seen[b])
      BY DEF Matches
    <3>6. \A a \in 1 .. k : a \in 1 .. n
      BY <1>1
    <3> HIDE DEF n, m
    <3> QED BY <3>1, <3>5, <3>6
  <2> HIDE DEF w, n, m
  <2>2. CASE i <= k
    <3>1. CASE j <= k
      <4>1. i \in 1 .. k /\ j \in 1 .. k /\ i \in 1 .. n /\ j \in 1 .. n
        BY <1>1, <2>2, <3>1
      <4> QED BY <1>6, <1>8, <2>1, <4>1
    <3>2. CASE ~ (j <= k)
      <4>1. i \in 1 .. k /\ j \in n + 1 .. n + m
        BY <1>1, <2>2, <3>2
      <4> QED BY <1>6, <2>1, <4>1
    <3> QED BY <3>1, <3>2
  <2>3. CASE ~ (i <= k)
    <3>1. i \in n + 1 .. n + m /\ j \in n + 1 .. n + m /\ i - n < j - n
      BY <1>1, <1>8, <2>3
    <3> QED BY <1>6, <2>1, <3>1
  <2> QED BY <2>2, <2>3
<1>9. Cardinality(kept) = k + m
  <2> HIDE DEF n, m
  <2> DEFINE a == 1 .. k
             b == n + 1 .. n + m
  <2>1. a \cap b = {} /\ kept = a \cup b
    BY <1>1
  <2>2. /\ IsFiniteSet(a) /\ Cardinality(a) = IF 1 > k THEN 0 ELSE (k - 1) + 1
        /\ IsFiniteSet(b) /\ Cardinality(b) = IF n + 1 > n + m THEN 0 ELSE ((n + m) - (n + 1)) + 1
    <3>1. 1 \in Int /\ k \in Int /\ n + 1 \in Int /\ n + m \in Int
      BY <1>1
    <3> QED BY <3>1, FS_Interval
  <2>3. Cardinality(a) = k /\ Cardinality(b) = m
    BY <1>1, <2>2
  <2> HIDE DEF a, b, kept
  <2>4. Cardinality({}) = 0
    BY FS_EmptySet
  <2>5. Cardinality(a \cup b) = k + m - 0
    BY <2>1, <2>2, <2>3, <2>4, FS_Union
  <2>6. k + m - 0 = k + m
    BY <1>1
  <2> QED BY <2>1, <2>5, <2>6
<1>10. PICK p \in [1 .. k + m -> kept] :
         /\ Alarms!SortedByTime(w, kept) = [q \in 1 .. k + m |-> w[p[q]]]
         /\ \A i \in kept : p[Place(w, kept, i)] = i
  <2>1. kept \in SUBSET (1 .. Len(w)) /\ w \in Seq(Alert)
    BY <1>2, <1>5, BothAre
  <2> HIDE DEF kept, w, n, m, f, both
  <2>2. \E p \in [1 .. Cardinality(kept) -> kept] :
          /\ Alarms!SortedByTime(w, kept) = [q \in 1 .. Cardinality(kept) |-> w[p[q]]]
          /\ \A i \in kept : p[Place(w, kept, i)] = i
    BY <2>1, SortIs
  <2> QED BY <1>9, <2>2
<1> HIDE DEF w, n, m
<1>11. ASSUME NEW i \in kept PROVE Place(w, kept, i) = IF i <= k THEN i ELSE (i - n) + k
  <2>1. kept = Parts(k, n, m) /\ Falling(w, kept)
    BY <1>7, <1>8 DEF Parts, Falling
  <2> HIDE DEF kept
  <2> QED BY <1>1, <2>1, PlaceIs
<1>12. ASSUME NEW q \in 1 .. k + m PROVE w[p[q]] = both[q]
  <2> DEFINE i == IF q <= k THEN q ELSE (q - k) + n
  <2>1. i \in kept /\ q = IF i <= k THEN i ELSE (i - n) + k
    BY <1>1
  <2>2. p[q] = i
    <3> HIDE DEF i, kept
    <3> QED BY <1>10, <1>11, <2>1
  <2>3. CASE q <= k
    <3>1. i = q /\ q \in 1 .. k
      BY <2>3
    <3> QED BY <1>4, <1>6, <2>2, <2>3, <3>1
  <2>4. CASE ~ (q <= k)
    <3>1. i \in n + 1 .. n + m /\ i - n = q - k
      BY <1>1, <2>4
    <3> HIDE DEF i
    <3> QED BY <1>4, <1>6, <2>2, <2>4, <3>1
  <2> QED BY <2>3, <2>4
<1>13. both = [q \in 1 .. k + m |-> both[q]]
  BY <1>4
<1> HIDE DEF both, kept
<1>14. Alarms!SortedByTime(w, kept) = both
  BY <1>10, <1>12, <1>13
<1> QED BY <1>5, <1>14 DEF w, both

\* The ring, then what was seen before it, as far as the list goes
LEMMA MergedIs ==
  ASSUME NEW s \in Seq(Alert), NEW seen \in Seq(Alert), NewestFirst(s), NewestFirst(seen),
         Matching(s, seen), MaxCumulative \in Nat, Len(s) <= MaxCumulative
  PROVE  Matches(s, Alarms!Merged(s, seen), 0)
<1>2. PICK k \in Nat : Matches(s, seen, k)
  BY DEF Matching
<1> DEFINE n == Len(s)
           m == Len(seen)
           f == SubSeq(s, 1, k)
           both == f \o seen
           l == FirstPart(both, MaxCumulative)
<1>3. Alarms!Merged(s, seen) = l
  <2>1. Alarms!SortedByTime(s \o seen, Alarms!Kept(s, seen)) = both
    BY <1>2, SortedIs
  <2> HIDE DEF both
  <2> QED BY <2>1 DEF Alarms!Merged, Alarms!FirstOf, FirstPart
<1>4. /\ n \in Nat /\ m \in Nat /\ k <= n /\ n - k <= m
      /\ \A i \in 1 .. k, j \in 1 .. m : At(s[i]) > At(seen[j])
      /\ \A i \in 1 .. n - k : s[k + i] = seen[i]
  BY <1>2 DEF Matches
<1>5. f \in Seq(Alert) /\ Len(f) = k /\ \A i \in 1 .. k : f[i] = s[i]
  BY <1>4
<1> HIDE DEF f
<1>6. /\ both \in Seq(Alert) /\ Len(both) = k + m
      /\ \A i \in 1 .. k + m : both[i] = IF i <= k THEN s[i] ELSE seen[i - k]
  <2>1. /\ both \in Seq(Alert) /\ Len(both) = k + m
        /\ \A i \in 1 .. k + m : both[i] = IF i <= k THEN f[i] ELSE seen[i - k]
    BY <1>5, ConcatProperties
  <2> HIDE DEF both, m, n
  <2>2. ASSUME NEW i \in 1 .. k + m PROVE both[i] = IF i <= k THEN s[i] ELSE seen[i - k]
    <3>1. i <= k => i \in 1 .. k
      BY <1>4
    <3> QED BY <1>5, <2>1, <3>1
  <2> QED BY <2>1, <2>2
<1> HIDE DEF both
<1>7. /\ l \in Seq(Alert) /\ Len(l) \in Nat
      /\ Len(l) = IF k + m < MaxCumulative THEN k + m ELSE MaxCumulative
      /\ \A i \in 1 .. Len(l) : i \in 1 .. k + m /\ l[i] = both[i]
  BY <1>6, FirstPartIs
<1> HIDE DEF l
<1>9. n <= MaxCumulative
  OBVIOUS
<1> HIDE DEF n, m
<1>14. n <= Len(l)
  BY <1>4, <1>7, <1>9
<1>15. ASSUME NEW i \in 1 .. n PROVE s[i] = l[i]
  <2>1. i \in 1 .. Len(l) /\ i \in 1 .. k + m
    BY <1>4, <1>7, <1>14
  <2>2. l[i] = both[i]
    BY <1>7, <2>1
  <2>3. CASE i <= k
    BY <1>6, <2>1, <2>2, <2>3
  <2>4. CASE ~ (i <= k)
    <3>1. i - k \in 1 .. n - k /\ k + (i - k) = i
      BY <1>4, <2>4
    <3>2. both[i] = seen[i - k]
      BY <1>6, <2>1, <2>4
    <3> QED BY <1>4, <2>2, <3>1, <3>2
  <2> QED BY <2>3, <2>4
<1>16. Matches(s, l, 0)
  <2>1. 0 \in 0 .. Len(s) /\ Len(s) - 0 <= Len(l)
    BY <1>4, <1>14 DEF n
  <2>2. \A i \in 1 .. Len(s) - 0 : s[0 + i] = l[i]
    <3>1. Len(s) - 0 = n /\ \A i \in 1 .. n : 0 + i = i
      BY <1>4 DEF n
    <3> QED BY <1>15, <3>1
  <2>3. \A i \in 1 .. 0 : FALSE
    OBVIOUS
  <2> QED BY <2>1, <2>2, <2>3 DEF Matches
<1> QED BY <1>3, <1>16

\* A list that was emptied is before every alert.
LEMMA EmptyIs ==
  ASSUME NEW t \in Nat
  PROVE  /\ SeenBy(<<>>, t)
         /\ \A s \in Seq(Alert) : Matching(s, <<>>) /\ Told(s, <<>>)
         /\ \A r : From(r, <<>>)
<1>1. Len(<<>>) = 0 /\ DOMAIN <<>> = {} /\ <<>> \in Seq(Alert)
  OBVIOUS
<1>2. ASSUME NEW s \in Seq(Alert) PROVE Matching(s, <<>>) /\ Told(s, <<>>)
  <2>1. Len(s) \in Nat
    OBVIOUS
  <2>2. Matches(s, <<>>, Len(s))
    BY <1>1, <2>1 DEF Matches
  <2>3. Alarms!Ids(<<>>) = {}
    BY <1>1 DEF Alarms!Ids
  <2> QED BY <2>1, <2>2, <2>3 DEF Matching, Told
<1>3. SeenBy(<<>>, t)
  BY <1>1 DEF SeenBy, NewestFirst
<1>4. ASSUME NEW r PROVE From(r, <<>>)
  BY <1>1 DEF From
<1> QED BY <1>2, <1>3, <1>4

LEMMA AlertsInit == AlertRingMax \in Nat /\ Alarms!Init => AlertsInv
<1> SUFFICES ASSUME AlertRingMax \in Nat, Alarms!Init PROVE AlertsInv
  OBVIOUS
<1>1. /\ rings = [r \in Alarms!Sources |-> <<>>] /\ origin = "mock" /\ tick = 0
      /\ all = [h \in Hooks |-> <<>>] /\ sources = [h \in Hooks |-> {}]
  BY DEF Alarms!Init
<1>2. /\ tick \in Nat /\ origin \in Alarms!Sources /\ <<>> \in Seq(Alert)
      /\ Len(<<>>) <= AlertRingMax
  BY <1>1 DEF Alarms!Sources
<1>3. /\ rings = [r \in Alarms!Sources |-> rings[r]]
      /\ all = [h \in Hooks |-> all[h]] /\ sources = [h \in Hooks |-> sources[h]]
      /\ \A r \in Alarms!Sources : rings[r] = <<>>
      /\ \A h \in Hooks : all[h] = <<>>
  BY <1>1
<1> QED BY <1>2, <1>3, EmptyIs DEF AlertsInv

\* One hook's list becomes another.
LEMMA ListKeeps ==
  ASSUME AlertsInv, NEW h \in Hooks, NEW l, NEW from, SeenBy(l, tick),
         \A r \in Alarms!Sources :
           Told(rings[r], l) /\ (from \subseteq {r} => Matching(rings[r], l)),
         all' = [all EXCEPT ![h] = l], sources' = [sources EXCEPT ![h] = from],
         UNCHANGED Alarms!bridgeVars
  PROVE  AlertsInv'
<1>1. /\ all = [i \in Hooks |-> all[i]] /\ sources = [i \in Hooks |-> sources[i]]
      /\ rings = [r \in Alarms!Sources |-> rings[r]]
  BY DEF AlertsInv
<1>2. /\ all' = [i \in Hooks |-> all'[i]] /\ sources' = [i \in Hooks |-> sources'[i]]
      /\ \A i \in Hooks : all'[i] = (IF i = h THEN l ELSE all[i])
                           /\ sources'[i] = (IF i = h THEN from ELSE sources[i])
  BY <1>1
<1>3. ASSUME NEW i \in Hooks
      PROVE  /\ SeenBy(all'[i], tick)
             /\ \A r \in Alarms!Sources :
                  /\ Told(rings[r], all'[i])
                  /\ sources'[i] \subseteq {r} => Matching(rings[r], all'[i])
  BY <1>2, AlertsAre
<1>4. rings' = rings /\ origin' = origin /\ tick' = tick
  BY DEF Alarms!bridgeVars
<1>5. /\ tick \in Nat /\ origin \in Alarms!Sources
      /\ \A r \in Alarms!Sources :
           Len(rings[r]) <= AlertRingMax /\ SeenBy(rings[r], tick) /\ From(r, rings[r])
  BY AlertsAre
<1> QED BY <1>1, <1>2, <1>3, <1>4, <1>5 DEF AlertsInv

\* What the next snapshot leaves of a hook's list
LEMMA NextListIs ==
  ASSUME AlertsInv, NEW h \in Hooks,
         AlertRingMax \in Nat, MaxCumulative \in Nat, AlertRingMax <= MaxCumulative
  PROVE  LET ring == rings[origin]
             l == Alarms!Merged(ring, all[h])
         IN /\ SeenBy(l, tick)
            /\ \A i \in 1 .. Len(ring) : Among(ring[i], l) \/ NoRoom(ring[i], l)
            /\ \A r \in Alarms!Sources : Told(rings[r], l)
            /\ sources[h] \subseteq {origin} => Matches(ring, l, 0)
<1> DEFINE ring == rings[origin]
           seen == all[h]
           l == Alarms!Merged(ring, seen)
<1>1. /\ tick \in Nat /\ origin \in Alarms!Sources
      /\ Len(ring) <= AlertRingMax /\ Len(ring) \in Nat
      /\ ring \in Seq(Alert) /\ NewestFirst(ring)
      /\ \A i \in 1 .. Len(ring) : At(ring[i]) <= tick
      /\ seen \in Seq(Alert) /\ NewestFirst(seen)
      /\ \A i \in 1 .. Len(seen) : At(seen[i]) <= tick
  BY AlertsAre DEF SeenBy
<1>2. \A r \in Alarms!Sources :
        /\ From(r, rings[r]) /\ rings[r] \in Seq(Alert) /\ Told(rings[r], seen)
        /\ sources[h] \subseteq {r} => Matching(rings[r], seen)
  BY AlertsAre
<1>3. /\ l \in Seq(Alert) /\ Len(l) \in Nat /\ NewestFirst(l)
      /\ \A q \in 1 .. Len(l) : Among(l[q], ring) \/ Among(l[q], seen)
      /\ \A i \in 1 .. Len(ring) :
           ring[i].id \notin Alarms!Ids(seen) => Among(ring[i], l) \/ NoRoom(ring[i], l)
      /\ \A a \in Alert : Among(a, seen) \/ NoRoom(a, seen) => Among(a, l) \/ NoRoom(a, l)
  BY <1>1, MergeIs
<1>10. DOMAIN l = 1 .. Len(l)
  BY <1>3
<1>4. ASSUME sources[h] \subseteq {origin} PROVE Matches(ring, l, 0)
  <2>1. Len(ring) <= MaxCumulative /\ Matching(ring, seen)
    BY <1>1, <1>2, <1>4
  <2> HIDE DEF ring, seen
  <2> QED BY <1>1, <2>1, MergedIs
<1> HIDE DEF l
<1>5. SeenBy(l, tick)
  <2>1. ASSUME NEW q \in 1 .. Len(l) PROVE At(l[q]) <= tick
    BY <1>1, <1>3 DEF Among
  <2> QED BY <1>3, <2>1 DEF SeenBy
<1>6. ASSUME NEW r \in Alarms!Sources, NEW i \in 1 .. Len(rings[r]),
             rings[r][i].id \in Alarms!Ids(seen)
      PROVE  Among(rings[r][i], l) \/ NoRoom(rings[r][i], l)
  <2>1. rings[r][i] \in Alert
    BY <1>2
  <2>2. Among(rings[r][i], seen) \/ NoRoom(rings[r][i], seen)
    BY <1>2, <1>6 DEF Told
  <2> QED BY <1>3, <2>1, <2>2
<1>7. ASSUME NEW i \in 1 .. Len(ring) PROVE Among(ring[i], l) \/ NoRoom(ring[i], l)
  BY <1>1, <1>3, <1>6
<1>8. ASSUME NEW r \in Alarms!Sources, NEW i \in 1 .. Len(rings[r]),
             rings[r][i].id \in Alarms!Ids(l)
      PROVE  Among(rings[r][i], l) \/ NoRoom(rings[r][i], l)
  <2>1. CASE r = origin
    BY <1>7, <2>1
  <2>2. CASE r # origin
    <3>1. PICK q \in 1 .. Len(l) : l[q].id = rings[r][i].id
      BY <1>8, <1>10 DEF Alarms!Ids
    <3>2. ~Among(l[q], ring)
      <4> SUFFICES ASSUME NEW j \in 1 .. Len(ring), ring[j] = l[q] PROVE FALSE
        BY DEF Among
      <4>1. (MadeUp(ring[j]) <=> origin = "mock") /\ (MadeUp(rings[r][i]) <=> r = "mock")
        BY <1>1, <1>2 DEF From
      <4>2. MadeUp(ring[j]) <=> MadeUp(rings[r][i])
        BY <3>1 DEF MadeUp
      <4> QED BY <1>1, <2>2, <4>1, <4>2 DEF Alarms!Sources
    <3>3. PICK j \in 1 .. Len(seen) : seen[j] = l[q]
      BY <1>3, <3>2 DEF Among
    <3>4. rings[r][i].id \in Alarms!Ids(seen)
      BY <1>1, <3>1, <3>3 DEF Alarms!Ids
    <3> QED BY <1>6, <3>4
  <2> QED BY <2>1, <2>2
<1>9. \A r \in Alarms!Sources : Told(rings[r], l)
  BY <1>8 DEF Told
<1> QED BY <1>4, <1>5, <1>7, <1>9 DEF l

LEMMA ShowKeeps ==
  ASSUME AlertsInv, NEW h \in Hooks, Alarms!Show(h),
         AlertRingMax \in Nat, MaxCumulative \in Nat, AlertRingMax <= MaxCumulative
  PROVE  AlertsInv'
<1> DEFINE l == Alarms!Merged(rings[origin], all[h])
           from == sources[h] \cup {origin}
<1>1. /\ all' = [all EXCEPT ![h] = l] /\ sources' = [sources EXCEPT ![h] = from]
      /\ UNCHANGED Alarms!bridgeVars
  BY DEF Alarms!Show
<1>2. /\ SeenBy(l, tick) /\ \A r \in Alarms!Sources : Told(rings[r], l)
      /\ sources[h] \subseteq {origin} => Matches(rings[origin], l, 0)
  BY NextListIs
<1> HIDE DEF l
<1>3. ASSUME NEW r \in Alarms!Sources, from \subseteq {r} PROVE Matching(rings[r], l)
  <2>1. r = origin /\ sources[h] \subseteq {origin}
    BY <1>3
  <2> QED BY <1>2, <2>1 DEF Matching
<1> HIDE DEF from
<1> QED BY <1>1, <1>2, <1>3, ListKeeps

LEMMA AlertsStep ==
  ASSUME AlertRingMax \in Nat, MaxCumulative \in Nat, AlertRingMax <= MaxCumulative
  PROVE  AlertsInv /\ [Alarms!Next]_(Alarms!vars) => AlertsInv'
<1> SUFFICES ASSUME AlertsInv, [Alarms!Next]_(Alarms!vars) PROVE AlertsInv'
  OBVIOUS
<1>1. ASSUME NEW crossed, Alarms!Detect(crossed) PROVE AlertsInv'
  BY <1>1, DetectKeeps
<1>2. ASSUME NEW kind \in Alarms!SimKinds, Alarms!Simulate(kind) PROVE AlertsInv'
  BY <1>2, SimulateKeeps
<1>3. CASE Alarms!Switch
  <2>1. origin' \in Alarms!Sources /\ rings' = rings /\ tick' = tick /\ all' = all
        /\ sources' = sources
    BY <1>3 DEF Alarms!Switch, Alarms!listVars
  <2> QED BY <2>1 DEF AlertsInv
<1>4. ASSUME UNCHANGED <<rings, origin, tick, all, sources>> PROVE AlertsInv'
  BY <1>4 DEF AlertsInv
<1>5. ASSUME NEW h \in Hooks, Alarms!Show(h) PROVE AlertsInv'
  BY <1>5, ShowKeeps
<1>6. ASSUME NEW h \in Hooks, Alarms!ClearHistory(h) \/ Alarms!Reload(h) PROVE AlertsInv'
  <2>1. /\ all' = [all EXCEPT ![h] = <<>>] /\ sources' = [sources EXCEPT ![h] = {}]
        /\ UNCHANGED Alarms!bridgeVars
    BY <1>6 DEF Alarms!ClearHistory, Alarms!Reload, Alarms!Press, Alarms!Emptied
  <2>2. /\ SeenBy(<<>>, tick)
        /\ \A r \in Alarms!Sources : Told(rings[r], <<>>) /\ Matching(rings[r], <<>>)
    BY AlertsAre, EmptyIs
  <2> QED BY <2>1, <2>2, ListKeeps
<1>7. ASSUME NEW h \in Hooks,
             Alarms!Acknowledge(h) \/ Alarms!AcknowledgeAll(h) \/ Alarms!Unacknowledge(h)
               \/ Alarms!ClearAcks(h)
      PROVE  AlertsInv'
  <2>1. UNCHANGED <<rings, origin, tick, all, sources>>
    BY <1>7 DEF Alarms!Acknowledge, Alarms!AcknowledgeAll, Alarms!Unacknowledge,
                Alarms!ClearAcks, Alarms!Press, Alarms!SetAcked, Alarms!bridgeVars,
                Alarms!listVars
  <2> QED BY <1>4, <2>1
<1>8. CASE UNCHANGED Alarms!vars
  BY <1>4, <1>8 DEF Alarms!vars
<1> QED BY <1>1, <1>2, <1>3, <1>5, <1>6, <1>7, <1>8 DEF Alarms!Next

\* Count and the set of positions of a list
LEMMA CountIs ==
  ASSUME NEW l \in Seq(Alert), NEW acks, NEW tile
  PROVE  /\ tile # "active" /\ Alarms!Count(l, acks, tile) = 0 =>
              \A i \in DOMAIN l : Alarms!Severity(l[i].kind) # tile
         /\ tile = "active" /\ (\A i \in DOMAIN l : l[i].id \in acks) =>
              Alarms!Count(l, acks, tile) = 0
<1>1. IsFiniteSet(1 .. Len(l)) /\ Cardinality(1 .. Len(l)) = Len(l) /\ Len(l) \in Nat
      /\ DOMAIN l = 1 .. Len(l)
  <2>1. Len(l) \in Nat /\ 1 \in Int /\ Len(l) \in Int /\ DOMAIN l = 1 .. Len(l)
    OBVIOUS
  <2>2. /\ IsFiniteSet(1 .. Len(l))
        /\ Cardinality(1 .. Len(l)) = IF 1 > Len(l) THEN 0 ELSE (Len(l) - 1) + 1
    BY <2>1, FS_Interval
  <2> QED BY <2>1, <2>2
<1>2. ASSUME tile # "active", Alarms!Count(l, acks, tile) = 0
      PROVE  \A i \in DOMAIN l : Alarms!Severity(l[i].kind) # tile
  <2> DEFINE s == {i \in DOMAIN l : Alarms!Severity(l[i].kind) = tile}
  <2>1. Alarms!Cardinality(s) = 0
    BY <1>2 DEF Alarms!Count
  <2>2. s \in SUBSET (1 .. Len(l))
    BY <1>1
  <2>3. Cardinality(s) = 0 /\ IsFiniteSet(s)
    <3> HIDE DEF s
    <3>1. IsFiniteSet(s)
      BY <1>1, <2>2, FS_Subset
    <3> QED BY <2>1, <3>1, CardinalityIs
  <2>4. s = {}
    <3> HIDE DEF s
    <3> QED BY <2>3, FS_EmptySet
  <2> QED BY <2>4
<1>3. ASSUME tile = "active", \A i \in DOMAIN l : l[i].id \in acks
      PROVE  Alarms!Count(l, acks, tile) = 0
  <2> DEFINE s == {i \in DOMAIN l : l[i].id \in acks}
  <2>1. s = 1 .. Len(l)
    BY <1>1, <1>3
  <2>2. Alarms!Count(l, acks, tile) = Len(l) - Alarms!Cardinality(s)
    BY <1>3 DEF Alarms!Count
  <2> HIDE DEF s
  <2>3. Alarms!Cardinality(s) = Len(l)
    BY <1>1, <2>1, CardinalityIs
  <2> QED BY <1>1, <2>2, <2>3
<1> QED BY <1>2, <1>3

LEMMA AlertsHold == Alarms!Spec => []AlertsInv
<1>0. AlertRingMax \in Nat /\ MaxCumulative \in Nat /\ AlertRingMax <= MaxCumulative
  BY PagesAssumption DEF PagesAssumption
<1>1. Alarms!Init => AlertsInv
  BY <1>0, AlertsInit
<1>2. AlertsInv /\ [Alarms!Next]_(Alarms!vars) => AlertsInv'
  BY <1>0, AlertsStep
<1> QED BY <1>1, <1>2, PTL DEF Alarms!Spec

\* For any length of the rings that the list can hold, any alerts of the daemon and
\* of the simulation and any buttons, the next snapshot leaves the alerts of its ring
\* in the list, once and newest first; all of them as long as the list is made of one
\* source, and all but those for which there is no room, newer ones being listed, when
\* it is not.  "All clear", a green tile and a silent bell are true of those listed.
THEOREM AlertsAreKept == Alarms!Spec => []SnapshotIsKept
<1>0. AlertRingMax \in Nat /\ MaxCumulative \in Nat /\ AlertRingMax <= MaxCumulative
  BY PagesAssumption DEF PagesAssumption
<1>1. AlertsInv => SnapshotIsKept
  <2> SUFFICES ASSUME AlertsInv, NEW h \in Hooks
      PROVE  LET ring == rings[origin]
                 l == Alarms!Merged(ring, all[h])
                 due == {i \in DOMAIN ring : \/ ~Alarms!PushedOut(ring[i], l)
                                              \/ sources[h] \subseteq {origin}}
             IN /\ \A i \in due : ring[i] \in Alarms!Range(l)
                /\ \A i, j \in DOMAIN l : i < j =>
                     l[i] # l[j] /\ Alarms!Time(l[i]) >= Alarms!Time(l[j])
                /\ Alarms!SaysAllClear(l, acked[h], {}) =>
                     /\ \A i \in due : ring[i].id \in acked[h]
                     /\ ~Alarms!Bell(l, acked[h]) /\ Alarms!Green(l, acked[h], "active")
                /\ \A tile \in Alarms!Severities : Alarms!Green(l, acked[h], tile) =>
                     \A i \in due : Alarms!Severity(ring[i].kind) # tile
                /\ \A hidden \in SUBSET Alarms!Severities :
                     Alarms!SaysAllClear(l, acked[h], hidden) =>
                       \A i \in due :
                         ring[i].id \in acked[h] \/ Alarms!Severity(ring[i].kind) \in hidden
    BY DEF SnapshotIsKept, Alarms!SnapshotIsKept
  <2> DEFINE ring == rings[origin]
             l == Alarms!Merged(ring, all[h])
             a == acked[h]
             due == {i \in DOMAIN ring : \/ ~Alarms!PushedOut(ring[i], l)
                                          \/ sources[h] \subseteq {origin}}
  <2>1. /\ SeenBy(l, tick)
        /\ \A i \in 1 .. Len(ring) : Among(ring[i], l) \/ NoRoom(ring[i], l)
        /\ sources[h] \subseteq {origin} => Matches(ring, l, 0)
    BY <1>0, NextListIs
  <2>2. ring \in Seq(Alert) /\ Len(ring) \in Nat /\ DOMAIN ring = 1 .. Len(ring)
    BY AlertsAre
  <2> HIDE DEF l, a, ring
  <2>3. l \in Seq(Alert) /\ NewestFirst(l) /\ Len(l) \in Nat /\ DOMAIN l = 1 .. Len(l)
        /\ Alarms!Range(l) = {l[j] : j \in 1 .. Len(l)}
    <3>1. l \in Seq(Alert) /\ NewestFirst(l)
      BY <2>1 DEF SeenBy
    <3>2. Len(l) \in Nat /\ DOMAIN l = 1 .. Len(l)
      BY <3>1
    <3> QED BY <3>1, <3>2 DEF Alarms!Range
  <2>4. ASSUME NEW i \in due PROVE \E j \in DOMAIN l : l[j] = ring[i]
    <3>1. CASE sources[h] \subseteq {origin}
      <4>1. Len(ring) - 0 <= Len(l) /\ \A j \in 1 .. Len(ring) - 0 : ring[0 + j] = l[j]
        BY <2>1, <3>1 DEF Matches
      <4>2. Len(ring) - 0 = Len(ring) /\ i \in 1 .. Len(ring) /\ 0 + i = i
        BY <2>2
      <4> QED BY <2>2, <2>3, <4>1, <4>2
    <3>2. CASE ~Alarms!PushedOut(ring[i], l)
      <4>1. i \in 1 .. Len(ring)
        BY <2>2
      <4>2. CASE Among(ring[i], l)
        BY <2>3, <4>2 DEF Among
      <4>3. CASE NoRoom(ring[i], l)
        BY <2>3, <3>2, <4>3 DEF NoRoom, Alarms!PushedOut, At
      <4> QED BY <2>1, <4>1, <4>2, <4>3
    <3> QED BY <3>1, <3>2
  <2>5. \A i \in due : ring[i] \in Alarms!Range(l)
    BY <2>3, <2>4
  <2> HIDE DEF due
  <2>6. \A i, j \in DOMAIN l : i < j =>
          l[i] # l[j] /\ Alarms!Time(l[i]) >= Alarms!Time(l[j])
    BY <2>3 DEF NewestFirst, At
  <2>7. ASSUME Alarms!SaysAllClear(l, a, {})
        PROVE  /\ \A i \in due : ring[i].id \in a
               /\ ~Alarms!Bell(l, a) /\ Alarms!Green(l, a, "active")
    <3>1. \A i \in DOMAIN l : l[i].id \in a
      BY <2>7 DEF Alarms!SaysAllClear, Alarms!Listed
    <3>2. Alarms!Count(l, a, "active") = 0
      BY <2>3, <3>1, CountIs
    <3>3. \A i \in due : ring[i].id \in a
      BY <2>4, <3>1
    <3> QED BY <3>2, <3>3 DEF Alarms!Bell, Alarms!Green
  <2>8. ASSUME NEW tile \in Alarms!Severities, Alarms!Green(l, a, tile)
        PROVE  \A i \in due : Alarms!Severity(ring[i].kind) # tile
    <3>1. tile # "active" /\ Alarms!Count(l, a, tile) = 0
      BY <2>8 DEF Alarms!Severities, Alarms!Green
    <3>2. \A i \in DOMAIN l : Alarms!Severity(l[i].kind) # tile
      BY <2>3, <3>1, CountIs
    <3> QED BY <2>4, <3>2
  <2>9. ASSUME NEW hidden \in SUBSET Alarms!Severities, Alarms!SaysAllClear(l, a, hidden)
        PROVE  \A i \in due : ring[i].id \in a \/ Alarms!Severity(ring[i].kind) \in hidden
    <3>1. \A i \in DOMAIN l : l[i].id \in a \/ Alarms!Severity(l[i].kind) \in hidden
      BY <2>9 DEF Alarms!SaysAllClear, Alarms!Listed
    <3> QED BY <2>4, <3>1
  <2> QED BY <2>5, <2>6, <2>7, <2>8, <2>9 DEF l, a, due, ring
<1>2. Alarms!Spec => []AlertsInv
  BY AlertsHold
<1> QED BY <1>1, <1>2, PTL
=============================================================================
