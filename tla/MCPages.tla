------------------------------- MODULE MCPages -------------------------------
(***************************************************************************)
(* The pages of the GUI that share nothing but the bridge's address, in one *)
(* run: a behaviour is that of one page and of what it talks to, chosen at  *)
(* the start, and the others stay as they are.                             *)
(***************************************************************************)
EXTENDS LiveFeed, Pages

VARIABLE page  \* the page this behaviour is about

\* Loss models of the channel page, and where its sliders start.
MCModels == {<<1, 1>>, <<2, 1>>}
MCFirstModel == <<1, 1>>

allVars ==
  <<page, vars, formVars, emulationVars, consoleVars, alarmsVars, artefactsVars,
    endingsVars>>

PageNames == {"live", "config", "channel", "logs", "alerts", "files", "fec"}

\* A page that is not looked at has one initial state; the channel page finds a
\* loss model left by an earlier bridge.
MCInit ==
  /\ page \in PageNames
  /\ Init /\ Form!Init /\ Emulation!Init /\ Console!Init /\ Alarms!Init /\ Artefacts!Init
  /\ Endings!Init
  /\ page # "config" => stored.k = 2
  /\ qdisc["if0"] = (IF page = "channel" THEN <<2, 1>> ELSE <<>>)
  /\ qdisc["if1"] = <<>>
  /\ page # "logs" => lastIno = file.ino
  /\ page # "files" => written = 0

LiveStep ==
  /\ page = "live" /\ Next
  /\ UNCHANGED <<page, formVars, emulationVars, consoleVars, alarmsVars, artefactsVars,
                 endingsVars>>

ConfigStep ==
  /\ page = "config" /\ Form!Next
  /\ UNCHANGED <<page, vars, emulationVars, consoleVars, alarmsVars, artefactsVars,
                 endingsVars>>

ChannelStep ==
  /\ page = "channel" /\ Emulation!Next
  /\ UNCHANGED <<page, vars, formVars, consoleVars, alarmsVars, artefactsVars, endingsVars>>

LogsStep ==
  /\ page = "logs" /\ Console!Next
  /\ UNCHANGED <<page, vars, formVars, emulationVars, alarmsVars, artefactsVars, endingsVars>>

AlertsStep ==
  /\ page = "alerts" /\ Alarms!Next
  /\ UNCHANGED <<page, vars, formVars, emulationVars, consoleVars, artefactsVars, endingsVars>>

FilesStep ==
  /\ page = "files" /\ Artefacts!Next
  /\ UNCHANGED <<page, vars, formVars, emulationVars, consoleVars, alarmsVars, endingsVars>>

FecStep ==
  /\ page = "fec" /\ Endings!Next
  /\ UNCHANGED <<page, vars, formVars, emulationVars, consoleVars, alarmsVars, artefactsVars>>

MCNext == LiveStep \/ ConfigStep \/ ChannelStep \/ LogsStep \/ AlertsStep \/ FilesStep \/ FecStep

\* The fairness of LiveFeed and of Channel, for the page that is looked at.
MCSpec ==
  /\ MCInit /\ [][MCNext]_allVars
  /\ WF_vars(page = "live" /\ OpenSocket)
  /\ WF_vars(page = "live" /\ \E l \in Links : Ingest(l))
  /\ WF_vars(page = "live" /\ EndOfFile) /\ WF_vars(page = "live" /\ Closed)
  /\ WF_vars(page = "live" /\ OnOpen) /\ WF_vars(page = "live" /\ OnMessage)
  /\ WF_vars(page = "live" /\ Refused) /\ WF_vars(page = "live" /\ Reconnect)
  /\ WF_emulationVars(page = "channel" /\ Emulation!Tick)
  /\ WF_emulationVars(page = "channel" /\ Emulation!Posted)
  /\ \A s \in Emulation!Slots :
       /\ WF_emulationVars(page = "channel" /\ Emulation!Show(s))
       /\ WF_emulationVars(page = "channel" /\ Emulation!Refresh(s))
  /\ \A n \in 1 .. MaxPosts :
       /\ WF_emulationVars(page = "channel" /\ Emulation!Delete(n))
       /\ WF_emulationVars(page = "channel" /\ Emulation!Add(n))

-----------------------------------------------------------------------------
\* The channel page comes to show the kernel's loss model.
ShowsTheChannel == <>[](page = "channel" => Emulation!ChannelShown)
=============================================================================
