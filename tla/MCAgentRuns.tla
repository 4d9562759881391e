---------------------------- MODULE MCAgentRuns ----------------------------
EXTENDS AgentRuns, TLC
CONSTANTS note, look, pay, odd, late

\* Two turns that make the same first and last call.
TwoTurns == 1..2
TwoPlans == <<<<note, look, pay>>, <<note, pay>>>>
Shapes == note :> "async" @@ look :> "decorated" @@ pay :> "async" @@ odd :> "sync"
          @@ late :> "async"
Names == note :> "other" @@ look :> "safe" @@ pay :> "irreversible" @@ odd :> "other"
         @@ late :> "irreversible"
Overrides == note :> "unset" @@ look :> "safe" @@ pay :> "irreversible" @@ odd :> "unset"
             @@ late :> "unset"
TwoPlugins == 1..2
PluginNumbers == note :> 1 @@ look :> 1 @@ pay :> 2 @@ odd :> 2 @@ late :> 1
=============================================================================
