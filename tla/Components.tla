------------------------------ MODULE Components ------------------------------
(***************************************************************************)
(* The components that are checked for themselves: a behaviour is one of    *)
(* the local history, or of the repair manager, and so on; the others stay  *)
(* as they began.                                                          *)
(***************************************************************************)
EXTENDS LocalHistory, RepairManager, WireExchange, MessageFlow, HealthIndicator,
        StreamManager, Metadata, RemotePeers, BootstrapDiscovery, PeerExchange

VARIABLE component

Names == {"history", "repair", "wire", "flow", "health", "streams", "metadata",
          "remote", "bootstrap", "exchange"}

componentVars == <<component, historyVars, repairVars, exVars, flowVars, healthVars, streamVars,
                   metadataVars, remotePeersVars, bootstrapVars, exchangeVars>>

ComponentsInit ==
    /\ component \in Names
    /\ HistoryInit /\ RepairInit /\ ExInit /\ FlowInit
    /\ HealthInit /\ StreamsInit /\ MetadataInit /\ RemotePeersInit
    /\ BootstrapInit /\ ExchangeInit

\* All others stay as they are.
Apart(name) ==
    /\ UNCHANGED component
    /\ name # "history" => UNCHANGED historyVars
    /\ name # "repair" => UNCHANGED repairVars
    /\ name # "wire" => UNCHANGED exVars
    /\ name # "flow" => UNCHANGED flowVars
    /\ name # "health" => UNCHANGED healthVars
    /\ name # "streams" => UNCHANGED streamVars
    /\ name # "metadata" => UNCHANGED metadataVars
    /\ name # "remote" => UNCHANGED remotePeersVars
    /\ name # "bootstrap" => UNCHANGED bootstrapVars
    /\ name # "exchange" => UNCHANGED exchangeVars

ComponentsNext ==
    \/ component = "history" /\ HistoryNext     /\ Apart("history")
    \/ component = "repair"  /\ RepairNext      /\ Apart("repair")
    \/ component = "wire"    /\ ExNext          /\ Apart("wire")
    \/ component = "flow"    /\ FlowNext        /\ Apart("flow")
    \/ component = "health"  /\ HealthNext      /\ Apart("health")
    \/ component = "streams" /\ StreamsNext     /\ Apart("streams")
    \/ component = "metadata" /\ MetadataNext  /\ Apart("metadata")
    \/ component = "remote"  /\ RemotePeersNext /\ Apart("remote")
    \/ component = "bootstrap" /\ BootstrapNext /\ Apart("bootstrap")
    \/ component = "exchange"  /\ ExchangeNext  /\ Apart("exchange")

\* For the repair manager time passes, and the sync and sweep timers of the
\* channel go on firing. A look-up of a record, and a call of the peer store, ends.
ComponentsFairness ==
    /\ WF_repairVars(component = "repair" /\ Tick)
    /\ WF_repairVars(component = "repair" /\ Ask)
    /\ WF_repairVars(component = "repair" /\ Answer)
    /\ WF_bootstrapVars(component = "bootstrap" /\ WalkSteps)

ComponentsSpec == ComponentsInit /\ [][ComponentsNext]_componentVars /\ ComponentsFairness
=============================================================================
