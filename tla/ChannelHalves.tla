----------------------------- MODULE ChannelHalves -----------------------------
(***************************************************************************)
(* The two halves of a reliable channel, checked in one run: a behaviour is  *)
(* one of the sending half or one of the receiving half, while the other     *)
(* stays as it began.                                                        *)
(***************************************************************************)
EXTENDS ReliableChannel, ChannelReception

VARIABLE half    \* the half the behaviour is of

halvesVars == <<half, vars, receptionVars>>

HalvesInit == half \in {"sending", "receiving"} /\ Init /\ ReceptionInit

OfSending   == half = "sending"   /\ UNCHANGED <<half, receptionVars>>
OfReceiving == half = "receiving" /\ UNCHANGED <<half, vars>>

HalvesNext ==
  \/ OfSending /\ Next
  \/ OfReceiving /\ ReceptionNext

\* For sending, timers fire, microtasks run, the node answers, stop() stops
\* waiting.
SendingFairness ==
  /\ WF_halvesVars(OfSending /\ RunLoop)
  /\ WF_halvesVars(OfSending /\ ProcessFires)
  /\ WF_halvesVars(OfSending /\ SyncFires)
  /\ WF_halvesVars(OfSending /\ EndSync)
  /\ WF_halvesVars(OfSending /\ Stopped)
  /\ \A x \in Messages :
       /\ WF_halvesVars(OfSending /\ RetryFires(x))
       /\ WF_halvesVars(OfSending /\ \E outcome \in Outcomes : EndSend(x, outcome))

\* For receiving, microtasks run; the sync timer of a started channel fires and
\* processes the queue; queries are made and end, and a store that can answer
\* does in the end. Timers fire only when no microtask is left, which may be
\* so again and again but never for good.
ReceivingFairness ==
  /\ WF_halvesVars(OfReceiving /\ Drain)
  /\ WF_halvesVars(OfReceiving /\ SendStatus)
  /\ WF_halvesVars(OfReceiving /\ StopRetriever)
  /\ WF_halvesVars(OfReceiving /\ EndStop)
  /\ SF_halvesVars(OfReceiving /\ listening /\ ProcessTasks)
  /\ SF_halvesVars(OfReceiving /\ RetrieveMissingMessage)
  /\ \A n \in 1..MaxQueries : SF_halvesVars(OfReceiving /\ EndQuery(n))
  /\ \A m \in Stored :
       SF_halvesVars(OfReceiving /\ \E n \in 1..MaxQueries : Retrieved(n, m))

HalvesSpec == HalvesInit /\ [][HalvesNext]_halvesVars /\ SendingFairness /\ ReceivingFairness
=============================================================================
