-------------------------- MODULE TelemetryService --------------------------
(***************************************************************************)
(* What the telemetry system promises its operator, without blocks,        *)
(* records or a network: windows of one boot of the node are delivered at  *)
(* most once and in the order they were sampled, some are lost, and the    *)
(* node takes an upload for successful only when it was delivered.         *)
(***************************************************************************)
EXTENDS Naturals, Sequences, SequencesExt

CONSTANTS Boots, Windows

VARIABLES
  delivered,   \* sequence of <<boot, window>>, in the order of delivery
  confirmed    \* set of <<boot, window>> the node saw succeed

serviceVars == <<delivered, confirmed>>

ServiceInit == delivered = <<>> /\ confirmed = {}

Deliver(boot, window) ==
  /\ \A i \in DOMAIN delivered :
        delivered[i][1] = boot => delivered[i][2] < window
  /\ delivered' = Append(delivered, <<boot, window>>)
  /\ UNCHANGED confirmed

Confirm(boot, window) ==
  /\ Contains(delivered, <<boot, window>>)
  /\ confirmed' = confirmed \cup {<<boot, window>>}
  /\ UNCHANGED delivered

ServiceNext ==
  \E boot \in Boots, window \in Windows :
     Deliver(boot, window) \/ Confirm(boot, window)

ServiceSpec == ServiceInit /\ [][ServiceNext]_serviceVars

=============================================================================
