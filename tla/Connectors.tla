------------------------------- MODULE Connectors -------------------------------
(***************************************************************************)
(* The systems orders go to (src/swarm/integrations).  Those built in      *)
(* answer from the order alone; the contract of a connector also lets it   *)
(* refuse an order, or raise.                                              *)
(***************************************************************************)
EXTENDS Integers, Sequences

CONSTANTS
    Requests,
    Stage      \* what the digest of an order's id makes of it, by system

ErpSystems == {"sap", "oracle", "coupa"}
Providers == {"mock", "supplier_api"} \cup ErpSystems
Lifecycle == <<"SUBMITTED", "CONFIRMED", "SHIPPED", "DELIVERED">>

ASSUME StageAssumption == Stage \in [Providers -> [Requests -> DOMAIN Lifecycle]]

Mock == [submits |-> [r \in Requests |-> "SUBMITTED"], reports |-> [r \in Requests |-> "DELIVERED"]]

Simulated(stage) == LET at == [r \in Requests |-> Lifecycle[stage[r]]] IN [submits |-> at, reports |-> at]
SupplierAPI == Simulated(Stage["supplier_api"])
ERP(system) == Simulated(Stage[system])

BuildConnector(provider) ==
    CASE provider = "mock" -> Mock
      [] provider = "supplier_api" -> SupplierAPI
      [] provider \in ErpSystems -> ERP(provider)

\* _external_to_status: what is no status of an order counts as submitted.
AsStatus(reported) == IF reported \in {"CREATED", "CANCELLED"} \cup {Lifecycle[i] : i \in DOMAIN Lifecycle}
                      THEN reported ELSE "SUBMITTED"
=============================================================================
