-------------------------- MODULE IngressController --------------------------
(***************************************************************************)
(* The ingress controller (controllers/src/ingress/main.rs and             *)
(* nginx_ingress_config.rs).  Every event and every resync of either       *)
(* informer makes it write the whole configuration from both stores.       *)
(***************************************************************************)
EXTENDS Services

(* What a host has is not mistaken for no host.                            *)
ASSUME NoPathsAssumption == \A paths \in SUBSET (Svc \X Addr) : paths # None

VARIABLE nginx   \* [Ing -> paths of its host, or None]: the configuration

IngressSvcs == <<"ingress", "svc">>
Ingresses == <<"ingress", "ing">>

InitIngress == nginx = [g \in Ing |-> None]

(* A path leads to the address of its service, as the store has it; one    *)
(* without a service is left out, its host is not.                         *)
Config(ings, svcs) ==
  [g \in Ing |-> IF ings[g] = None THEN None
                 ELSE {<<s, svcs[s].addr>> : s \in {t \in ings[g] : svcs[t] # None}}]

NoHosts == [g \in Ing |-> None]

(* flush: a configuration without hosts is not written.                    *)
Flush(config) == IF config = NoHosts THEN UNCHANGED nginx ELSE nginx' = config

Stored == Config(store[Ingresses], store[IngressSvcs])

Reconfigure ==
  /\ TakeNote("ingress") \/ TakeResync("ingress")
  /\ Flush(Stored)
  /\ UNCHANGED <<apiVars, store, held, envVars>>

(* The configuration is the one the stores call for, or a notification is  *)
(* waiting, or there is no ingress left: in every order of the events of   *)
(* two kinds, and across lost watches.                                     *)
ConfigFollowsStores ==
  \/ nginx = Stored
  \/ Stored = NoHosts
  \/ queue["ingress"] # <<>>
  \/ "ingress" \in resync
===============================================================================
