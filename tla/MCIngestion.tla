---------------------------- MODULE MCIngestion ----------------------------
(***************************************************************************)
(* Every rule by itself, and together the aspects whose events share a     *)
(* dedup key and those whose memories depend on one another's errors.      *)
(***************************************************************************)
EXTENDS Ingestion

MCWatch ==
  {<<r>> : r \in DOMAIN RuleOf} \union
  {<<"uptime_status", "uptime_response">>, <<"uptime_status", "uptime_cert">>,
   <<"vaultwarden_api", "vaultwarden_slow">>, <<"emqx_service", "emqx_alarm">>,
   <<"portainer_container", "portainer_resource">>, <<"n8n_service", "n8n_execution">>}

\* Adapters whose start() connects first.
MCConnecting == {<<"portainer_endpoint">>, <<"npm_proxy_host">>, <<"ha_log_entry">>}
=============================================================================
