------------------------------ MODULE MCDeploy ------------------------------
EXTENDS Deploy

\* A first deployment of green, before there is a handler for the strategy, then
\* the upgrade to blue that brings one.
FirstAndUpgrade ==
    <<[command |-> "deploy-to-aws", images |-> {FALSE}],
      [command |-> "create"],
      [command |-> "migrate", color |-> "green", folder |-> "processing_cache"],
      [command |-> "migrate", color |-> "blue", folder |-> "processing_cache"],
      [command |-> "metadata", color |-> "green"],
      [command |-> "pricing", color |-> "green"],
      [command |-> "timings", color |-> "green"],
      [command |-> "migrate", color |-> "green", folder |-> "processing"],
      [command |-> "migrate", color |-> "blue", folder |-> "processing"],
      [command |-> "configure", color |-> "green"],
      [command |-> "deploy", color |-> "blue", images |-> {TRUE}],
      [command |-> "reset", color |-> "blue", folder |-> "processing"],
      [command |-> "reset", color |-> "blue", folder |-> "processing_cache"],
      [command |-> "migrate", color |-> "blue", folder |-> "processing_cache"],
      [command |-> "copy", color |-> "green"],
      [command |-> "migrate", color |-> "blue", folder |-> "processing"],
      [command |-> "configure", color |-> "blue"],
      [command |-> "promote", color |-> "blue"],
      [command |-> "destroy", color |-> "green"]>>
=============================================================================
