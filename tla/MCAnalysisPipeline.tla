------------------------- MODULE MCAnalysisPipeline -------------------------
EXTENDS AnalysisPipeline

\* EDA adds the treatment branch to a configuration that lacks it.
DiscoveryConfigs == {{"discovery"}}
BareConfigs == {{}}
=============================================================================
