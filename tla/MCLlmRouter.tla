---------------------------- MODULE MCLlmRouter ----------------------------
EXTENDS LlmRouter
MCFallbacks == <<"vertex", "openai">>
=============================================================================
