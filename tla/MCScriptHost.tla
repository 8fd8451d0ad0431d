----------------------------- MODULE MCScriptHost -----------------------------
EXTENDS ScriptHost
=============================================================================
