---------------------------- MODULE MCShellTask -----------------------------
EXTENDS ShellTask
=============================================================================
