-------------------------- MODULE MCCodeGeneration --------------------------
EXTENDS CodeGeneration
=============================================================================
