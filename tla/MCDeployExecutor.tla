-------------------------- MODULE MCDeployExecutor --------------------------
EXTENDS DeployExecutor, TLC
Deployers == Permutations(Deployer)
Projects == Permutations(Project)
Symmetric == Deployers \cup Projects
=============================================================================
