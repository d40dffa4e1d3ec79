-------------------------- MODULE MCSettlementClient --------------------------
EXTENDS SettlementClient, TLC

PanelSymmetry == Permutations(Panels)
=============================================================================
