------------------------------ MODULE MCAppShell ------------------------------
EXTENDS AppShell, TLC

FileSymmetry == Permutations(Path)
=============================================================================
