------------------------------- MODULE MCGsu -------------------------------
EXTENDS Gsu

\* Programs that store and load; that read ROM; that plot; that clear what they
\* stored; that jump.
Kinds == {
    {"Store", "Load", "RAMB", "MULT", "Stop", "Save"},
    {"R14", "ROMB", "GETB", "MULT", "Stop"},
    {"PLOT", "RPIX", "CLEAR", "Save"},
    {"Store", "CLEAR", "RAMB"},
    {"Jump", "Branch", "Stop"}}

Uniform == {{}, Pixels}
Shared == {<<1, 0>>}
=============================================================================
