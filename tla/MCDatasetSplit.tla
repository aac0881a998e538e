---------------------------- MODULE MCDatasetSplit ----------------------------
EXTENDS DatasetSplit

\* Three buildings: the second and the third get a finished facade later.
MCFolder == <<1, 2, 3, 3, 2, 3>>
MCLabel == <<"roofing", "roofing", "roofing", "finishing", "finishing", "finishing">>
MCRatio == [train |-> 70, validation |-> 15, test |-> 15]
=============================================================================
