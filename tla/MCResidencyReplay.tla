--------------------------- MODULE MCResidencyReplay ---------------------------
EXTENDS ResidencyReplay
MCTensors == 1..5
MCBytes == <<1, 1, 1, 2, 3>>
MCClass == <<"norm", "expert", "expert", "norm", "router">>
=============================================================================
