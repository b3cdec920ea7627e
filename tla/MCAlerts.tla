------------------------------ MODULE MCAlerts ------------------------------
EXTENDS AlertEngine
AnySort == [Alerts -> Sorts]
=============================================================================
