---------------------------- MODULE MCThermostat ----------------------------
EXTENDS Thermostat
=============================================================================
