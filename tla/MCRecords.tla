----------------------------- MODULE MCRecords -----------------------------
EXTENDS DeferredFiring
(* Full and partial reports that set the attribute, leave it out and take   *)
(* it away, with each word on where the change came from.                   *)
Published ==
    {Report(TRUE, "on", "none"), Report(TRUE, Absent, "external"),
     Report(FALSE, "off", "own"), Report(FALSE, Absent, "none"),
     Report(FALSE, Null, "none"), Availability(TRUE), Availability(FALSE),
     Register("given", TRUE), Unregister("plugin")}
=============================================================================
