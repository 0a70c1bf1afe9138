---------------------------- MODULE MCCloudSync ----------------------------
EXTENDS CloudSync

S(kind, created, edits, foreign, offline, losses, crashes) ==
  [kind |-> kind, created |-> created, edits |-> edits, foreign |-> foreign,
   offline |-> offline, losses |-> losses, crashes |-> crashes]

AllScenarios ==
  {S("notebook", FALSE, 2, 1, 1, 1, 1),
   S("notebook", TRUE, 2, 1, 0, 0, 1),
   S("workflow", FALSE, 3, 1, 0, 0, 0),
   S("workflow", FALSE, 2, 1, 0, 0, 1),
   S("enum", TRUE, 2, 1, 0, 0, 1),
   S("preference", FALSE, 2, 1, 0, 1, 0)}
=============================================================================
