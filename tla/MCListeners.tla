---------------------------- MODULE MCListeners ----------------------------
(* Three groups and two handlers for TLC.  65616 is 80 once it is cast to  *)
(* u16; 19688 is the panel's own port.                                     *)
EXTENDS Listeners, TLC

CONSTANTS g1, g2, g3, t1, t2

MCGroupId == {g1, g2, g3}
MCTask == {t1, t2}
MCPort == {80, 81, 19688, 65616}
MCOccupied == {19688}

Line(i, p, e) == [id |-> i, port |-> p, enabled |-> e, skip |-> FALSE, force |-> FALSE]

MCInitialGroups == {Line(g1, 80, TRUE)}
MCNewGroups == {Line(g2, 80, TRUE), Line(g2, 81, TRUE), Line(g3, 81, TRUE)}

MCPatchBodies ==
    {{<<"port", 81>>, <<"enabled", TRUE>>}, {<<"port", 19688>>, <<"force", TRUE>>},
     {<<"enabled", FALSE>>}}

\* A file with a row that an import skips.
MCBackups == {{Line(g2, 65616, TRUE), Line("", 81, TRUE)}}
=============================================================================
