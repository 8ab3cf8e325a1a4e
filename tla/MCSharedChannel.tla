---------------------------- MODULE MCSharedChannel ----------------------------
(* Values for the constants of SharedChannel.                                *)
EXTENDS SharedChannel

\* A command, a payload whose size entry points past the segment, one that does
\* not fit, one padded by a zero cell.
MCKind  == <<"command", "data", "data", "data">>
MCSize  == <<0, 2, 3, 1>>
MCClaim == <<0, 3, 3, 2>>

\* The first payload's control string leaves no room for a NUL, or is longer.
MCLong == {2}

\* The writer may die in the payload after the command.
MCMayDie == {2}
=============================================================================
