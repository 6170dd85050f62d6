--------------------------- MODULE MCDesktopIcons ---------------------------
(* A desktop of the two files a first render writes.                       *)
EXTENDS DesktopIcons

FirstFiles == <<"welcome", "projects">>
=============================================================================
