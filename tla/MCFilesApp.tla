----------------------------- MODULE MCFilesApp -----------------------------
(* A root with a file and a folder, and in the folder its .keep file. *)
EXTENDS FilesApp
MCParent == [p \in {"/", "/d", "/f", "/d/.keep"} |->
               IF p = "/d/.keep" THEN "/d" ELSE "/"]
MCKeep == [d \in {"/d"} |-> "/d/.keep"]
=============================================================================
