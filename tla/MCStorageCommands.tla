-------------------------- MODULE MCStorageCommands -------------------------
(* Two files, one of them not there yet, and two directories: the root and *)
(* one that does not exist.                                                *)
EXTENDS StorageCommands, TLC
CONSTANTS f, g, root, missing

MCContents == f :> <<1, 2>> @@ g :> Absent

AnEntry(kind, hidden, is_dir, name) ==
  [kind |-> kind, hidden |-> hidden, is_dir |-> is_dir, name |-> name]

MCListing ==
  root :> <<AnEntry("self", TRUE, TRUE, "a"), AnEntry("parent", TRUE, TRUE, "b"),
            AnEntry("plain", TRUE, TRUE, "c"), AnEntry("plain", FALSE, FALSE, "d"),
            AnEntry("plain", FALSE, TRUE, "e")>>
  @@ missing :> Absent
=============================================================================
