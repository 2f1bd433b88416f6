--------------------------- MODULE MCFileManager ---------------------------
EXTENDS FileManager

MCWorkspaces == {"w1", "w2"}
MCFiles   == 1..4
MCFolders == 5..6
MCMime  == <<"image", "archive", "document", "video">>
MCExt   == MCMime
MCBytes == <<5, 1, 2, 1>>
MCTitle == <<2, 1, 3, 4, 1, 2>>
MCFiltersTried == {EmptyFilters,
                   [kind |-> "image", size |-> "any", sort |-> "name", asc |-> TRUE]}

\* w1: a file and a folder with an archive in it, and a file in the
\* trash; w2 is empty.
MCStored ==
    [file   |-> <<[ws |-> "w1", in |-> Root, state |-> "active"],
                  [ws |-> "w1", in |-> 5, state |-> "active"],
                  [ws |-> "w1", in |-> Root, state |-> "trash"], NoRow>>,
     folder |-> [p \in MCFolders |-> IF p = 5 THEN [ws |-> "w1", in |-> Root, state |-> "active"]
                                     ELSE NoRow],
     object |-> 1..3, keys |-> 3, dirs |-> 1]

MCHabits == {{"open", "select", "erase"}, {"select", "restore", "open"}, {"open", "upload"},
             {"upload", "switch"}, {"open", "switch"}, {"select", "arrange"},
             {"open", "extract", "select"}, {"open", "view"}}
=============================================================================
