------------------------------ MODULE FileView ------------------------------
(***************************************************************************)
(* lib/file-view.ts: which of the listed files and folders the page shows, *)
(* and in which order.                                                     *)
(***************************************************************************)
EXTENDS WorkspaceDisk, SequencesExt

CONSTANT MB   \* the unit of the size filters

ASSUME NamesAreRanked ==
    MB \in Nat /\ Bytes \in [Files -> Nat] /\ Title \in [Files \cup Folders -> Nat]

KindOrder == <<"image", "video", "audio", "archive", "document">>
FileKinds == ToSet(KindOrder) \cup {"other"}
Kinds     == FileKinds \cup {"all", "folder"}
Sizes     == {"any", "lt1", "1to10", "10to100", "gt100"}
SortKeys  == {"name", "date", "size", "type"}

Filters == [kind : Kinds, size : Sizes, sort : SortKeys, asc : BOOLEAN]
EmptyFilters == [kind |-> "all", size |-> "any", sort |-> "date", asc |-> FALSE]

\* The first kind that either the mime type or the extension speaks for.
ClassifyFile(f) ==
    LET hit == SelectInSeq(KindOrder, LAMBDA k : k \in {Mime[f], Ext[f]})
    IN  IF hit = 0 THEN "other" ELSE KindOrder[hit]

IsArchiveFile(f) == ClassifyFile(f) = "archive"

MatchesSize(f, size) ==
    CASE size = "lt1"     -> Bytes[f] < MB
      [] size = "1to10"   -> Bytes[f] >= MB /\ Bytes[f] < 10 * MB
      [] size = "10to100" -> Bytes[f] >= 10 * MB /\ Bytes[f] < 100 * MB
      [] size = "gt100"   -> Bytes[f] >= 100 * MB
      [] OTHER            -> TRUE

FilterFolders(folders, filters) ==
    IF filters.kind \in {"all", "folder"} /\ filters.size = "any" THEN folders ELSE {}

FilterFiles(files, filters) ==
    {f \in files : /\ filters.kind \in {"all", ClassifyFile(f)}
                   /\ MatchesSize(f, filters.size)}

\* Array.sort for an order that has one of any two of S before the other: each has the
\* place that the number of those before it gives.
Sorted(S, before) ==
    [i \in 1..Cardinality(S) |-> CHOOSE x \in S : Cardinality({y \in S : <<y, x>> \in before}) = i - 1]

\* Array.sort keeps the order of equals, which is that of the answer: the newest
\* first for files.  Ids are numbered by created_at.
SortFiles(files, filters) ==
    LET KindRank(f) == SelectInSeq(<<"archive", "audio", "document", "image", "other", "video">>,
                                   LAMBDA k : k = ClassifyFile(f))
        Key(f) == CASE filters.sort = "name" -> Title[f]
                    [] filters.sort = "size" -> Bytes[f]
                    [] filters.sort = "type" -> KindRank(f)
                    [] OTHER                 -> f
        Before(f, g) == IF Key(f) = Key(g) THEN f > g ELSE (Key(f) < Key(g)) = filters.asc
    IN  Sorted(files, {x \in files \X files : Before(x[1], x[2])})

\* Folders come by name; of two whose names differ in case alone the newer one is first here.
SortFolders(folders, filters) ==
    LET Key(p) == IF filters.sort = "name" THEN Title[p] ELSE p
        Before(p, q) == IF Key(p) = Key(q) THEN p > q ELSE (Key(p) < Key(q)) = filters.asc
    IN  Sorted(folders, {x \in folders \X folders : Before(x[1], x[2])})
=============================================================================
