----------------------------- MODULE Catalogue -----------------------------
(* The photo database as the light table reads it: the queries of PhotoDB     *)
(* over the table M.filter joined with photos, the edits of Selection, and    *)
(* the lists Purge makes.  A row of the filter is a version with its photo.   *)
EXTENDS Naturals, Sequences, FiniteSets, SequencesExt, FiniteSetsExt, Functions

CONSTANTS
    CaptureDate,    \* photo |-> its capture date, in seconds
    FolderOf,       \* photo |-> the path of its folder
    SubFolders,     \* path |-> its subfolders in order of name, "/" |-> the roots
    Folders         \* every path, in the order of the paths

-----------------------------------------------------------------------------
(* Queries.                                                                   *)
Date(row) == CaptureDate[row.photo]
Path(row) == FolderOf[row.photo]

\* The inner join with photos: a row whose photo is gone is not seen.
JoinedRows(d) == {row \in d.filter : row.photo \in d.photos}

\* order by capturedate, filename: photos are numbered in the order of names.
Before(a, b) ==
    \/ Date(a) < Date(b)
    \/ Date(a) = Date(b) /\ a.photo < b.photo
    \/ a.photo = b.photo /\ a.version < b.version
VersionsInOrder(rows) ==
    LET s == SetToSortSeq(rows, Before) IN [i \in DOMAIN s |-> s[i].version]
FirstVersion(rows) == IF rows = {} THEN 0 ELSE Head(VersionsInOrder(rows))

InDateRange(d, from, end) == {row \in JoinedRows(d) : from <= Date(row) /\ Date(row) < end}
InFolder(d, f) == {row \in JoinedRows(d) : Path(row) = f}

RECURSIVE FoldersBelow(_)
FoldersBelow(f) ==
    LET subs == Range(SubFolders[f]) IN subs \cup UNION {FoldersBelow(g) : g \in subs}
InTreeBelow(d, f) == {row \in JoinedRows(d) : Path(row) \in FoldersBelow(f)}
\* pathname like '/' || '/%' matches no folder: the root counts only itself.
InTree(d, f) == InFolder(d, f) \cup IF f = "/" THEN {} ELSE InTreeBelow(d, f)

\* The folder's own first version, else that of its first subfolder with any.
RECURSIVE FirstVersionInTree(_, _)
FirstVersionInTree(d, f) ==
    LET own == FirstVersion(InFolder(d, f))
        subs == SelectSeq([i \in DOMAIN SubFolders[f] |->
                             FirstVersionInTree(d, SubFolders[f][i])], LAMBDA v : v # 0)
    IN IF own # 0 THEN own ELSE IF subs = <<>> THEN 0 ELSE Head(subs)

\* SessionDB::current() answers only with a version that exists.
Current(d) == IF d.current \in DOMAIN d.versions THEN d.current ELSE 0
DateOfVersion(d, v) == CaptureDate[d.versions[v].photo]
FolderOfVersion(d, v) == FolderOf[d.versions[v].photo]

-----------------------------------------------------------------------------
(* Edits.                                                                     *)
\* SQLite gives a new row one more than the largest id there is.
NextVersion(d) == Max({0} \cup DOMAIN d.versions) + 1
AddVersion(d, photo, status) ==
    [d EXCEPT !.versions =
        [v \in DOMAIN @ \cup {NextVersion(d)} |->
            IF v = NextVersion(d) THEN [photo |-> photo, status |-> status] ELSE @[v]]]
NewVersion(d, v) == AddVersion(d, d.versions[v].photo, d.versions[v].status)
DeleteVersions(d, vs) ==
    [d EXCEPT !.versions = Restrict(@, DOMAIN @ \ vs)]
\* on delete cascade: the versions of a photo go with it.
DeletePhotos(d, ps) ==
    DeleteVersions([d EXCEPT !.photos = @ \ ps],
                   {v \in DOMAIN d.versions : d.versions[v].photo \in ps})
SetStatus(d, vs, status) ==
    [d EXCEPT !.versions = [v \in DOMAIN @ |->
        IF v \in vs THEN [@[v] EXCEPT !.status = status] ELSE @[v]]]

Rejects(d) == {v \in DOMAIN d.versions : d.versions[v].status = "rejected"}
\* Mutant of KeptPhotos: only what has been accepted is kept.
KeptPhotosAccepted(d) ==
    {d.versions[v].photo : v \in {u \in DOMAIN d.versions : d.versions[u].status = "accepted"}}
KeptPhotos(d) == {d.versions[v].photo : v \in DOMAIN d.versions \ Rejects(d)}
\* What Purge::refresh lists: rejects whose photo has other versions and those
\* whose photo has none, the photos of the latter, and photos without versions.
PurgeLists(d) ==
    LET with == {v \in Rejects(d) : d.versions[v].photo \in KeptPhotos(d)}
    IN [withSiblings |-> with,
        withoutSiblings |-> Rejects(d) \ with,
        photos |-> {d.versions[v].photo : v \in Rejects(d) \ with},
        orphans |-> d.photos \ {d.versions[v].photo : v \in DOMAIN d.versions}]

-----------------------------------------------------------------------------
(* Selection: every edit takes its versions from the filter.                  *)
VersionsOf(rows) == {row.version : row \in rows}
\* The end is inclusive, one second is added to it.
DateRange(d, from, last) == VersionsOf(InDateRange(d, from, last + 1))
Select(d, vs) == [d EXCEPT !.selection = @ \cup vs]
Deselect(d, vs) == [d EXCEPT !.selection = @ \ vs]

Rank(f) == CHOOSE i \in DOMAIN Folders : Folders[i] = f
\* The versions from one photo to another in the order of folders and dates.
FolderRange(d, f, from, g, to) ==
    VersionsOf({row \in InFolder(d, f) : Date(row) >= from}
               \cup {row \in JoinedRows(d) : Rank(f) < Rank(Path(row)) /\ Rank(Path(row)) < Rank(g)}
               \cup {row \in InFolder(d, g) : Date(row) <= to})
=============================================================================
